--------------------------- MODULE Compiler_proof ---------------------------
(***************************************************************************)
(* What holds of Compiler for every value of its constants: any functions  *)
(* and bodies, any order of defun, compile and calls.                      *)
(***************************************************************************)
EXTENDS Compiler, Positions, SequenceTheorems, TLAPS

Depth == 1..Len(stack)

(* A closure interprets the latest definition, or runs compiled code; and  *)
(* only what was defined was compiled.                                     *)
Sources ==
  \A f \in Functions :
    /\ slot[f] \in {Jit, code[f]}
    /\ module[f] # Undefined => code[f] # Undefined

(* A call runs the code of the module, after the calls in its arguments,   *)
(* or calls that go through closures.                                      *)
RunsCode(r) ==
  IF r.jit THEN /\ module[r.fun] # Undefined
                /\ ~Forms => r.sites = module[r.fun]
           ELSE /\ \A i \in 1..Len(r.sites) : r.sites[i].way = "slot"
                /\ Names(r.sites) = r.latest

Running == \A k \in Depth : RunsCode(stack[k])

Named ==
  \A k \in Depth :
    k = 1 \/ ~stack[k-1].jit => stack[k].fun = stack[k].asked

IInv == /\ TypeOK /\ Sources /\ Linked /\ RecursesDirectly
        /\ Running /\ Named

(* A call in progress is what its set says.                                *)
LEMMA OnStack ==
  ASSUME TypeOK
  PROVE  /\ Len(stack) \in Nat
         /\ \A k \in Depth : stack[k] \in Activation
<1>1. stack \in Seq(Activation)
  BY DEF TypeOK
<1> QED BY <1>1 DEF Depth

LEMMA Exactly == IInv => InterpreterExact
  BY DEF IInv, Running, Named, RunsCode, Depth, InterpreterExact

LEMMA InitInv == Init => IInv
<1> SUFFICES ASSUME Init PROVE IInv
  OBVIOUS
<1>1. TypeOK
  BY DEF Init, TypeOK
<1>2. Len(stack) = 0
  BY DEF Init
<1> QED
  BY <1>1, <1>2, CompilerAssumption
     DEF Init, IInv, Linkable, Sources, Linked, RecursesDirectly, Running, Named, Depth

-----------------------------------------------------------------------------
(* defun and compile.                                                      *)

LEMMA DefunInv ==
  ASSUME IInv, NEW f \in Functions, NEW body \in Bodies, Defun(f, body)
  PROVE  IInv'
<1>1. /\ code' = [code EXCEPT ![f] = body] /\ slot' = [slot EXCEPT ![f] = body]
      /\ UNCHANGED <<compiled, module, clos2, stack>>
  BY DEF Defun, Installed
<1>2. body # Undefined /\ body # Jit
  BY CompilerAssumption
<1>3. TypeOK'
  BY <1>1 DEF IInv, TypeOK
<1>4. Sources'
  BY <1>1, <1>2 DEF IInv, TypeOK, Sources
<1>5. Linked'
  BY <1>1, <1>2 DEF IInv, TypeOK, Linked, Linkable
<1>6. RecursesDirectly' /\ Running' /\ Named'
  BY <1>1 DEF IInv, RecursesDirectly, Running, RunsCode, Named, Depth, Names
<1> QED BY <1>3, <1>4, <1>5, <1>6 DEF IInv

(* Code that is generated has a site for every call of the body; clos2     *)
(* afterwards points to a function if one of them needs it.                *)
LEMMA GeneratedCode ==
  ASSUME TypeOK, NEW body \in Bodies \cup {<<>>}, NEW done \in [Functions -> BOOLEAN],
         NEW last \in LastIndirect(body, done)
  PROVE  LET sites == Generated(body, done)
         IN  /\ sites \in Seq(Site) /\ Len(sites) = Len(body)
             /\ \A i \in 1..Len(body) :
                  /\ sites[i].name = body[i] /\ body[i] \in Functions
                  /\ sites[i].way = IF done[body[i]] THEN "direct" ELSE "clos2"
             /\ last \in Functions \cup {None}
             /\ clos2 # None => last # None
             /\ \A i \in 1..Len(body) : ~done[body[i]] => last # None
<1> DEFINE sites == Generated(body, done)
           I     == Indirect(body, done)
<1>1. /\ body \in Seq(Functions) /\ Len(body) \in Nat
      /\ \A i \in 1..Len(body) : body[i] \in Functions
  <2>1. CASE body \in Bodies
    BY <2>1, CompilerAssumption
  <2>2. CASE body = <<>>
    <3>1. <<>> \in Seq(Functions)
      OBVIOUS
    <3> QED BY <2>2, <3>1
  <2> QED BY <2>1, <2>2
<1>2. /\ sites = [i \in 1..Len(body) |->
                    [name |-> body[i],
                     way  |-> IF done[body[i]] THEN "direct" ELSE "clos2"]]
      /\ sites \in [1..Len(body) -> Site]
  BY <1>1 DEF Generated, Site, Ways
<1> HIDE DEF sites
<1>3. /\ sites \in Seq(Site) /\ Len(sites) = Len(body)
      /\ \A i \in 1..Len(body) :
           /\ sites[i].name = body[i]
           /\ sites[i].way = IF done[body[i]] THEN "direct" ELSE "clos2"
  <2>1. sites \in Seq(Site) /\ Len(sites) = Len(body)
    <3>1. sites \in [1..Len(body) -> Site] /\ Len(body) \in Nat
      BY <1>1, <1>2
    <3> QED BY <3>1, SequenceOfLength
  <2>2. \A i \in 1..Len(body) :
          sites[i] = [name |-> body[i],
                      way  |-> IF done[body[i]] THEN "direct" ELSE "clos2"]
    BY <1>2
  <2>3. ASSUME NEW i \in 1..Len(body)
        PROVE  /\ sites[i].name = body[i]
               /\ sites[i].way = IF done[body[i]] THEN "direct" ELSE "clos2"
    <3> DEFINE way == IF done[body[i]] THEN "direct" ELSE "clos2"
    <3>1. sites[i] = [name |-> body[i], way |-> way]
      BY <2>2
    <3> HIDE DEF way
    <3>2. sites[i].name = body[i] /\ sites[i].way = way
      BY <3>1
    <3> QED BY <3>2 DEF way
  <2> QED BY <2>1, <2>3
<1>4. CASE I = {}
  <2>1. last = clos2
    BY <1>4 DEF LastIndirect
  <2>2. \A i \in 1..Len(body) : done[body[i]]
    BY <1>4 DEF Indirect
  <2>3. last \in Functions \cup {None}
    BY <2>1 DEF TypeOK
  <2> QED BY <1>1, <1>3, <2>1, <2>2, <2>3 DEF sites
<1>5. CASE I # {}
  <2>1. PICK i \in 1..Len(body) : last = body[i]
    BY <1>5 DEF LastIndirect, Indirect
  <2>2. last \in Functions /\ last # None
    BY <1>1, <2>1, CompilerAssumption
  <2> QED BY <1>1, <1>3, <2>2 DEF sites
<1> QED BY <1>4, <1>5

(* All calls of the code can be made after the step.                       *)
Callable(sites) ==
  \A i \in 1..Len(sites) :
    /\ sites[i].way = "direct" => module'[sites[i].name] # Undefined
    /\ sites[i].way = "clos2"  => clos2' # None

LEMMA CompileInv ==
  ASSUME IInv, NEW f \in Functions, Compile(f)
  PROVE  IInv'
<1> DEFINE done  == Marked(f)
           sites == Generated(code[f], done)
<1>1. /\ code[f] # Undefined
      /\ compiled' = done
      /\ clos2' \in LastIndirect(code[f], done)
      /\ module' = [module EXCEPT ![f] = Entry(f, sites)]
      /\ slot' = [slot EXCEPT ![f] = Jit]
      /\ UNCHANGED <<code, stack>>
  BY DEF Compile, Marked
<1>2. /\ code[f] \in Bodies /\ done \in [Functions -> BOOLEAN]
      /\ done[f] /\ \A g \in Functions : g # f => done[g] = compiled[g]
  BY <1>1 DEF IInv, TypeOK, Marked
<1> HIDE DEF done
<1>3. /\ sites \in Seq(Site) /\ Len(sites) = Len(code[f])
      /\ \A i \in 1..Len(sites) :
           /\ sites[i].name \in Functions
           /\ sites[i].way = IF done[sites[i].name] THEN "direct" ELSE "clos2"
      /\ clos2' \in Functions \cup {None}
      /\ clos2 # None => clos2' # None
      /\ \A i \in 1..Len(sites) : ~done[sites[i].name] => clos2' # None
  BY <1>1, <1>2, GeneratedCode DEF IInv
<1>4. sites # Undefined
  BY <1>3, CompilerAssumption
<1> HIDE DEF sites
<1>5. /\ module' \in [Functions -> Seq(Site) \cup {Undefined}]
      /\ module'[f] # Undefined
      /\ module[f] = Undefined => module'[f] = sites
      /\ \A g \in Functions : module[g] # Undefined => module'[g] = module[g]
      /\ \A g \in Functions : g # f => module'[g] = module[g]
  BY <1>1, <1>3, <1>4 DEF IInv, TypeOK, Entry
<1>6. TypeOK'
  BY <1>1, <1>2, <1>3, <1>5 DEF IInv, TypeOK
<1>7. Sources'
  BY <1>1, <1>5 DEF IInv, TypeOK, Sources
<1>8. Linked'
  <2>1. ASSUME NEW g \in Functions, compiled'[g] \/ slot'[g] = Jit
        PROVE  module'[g] # Undefined
    BY <1>1, <1>2, <1>5, <2>1 DEF IInv, TypeOK, Linked
  <2>2. ASSUME NEW emitted \in Seq(Site), Linkable(emitted)
        PROVE  Callable(emitted)
    <3>1. ASSUME NEW i \in 1..Len(emitted) PROVE emitted[i].name \in Functions
      <4>1. emitted[i] \in Site
        BY ElementOfSeq
      <4> QED BY <4>1 DEF Site
    <3> QED BY <1>3, <1>5, <2>2, <3>1 DEF Linkable, Callable
  <2>3. Callable(sites)
    <3> SUFFICES ASSUME NEW i \in 1..Len(sites)
                 PROVE  /\ sites[i].way = "direct" => module'[sites[i].name] # Undefined
                        /\ sites[i].way = "clos2" => clos2' # None
      BY DEF Callable
    <3>1. done[sites[i].name] => module'[sites[i].name] # Undefined
      BY <1>1, <1>3, <2>1
    <3> QED BY <1>3, <3>1
  <2>4. ASSUME NEW g \in Functions, module'[g] # Undefined
        PROVE  Callable(module'[g])
    <3>1. CASE module[g] # Undefined
      <4>1. module'[g] = module[g] /\ module[g] \in Seq(Site) /\ Linkable(module[g])
        BY <1>5, <3>1 DEF IInv, TypeOK, Linked
      <4> QED BY <2>2, <4>1
    <3>2. CASE module[g] = Undefined
      <4>1. g = f /\ module'[g] = sites
        BY <1>5, <2>4, <3>2
      <4> QED BY <2>3, <4>1
    <3> QED BY <3>1, <3>2
  <2>5. ASSUME NEW k \in 1..Len(stack') PROVE Callable(stack'[k].sites)
    <3>1. stack' = stack /\ k \in Depth
      BY <1>1 DEF Depth
    <3>2. stack[k] \in Activation
      BY <3>1, OnStack DEF IInv
    <3>3. stack[k].sites \in Seq(Site) /\ Linkable(stack[k].sites)
      BY <3>1, <3>2 DEF Activation, IInv, Linked, Depth
    <3> QED BY <2>2, <3>1, <3>3
  <2> QED BY <2>1, <2>4, <2>5 DEF Linked, Linkable, Callable
<1>9. RecursesDirectly'
  <2> SUFFICES ASSUME NEW g \in Functions, module'[g] # Undefined,
                      NEW i \in 1..Len(module'[g]), module'[g][i].name = g
               PROVE  module'[g][i].way = "direct"
    BY DEF RecursesDirectly
  <2>1. CASE module[g] # Undefined
    BY <1>5, <2>1 DEF IInv, RecursesDirectly
  <2>2. CASE module[g] = Undefined
    BY <1>2, <1>3, <1>5, <2>2
  <2> QED BY <2>1, <2>2
<1>10. Running'
  <2> SUFFICES ASSUME NEW k \in Depth PROVE RunsCode(stack[k])'
    BY <1>1 DEF Running, Depth
  <2>1. RunsCode(stack[k]) /\ stack[k].fun \in Functions
    <3>1. stack[k] \in Activation
      BY OnStack DEF IInv
    <3> QED BY <3>1 DEF IInv, Running, Activation
  <2>2. stack'[k] = stack[k]
    BY <1>1
  <2>3. CASE stack[k].jit
    BY <1>5, <2>1, <2>2, <2>3 DEF RunsCode
  <2>4. CASE ~stack[k].jit
    BY <2>1, <2>2, <2>4 DEF RunsCode, Names
  <2> QED BY <2>3, <2>4
<1>11. Named'
  BY <1>1 DEF IInv, Named, Depth
<1> QED BY <1>6, <1>7, <1>8, <1>9, <1>10, <1>11 DEF IInv

-----------------------------------------------------------------------------
(* Calls.  Only the stack changes.                                         *)

Kept == /\ UNCHANGED <<code, slot, compiled, module>>
        /\ clos2' \in Functions \cup {None} /\ (clos2 # None => clos2' # None)

Links == \A k \in Depth : Linkable(stack[k].sites)

LEMMA KeptInv ==
  ASSUME IInv, Kept, stack' \in Seq(Activation), Running', Named', Links'
  PROVE  IInv'
<1>1. TypeOK'
  BY DEF IInv, TypeOK, Kept
<1>2. Sources' /\ RecursesDirectly'
  BY DEF IInv, Sources, RecursesDirectly, Kept
<1>3. Linked'
  <2>1. ASSUME NEW g \in Functions, module'[g] # Undefined PROVE Linkable(module[g])'
    BY <2>1 DEF IInv, Linked, Linkable, Kept
  <2>2. ASSUME NEW g \in Functions, compiled'[g] \/ slot'[g] = Jit
        PROVE  module'[g] # Undefined
    BY <2>2 DEF IInv, Linked, Kept
  <2> QED BY <2>1, <2>2 DEF Linked, Links, Depth
<1> QED BY <1>1, <1>2, <1>3 DEF IInv

(* What could be called can still be.                                      *)
LEMMA KeptLinks ==
  ASSUME Kept, NEW sites, Linkable(sites)
  PROVE  Linkable(sites)'
BY DEF Linkable, Kept

(* The names of emitted sites are the calls of the body.                  *)
LEMMA NamesOf ==
  ASSUME NEW body \in Seq(Functions), NEW sites \in Seq(Site),
         Len(sites) = Len(body),
         \A i \in 1..Len(body) : sites[i].name = body[i]
  PROVE  Names(sites) = body
<1>1. \A i \in 1..Len(body) : body[i] \in Functions
  BY ElementOfSeq
<1>2. /\ Names(sites) \in [1..Len(body) -> Functions]
      /\ \A i \in 1..Len(body) : Names(sites)[i] = body[i]
  BY <1>1 DEF Names
<1>3. Names(sites) \in Seq(Functions) /\ Len(Names(sites)) = Len(body)
  BY <1>2, SequenceOfLength
<1> QED BY <1>2, <1>3, SeqEqual

LEMMA CallableConcat ==
  ASSUME NEW a \in Seq(Site), NEW b \in Seq(Site), Callable(a), Callable(b)
  PROVE  a \o b \in Seq(Site) /\ Callable(a \o b)
<1>1. /\ a \o b \in Seq(Site) /\ Len(a) \in Nat /\ Len(b) \in Nat
      /\ Len(a \o b) = Len(a) + Len(b)
      /\ \A i \in 1..Len(a) + Len(b) :
           (a \o b)[i] = IF i <= Len(a) THEN a[i] ELSE b[i - Len(a)]
  BY ConcatProperties
<1>2. ASSUME NEW i \in 1..Len(a \o b)
      PROVE  /\ (a \o b)[i].way = "direct" => module'[(a \o b)[i].name] # Undefined
             /\ (a \o b)[i].way = "clos2"  => clos2' # None
  <2>1. CASE i <= Len(a)
    <3>1. i \in 1..Len(a) /\ (a \o b)[i] = a[i]
      BY <1>1, <2>1
    <3> QED BY <3>1 DEF Callable
  <2>2. CASE ~(i <= Len(a))
    <3>1. i - Len(a) \in 1..Len(b) /\ (a \o b)[i] = b[i - Len(a)]
      BY <1>1, <2>2
    <3> QED BY <3>1 DEF Callable
  <2> QED BY <2>1, <2>2
<1> QED BY <1>1, <1>2 DEF Callable

(* Generating from values that have no calls in them changes nothing.      *)
LEMMA NoValues ==
  ASSUME NEW done
  PROVE  Generated(<<>>, done) = <<>> /\ LastIndirect(<<>>, done) = {clos2}
<1>1. Indirect(<<>>, done) = {}
  BY DEF Indirect
<1> QED BY <1>1 DEF LastIndirect, Generated

(* The calls that are generated from the values of arguments.              *)
LEMMA CallerFacts ==
  ASSUME IInv, module' = module, NEW again \in Bodies \cup {<<>>},
         clos2' \in LastIndirect(again, compiled)
  PROVE  /\ Generated(again, compiled) \in Seq(Site)
         /\ Callable(Generated(again, compiled))
         /\ clos2' \in Functions \cup {None} /\ (clos2 # None => clos2' # None)
<1> DEFINE sites == Generated(again, compiled)
<1>1. compiled \in [Functions -> BOOLEAN] /\ TypeOK
  BY DEF IInv, TypeOK
<1>2. /\ sites \in Seq(Site) /\ Len(sites) = Len(again)
      /\ \A i \in 1..Len(again) :
           /\ sites[i].name = again[i] /\ again[i] \in Functions
           /\ sites[i].way = IF compiled[again[i]] THEN "direct" ELSE "clos2"
      /\ clos2' \in Functions \cup {None} /\ (clos2 # None => clos2' # None)
      /\ \A i \in 1..Len(again) : ~compiled[again[i]] => clos2' # None
  BY <1>1, GeneratedCode
<1> HIDE DEF sites
<1>3. Callable(sites)
  BY <1>2 DEF Callable, IInv, Linked
<1> QED BY <1>2, <1>3 DEF sites

(* Who can be called has code to run.                                      *)
LEMMA ThroughFresh ==
  ASSUME IInv, module' = module,
         NEW f \in Functions, NEW g \in Functions, slot[f] # Undefined,
         NEW again \in Bodies \cup {<<>>}, ~Forms => again = <<>>,
         clos2' \in LastIndirect(again, compiled)
  PROVE  /\ Through(f, g, again) \in Activation /\ RunsCode(Through(f, g, again))
         /\ Callable(Through(f, g, again).sites)
         /\ Through(f, g, again).fun = f /\ Through(f, g, again).asked = g
<1> DEFINE r == Through(f, g, again)
           before == Generated(again, compiled)
<1>1. /\ r.asked = g /\ r.fun = f /\ r.next = 1 /\ r.latest = code[f]
      /\ r.jit = (slot[f] = Jit)
      /\ r.sites = IF slot[f] = Jit THEN before \o module[f] ELSE Interpreted(slot[f])
  BY DEF Through
<1>2. CASE slot[f] = Jit
  <2>1. module[f] # Undefined /\ code[f] # Undefined
    BY <1>2 DEF IInv, Linked, Sources
  <2>2. code[f] \in Bodies /\ module[f] \in Seq(Site)
    BY <2>1 DEF IInv, TypeOK
  <2>3. before \in Seq(Site) /\ Callable(before) /\ (clos2 # None => clos2' # None)
    BY CallerFacts
  <2>4. Callable(module[f])
    BY <2>1, <2>3 DEF IInv, Linked, Linkable, Callable
  <2>5. before \o module[f] \in Seq(Site) /\ Callable(before \o module[f])
    <3> HIDE DEF before
    <3> QED BY <2>2, <2>3, <2>4, CallableConcat
  <2>6. ~Forms => before \o module[f] = module[f]
    <3>1. ~Forms => before = <<>>
      BY NoValues
    <3> HIDE DEF before
    <3> QED BY <2>2, <3>1, ConcatEmptySeq
  <2>7. PICK sites \in Seq(Site) : sites = before \o module[f]
    BY <2>5
  <2>8. r = [asked |-> g, fun |-> f, next |-> 1, latest |-> code[f],
             jit |-> TRUE, sites |-> sites]
    BY <1>2, <2>7 DEF Through
  <2>9. r \in Activation
    BY <2>2, <2>8 DEF Activation
  <2>10. r.jit /\ r.sites = sites /\ r.fun = f
    BY <2>8
  <2>11. RunsCode(r)
    BY <2>1, <2>6, <2>7, <2>10 DEF RunsCode
  <2> QED BY <1>1, <2>5, <2>7, <2>9, <2>10, <2>11
<1>3. CASE slot[f] # Jit
  <2>1. slot[f] = code[f] /\ code[f] \in Bodies
    BY <1>3 DEF IInv, TypeOK, Sources
  <2>2. code[f] \in Seq(Functions) /\ Len(code[f]) \in Nat
    BY <2>1, CompilerAssumption
  <2> DEFINE sites == Interpreted(code[f])
  <2>3. \A i \in 1..Len(code[f]) : code[f][i] \in Functions
    BY <2>2, ElementOfSeq
  <2>4. /\ sites = [i \in 1..Len(code[f]) |->
                      [name |-> code[f][i], way |-> "slot"]]
        /\ sites \in [1..Len(code[f]) -> Site]
    BY <2>3 DEF Interpreted, Site, Ways
  <2> HIDE DEF sites
  <2>5. sites \in Seq(Site) /\ Len(sites) = Len(code[f])
    <3>1. sites \in [1..Len(code[f]) -> Site] /\ Len(code[f]) \in Nat
      BY <2>2, <2>4
    <3> QED BY <3>1, SequenceOfLength
  <2>6. \A i \in 1..Len(sites) :
          sites[i].way = "slot" /\ sites[i].name = code[f][i]
    BY <2>4, <2>5
  <2>7. Names(sites) = code[f]
    BY <2>2, <2>5, <2>6, NamesOf
  <2>8. r = [asked |-> g, fun |-> f, next |-> 1, latest |-> code[f],
             jit |-> FALSE, sites |-> sites]
    BY <1>3, <2>1 DEF Through, sites
  <2>9. r \in Activation
    BY <2>1, <2>5, <2>8 DEF Activation
  <2>10. r.jit = FALSE /\ r.sites = sites /\ r.latest = code[f]
    BY <2>8
  <2>11. RunsCode(r) /\ Callable(r.sites)
    BY <2>6, <2>7, <2>10 DEF RunsCode, Callable
  <2> QED BY <1>1, <2>9, <2>11
<1> QED BY <1>2, <1>3

LEMMA DirectFresh ==
  ASSUME IInv, NEW f \in Functions, module[f] # Undefined, UNCHANGED <<module, clos2>>
  PROVE  /\ Direct(f) \in Activation /\ RunsCode(Direct(f)) /\ Callable(Direct(f).sites)
         /\ Direct(f).fun = f /\ Direct(f).asked = f
<1>1. code[f] \in Bodies /\ module[f] \in Seq(Site)
  BY DEF IInv, TypeOK, Sources
<1>2. Callable(module[f])
  BY DEF IInv, Linked, Linkable, Callable
<1> QED BY <1>1, <1>2 DEF Direct, Activation, RunsCode

(* Going on to the next site changes nothing else of the calls in progress. *)
LEMMA AdvancedFacts ==
  ASSUME IInv, stack # <<>>
  PROVE  /\ Advanced \in Seq(Activation) /\ Len(Advanced) = Len(stack)
         /\ Len(stack) \in Nat \ {0}
         /\ \A k \in Depth :
              /\ Advanced[k].fun = stack[k].fun
              /\ Advanced[k].asked = stack[k].asked
              /\ Advanced[k].jit = stack[k].jit
              /\ Advanced[k].latest = stack[k].latest
              /\ Advanced[k].sites = stack[k].sites
<1>1. stack \in Seq(Activation)
  BY DEF IInv, TypeOK
<1>2. Len(stack) \in Nat \ {0} /\ Len(stack) \in 1..Len(stack)
  BY <1>1, EmptySeq
<1>3. Top \in Activation
  BY <1>1, <1>2 DEF Top
<1> DEFINE r == [Top EXCEPT !.next = @ + 1]
<1>4. /\ r \in Activation
      /\ r.fun = Top.fun /\ r.asked = Top.asked /\ r.jit = Top.jit
      /\ r.latest = Top.latest /\ r.sites = Top.sites
  BY <1>3 DEF Activation
<1>5. Advanced = [stack EXCEPT ![Len(stack)] = r]
  BY <1>1, <1>2 DEF Advanced, Top
<1> HIDE DEF r
<1>6. /\ Advanced \in Seq(Activation) /\ Len(Advanced) = Len(stack)
      /\ \A k \in Depth :
           Advanced[k] = IF k = Len(stack) THEN r ELSE stack[k]
  BY <1>1, <1>2, <1>4, <1>5, ExceptSeq DEF Depth
<1> QED BY <1>2, <1>4, <1>6 DEF Top

(* The call that is made next.                                             *)
LEMMA HereSite ==
  ASSUME IInv, Calling
  PROVE  /\ stack # <<>> /\ Here.name \in Functions
         /\ Here.way = "direct" => Top.jit /\ module[Here.name] # Undefined
         /\ Here.way = "clos2"  => Top.jit /\ clos2 \in Functions
<1>1. stack # <<>> /\ Top.next <= Len(Top.sites)
  BY DEF Calling
<1>2. stack \in Seq(Activation) /\ Len(stack) \in Depth
  <2>1. stack \in Seq(Activation)
    BY DEF IInv, TypeOK
  <2> QED BY <1>1, <2>1, EmptySeq DEF Depth
<1>3. Top \in Activation /\ RunsCode(Top)
  BY <1>2 DEF IInv, Running, Top, Depth
<1>4. /\ Top.sites \in Seq(Site) /\ Top.next \in 1..Len(Top.sites)
      /\ Top.fun \in Functions
  BY <1>1, <1>3 DEF Activation
<1>5. Here \in Site
  BY <1>4 DEF Here
<1>6. CASE Top.jit
  <2>1. Linkable(Top.sites)
    BY <1>2 DEF IInv, Linked, Top, Depth
  <2>2. /\ Here.way = "direct" => module[Here.name] # Undefined
        /\ Here.way = "clos2" => clos2 # None
    BY <1>4, <2>1 DEF Linkable, Here
  <2> QED BY <1>1, <1>5, <1>6, <2>2 DEF Site, IInv, TypeOK
<1>7. CASE ~Top.jit
  <2>1. Here.way = "slot"
    BY <1>3, <1>4, <1>7 DEF RunsCode, Here
  <2> QED BY <1>1, <1>5, <2>1 DEF Site
<1> QED BY <1>6, <1>7

(* A call keeps the invariant if it has code to run and, when made by      *)
(* interpreted code, runs what it asked for.                               *)
LEMMA PushInv ==
  ASSUME IInv, stack # <<>>, Kept, NEW r \in Activation, RunsCode(r),
         Callable(r.sites), Top.jit \/ r.fun = r.asked, stack' = Append(Advanced, r)
  PROVE  IInv'
<1>1. /\ Advanced \in Seq(Activation) /\ Len(Advanced) = Len(stack)
      /\ Len(stack) \in Nat \ {0}
  BY AdvancedFacts
<1>2. /\ stack' \in Seq(Activation) /\ Len(stack') = Len(stack) + 1
      /\ stack'[Len(stack) + 1] = r
      /\ \A k \in Depth : stack'[k] = Advanced[k]
  BY <1>1, AppendProperties DEF Depth
<1>3. module' = module
  BY DEF Kept
<1>4. Running'
  <2> SUFFICES ASSUME NEW k \in 1..Len(stack') PROVE RunsCode(stack[k])'
    BY DEF Running, Depth
  <2>1. CASE k = Len(stack) + 1
    BY <1>2, <1>3, <2>1 DEF RunsCode, Names
  <2>2. CASE k # Len(stack) + 1
    <3>1. k \in Depth
      BY <1>1, <1>2, <2>2 DEF Depth
    <3>2. /\ stack'[k].fun = stack[k].fun /\ stack'[k].jit = stack[k].jit
          /\ stack'[k].latest = stack[k].latest
          /\ stack'[k].sites = stack[k].sites
      BY <1>2, <3>1, AdvancedFacts
    <3> QED BY <1>3, <3>1, <3>2 DEF IInv, Running, RunsCode, Names
  <2> QED BY <2>1, <2>2
<1>5. Named'
  <2> SUFFICES ASSUME NEW k \in 1..Len(stack'), k = 1 \/ ~stack'[k-1].jit
               PROVE  stack'[k].fun = stack'[k].asked
    BY DEF Named, Depth
  <2>1. CASE k = Len(stack) + 1
    <3>1. k # 1 /\ k - 1 = Len(stack) /\ k - 1 \in Depth
      BY <1>1, <2>1 DEF Depth
    <3>2. ~Top.jit
      BY <1>2, <3>1, AdvancedFacts DEF Top
    <3> QED BY <1>2, <2>1, <3>2
  <2>2. CASE k # Len(stack) + 1
    <3>1. k \in Depth /\ (k # 1 => k - 1 \in Depth)
      BY <1>1, <1>2, <2>2 DEF Depth
    <3>2. stack'[k].fun = stack[k].fun /\ stack'[k].asked = stack[k].asked
      BY <1>2, <3>1, AdvancedFacts
    <3>3. k # 1 => stack'[k-1].jit = stack[k-1].jit
      BY <1>2, <3>1, AdvancedFacts
    <3> QED BY <3>1, <3>2, <3>3 DEF IInv, Named
  <2> QED BY <2>1, <2>2
<1>6. Links'
  <2> SUFFICES ASSUME NEW k \in 1..Len(stack') PROVE Linkable(stack[k].sites)'
    BY DEF Links, Depth
  <2>1. CASE k = Len(stack) + 1
    BY <1>2, <1>3, <2>1 DEF Linkable, Callable
  <2>2. CASE k # Len(stack) + 1
    <3>1. k \in Depth
      BY <1>1, <1>2, <2>2 DEF Depth
    <3>2. stack'[k].sites = stack[k].sites
      BY <1>2, <3>1, AdvancedFacts
    <3>3. Linkable(stack[k].sites)
      BY <3>1 DEF IInv, Linked, Depth
    <3> QED BY <1>3, <3>2, <3>3 DEF Linkable, Kept
  <2> QED BY <2>1, <2>2
<1> QED BY <1>2, <1>4, <1>5, <1>6, KeptInv

(* Interpreted code calls: what is called has code, and clos2 can only get *)
(* another function.                                                       *)
LEMMA ValuesFacts ==
  ASSUME IInv, NEW f \in Functions, NEW again \in InValues(f), Caller(again),
         UNCHANGED <<code, slot, compiled, module>>
  PROVE  /\ again \in Bodies \cup {<<>>} /\ (~Forms => again = <<>> /\ clos2' = clos2)
         /\ clos2' \in LastIndirect(again, compiled) /\ Kept
<1>1. /\ again \in Bodies \cup {<<>>} /\ (~Forms => again = <<>>)
      /\ clos2' \in LastIndirect(again, compiled)
  BY DEF InValues, Caller
<1>2. ~Forms => clos2' = clos2
  BY <1>1, NoValues
<1>3. Kept
  BY <1>1, CallerFacts DEF Kept
<1> QED BY <1>1, <1>2, <1>3

LEMMA CallTopInv ==
  ASSUME IInv, NEW f \in Functions, NEW again, CallTop(f, again)
  PROVE  IInv'
<1>1. /\ again \in Bodies \cup {<<>>} /\ (~Forms => again = <<>>)
      /\ clos2' \in LastIndirect(again, compiled) /\ Kept
  BY ValuesFacts DEF CallTop
<1>2. PICK r \in Activation :
        /\ r = Through(f, f, again) /\ RunsCode(r) /\ Callable(r.sites) /\ r.fun = r.asked
  BY <1>1, ThroughFresh DEF CallTop
<1>3. stack' = <<r>>
  BY <1>2 DEF CallTop
<1>4. stack' \in Seq(Activation) /\ Len(stack') = 1 /\ stack'[1] = r
  BY <1>3
<1>5. Running' /\ Named'
  <2>1. RunsCode(r) <=> RunsCode(stack[1])'
    BY <1>1, <1>4 DEF RunsCode, Names, Kept
  <2>2. \A k \in 1..Len(stack') : k = 1
    BY <1>4
  <2>3. Running'
    BY <1>2, <2>1, <2>2 DEF Running, Depth
  <2>4. Named'
    BY <1>2, <1>4, <2>2 DEF Named, Depth
  <2> QED BY <2>3, <2>4
<1>6. Links'
  BY <1>1, <1>2, <1>4 DEF Links, Depth, Linkable, Callable, Kept
<1> QED BY <1>1, <1>4, <1>5, <1>6, KeptInv

LEMMA CallSlotInv ==
  ASSUME IInv, NEW again, CallSlot(again)
  PROVE  IInv'
<1>1. stack # <<>> /\ Here.name \in Functions
  BY HereSite DEF CallSlot
<1>2. /\ again \in Bodies \cup {<<>>} /\ (~Forms => again = <<>>)
      /\ clos2' \in LastIndirect(again, compiled) /\ Kept
  BY <1>1, ValuesFacts DEF CallSlot
<1>3. PICK r \in Activation :
        /\ r = Through(Here.name, Here.name, again)
        /\ RunsCode(r) /\ Callable(r.sites) /\ r.fun = r.asked
  BY <1>1, <1>2, ThroughFresh DEF CallSlot
<1>4. stack' = Append(Advanced, r)
  BY <1>3 DEF CallSlot
<1> QED BY <1>1, <1>2, <1>3, <1>4, PushInv

LEMMA CallInv ==
  ASSUME IInv, CallDirect \/ CallClos2
  PROVE  IInv'
<1>1. /\ stack # <<>> /\ Here.name \in Functions
      /\ Here.way = "direct" => Top.jit /\ module[Here.name] # Undefined
      /\ Here.way = "clos2"  => Top.jit /\ clos2 \in Functions
  BY HereSite DEF CallDirect, CallClos2
<1>2. clos2' = clos2 /\ Kept
  BY DEF CallDirect, CallClos2, Kept, IInv, TypeOK
<1>3. CASE CallDirect
  <2>1. PICK r \in Activation :
          r = Direct(Here.name) /\ RunsCode(r) /\ Callable(r.sites)
    BY <1>1, <1>2, <1>3, DirectFresh DEF CallDirect
  <2>2. stack' = Append(Advanced, r) /\ Top.jit
    BY <1>1, <1>3, <2>1 DEF CallDirect
  <2> QED BY <1>1, <1>2, <2>1, <2>2, PushInv
<1>4. CASE CallClos2
  <2>1. clos2' \in LastIndirect(<<>>, compiled)
    BY <1>2, NoValues
  <2>2. PICK r \in Activation :
          r = Through(clos2, Here.name, <<>>) /\ RunsCode(r) /\ Callable(r.sites)
    BY <1>1, <1>4, <2>1, ThroughFresh DEF CallClos2
  <2>3. stack' = Append(Advanced, r) /\ Top.jit
    BY <1>1, <1>4, <2>2 DEF CallClos2
  <2> QED BY <1>1, <1>2, <2>2, <2>3, PushInv
<1> QED BY <1>3, <1>4

LEMMA SkipInv ==
  ASSUME IInv, Skip
  PROVE  IInv'
<1>1. stack # <<>> /\ stack' = Advanced /\ Kept
  BY DEF Skip, Kept, IInv, TypeOK
<1>2. /\ stack' \in Seq(Activation) /\ Len(stack') = Len(stack)
      /\ \A k \in Depth :
           /\ stack'[k].fun = stack[k].fun /\ stack'[k].asked = stack[k].asked
           /\ stack'[k].jit = stack[k].jit
           /\ stack'[k].latest = stack[k].latest
           /\ stack'[k].sites = stack[k].sites
  BY <1>1, AdvancedFacts
<1>3. Running'
  BY <1>1, <1>2 DEF IInv, Running, RunsCode, Names, Depth, Kept
<1>4. Named'
  <2> SUFFICES ASSUME NEW k \in Depth, k = 1 \/ ~stack'[k-1].jit
               PROVE  stack'[k].fun = stack'[k].asked
    BY <1>2 DEF Named, Depth
  <2>1. k # 1 => k - 1 \in Depth
    BY <1>1, AdvancedFacts DEF Depth
  <2> QED BY <1>2, <2>1 DEF IInv, Named
<1>5. Links'
  BY <1>1, <1>2 DEF IInv, Linked, Links, Linkable, Depth, Kept
<1> QED BY <1>1, <1>2, <1>3, <1>4, <1>5, KeptInv

LEMMA ReturnInv ==
  ASSUME IInv, Return
  PROVE  IInv'
<1>1. stack # <<>> /\ stack' = Rest /\ Kept
  BY DEF Return, Kept, IInv, TypeOK
<1>2. stack \in Seq(Activation) /\ Len(stack) \in Nat \ {0}
  BY <1>1, AdvancedFacts DEF IInv, TypeOK
<1>3. /\ stack' \in Seq(Activation) /\ Len(stack') = Len(stack) - 1
      /\ \A k \in 1..(Len(stack) - 1) : k \in Depth /\ stack'[k] = stack[k]
  <2> DEFINE n == Len(stack) - 1
  <2>1. /\ n \in Nat /\ 1..n \subseteq Depth
        /\ \A k \in 1..n : stack[k] \in Activation
    BY <1>2, ElementOfSeq DEF Depth
  <2>2. /\ Rest \in Seq(Activation)
        /\ Len(Rest) = IF 1 <= n THEN n - 1 + 1 ELSE 0
        /\ \A k \in 1..(n - 1 + 1) : Rest[k] = stack[1 + k - 1]
    BY <2>1, SubSeqProperties DEF Rest
  <2>3. Len(Rest) = n /\ \A k \in 1..n : Rest[k] = stack[k]
    <3> HIDE DEF n
    <3> QED BY <2>1, <2>2
  <2> QED BY <1>1, <2>1, <2>2, <2>3
<1>4. Running'
  BY SMTT(30), <1>1, <1>3 DEF IInv, Running, RunsCode, Names, Depth, Kept
<1>5. Named'
  <2> SUFFICES ASSUME NEW k \in 1..(Len(stack) - 1),
                      k = 1 \/ ~stack'[k-1].jit
               PROVE  stack'[k].fun = stack'[k].asked
    BY <1>3 DEF Named, Depth
  <2>1. k # 1 => k - 1 \in 1..(Len(stack) - 1)
    BY <1>2
  <2> QED BY <1>3, <2>1 DEF IInv, Named
<1>6. Links'
  BY <1>1, <1>3 DEF IInv, Linked, Links, Linkable, Depth, Kept
<1> QED BY <1>1, <1>3, <1>4, <1>5, <1>6, KeptInv

LEMMA NextInv == IInv /\ [Next]_vars => IInv'
<1> SUFFICES ASSUME IInv, [Next]_vars PROVE IInv'
  OBVIOUS
<1>1. ASSUME NEW f \in Functions, NEW body \in Bodies, Defun(f, body)
      PROVE  IInv'
  BY <1>1, DefunInv
<1>2. ASSUME NEW f \in Functions, Compile(f) PROVE IInv'
  BY <1>2, CompileInv
<1>3. ASSUME NEW f \in Functions, NEW again, CallTop(f, again) PROVE IInv'
  BY <1>3, CallTopInv
<1>4. ASSUME NEW again, CallSlot(again) PROVE IInv'
  BY <1>4, CallSlotInv
<1>5. CASE CallDirect \/ CallClos2
  BY <1>5, CallInv
<1>6. CASE Skip
  BY <1>6, SkipInv
<1>7. CASE Return
  BY <1>7, ReturnInv
<1>8. CASE UNCHANGED vars
  <2>1. Kept /\ stack' = stack
    BY <1>8 DEF vars, Kept, IInv, TypeOK
  <2>2. Running' /\ Named' /\ Links'
    BY <2>1 DEF IInv, Running, Named, Depth, RunsCode, Names, Kept, Links, Linked, Linkable
  <2> QED BY <2>1, <2>2, KeptInv DEF IInv, TypeOK
<1> QED BY <1>1, <1>2, <1>3, <1>4, <1>5, <1>6, <1>7, <1>8 DEF Next

LEMMA Invariance == Spec => []IInv
<1> QED BY InitInv, NextInv, PTL DEF Spec

-----------------------------------------------------------------------------
(* The variables keep the values their comments say.                       *)
THEOREM CompilerTypes == Spec => []TypeOK
<1>1. IInv => TypeOK
  BY DEF IInv
<1> QED BY <1>1, Invariance, PTL

(* compile sets the flag before it generates, so a compiled function that  *)
(* calls itself never leaves the module, whatever else is compiled.        *)
THEOREM Recursion == Spec => []RecursesDirectly
<1>1. IInv => RecursesDirectly
  BY DEF IInv
<1> QED BY <1>1, Invariance, PTL

(* No order of defun and compile leaves code that can be reached without   *)
(* what it refers to: a direct call finds its function in the module, and  *)
(* a call through clos2 finds it set.                                      *)
THEOREM Linking == Spec => []Linked
<1>1. IInv => Linked
  BY DEF IInv
<1> QED BY <1>1, Invariance, PTL

(* With clos2 shared by any number of functions and compiled functions     *)
(* defined again, interpreted code still calls what it names, and what is  *)
(* interpreted is the latest definition.                                   *)
THEOREM Interpretation == Spec => []InterpreterExact
<1> QED BY Exactly, Invariance, PTL

-----------------------------------------------------------------------------
(* While clos2 is needed for one function only, no compiled function is    *)
(* defined again and compiled functions are called with values in which    *)
(* there are no calls, the two kinds of code make the same calls.          *)

(* Every call through clos2 means the function clos2 points to.            *)
Exclusive ==
  \A f \in Functions : module[f] # Undefined =>
    \A i \in 1..Len(module[f]) :
      module[f][i].way = "clos2" => module[f][i].name = clos2

(* The code in the module is that of the latest definition.                *)
UpToDate ==
  \A f \in Functions : module[f] # Undefined =>
    compiled[f] /\ Names(module[f]) = code[f]

Agreeing == Exclusive /\ UpToDate /\ RunsNamed /\ RunsLatest

LEMMA InitAgreeing == Init => Agreeing
<1> SUFFICES ASSUME Init PROVE Agreeing
  OBVIOUS
<1>1. Len(stack) = 0
  BY DEF Init
<1> QED
  BY <1>1 DEF Init, Agreeing, Exclusive, UpToDate, RunsNamed, RunsLatest

LEMMA DefunAgreeing ==
  ASSUME IInv, Agreeing, ~Redefines,
         NEW f \in Functions, NEW body \in Bodies, Defun(f, body)
  PROVE  Agreeing'
<1>1. /\ code' = [code EXCEPT ![f] = body] /\ ~compiled[f]
      /\ UNCHANGED <<compiled, module, clos2, stack>>
  BY DEF Defun
<1>2. Exclusive' /\ RunsNamed' /\ RunsLatest'
  BY <1>1 DEF Agreeing, Exclusive, RunsNamed, RunsLatest, Names
<1>3. UpToDate'
  <2> SUFFICES ASSUME NEW g \in Functions, module'[g] # Undefined
               PROVE  compiled'[g] /\ Names(module[g])' = code'[g]
    BY DEF UpToDate
  <2>1. compiled[g] /\ Names(module[g]) = code[g]
    BY <1>1 DEF Agreeing, UpToDate
  <2>2. code'[g] = code[g]
    BY <1>1, <2>1 DEF IInv, TypeOK
  <2> QED BY <1>1, <2>1, <2>2 DEF Names
<1> QED BY <1>2, <1>3 DEF Agreeing

LEMMA CompileAgreeing ==
  ASSUME IInv, Agreeing, ~Sharing, NEW f \in Functions, Compile(f)
  PROVE  Agreeing'
<1> DEFINE done  == Marked(f)
           sites == Generated(code[f], done)
<1>1. /\ code[f] # Undefined
      /\ Unshared(code[f], done)
      /\ compiled' = done
      /\ clos2' \in LastIndirect(code[f], done)
      /\ module' = [module EXCEPT ![f] = Entry(f, sites)]
      /\ UNCHANGED <<code, stack>>
  BY DEF Compile, Marked
<1>2. /\ code[f] \in Bodies /\ done \in [Functions -> BOOLEAN]
      /\ done[f] /\ \A g \in Functions : g # f => done[g] = compiled[g]
  BY <1>1 DEF IInv, TypeOK, Marked
<1>3. code[f] \in Seq(Functions)
  BY <1>2, CompilerAssumption
<1> HIDE DEF done
<1>4. /\ sites \in Seq(Site) /\ Len(sites) = Len(code[f])
      /\ \A i \in 1..Len(code[f]) :
           /\ sites[i].name = code[f][i] /\ code[f][i] \in Functions
           /\ sites[i].way = IF done[code[f][i]] THEN "direct" ELSE "clos2"
  BY <1>1, <1>2, GeneratedCode DEF IInv
<1> HIDE DEF sites
<1>5. Names(sites) = code[f]
  BY <1>3, <1>4, NamesOf
<1>6. /\ \A g \in Functions : module[g] # Undefined => module'[g] = module[g]
      /\ \A g \in Functions : g # f => module'[g] = module[g]
      /\ module[f] = Undefined => module'[f] = sites
  BY <1>1, <1>4 DEF IInv, TypeOK, Entry
<1>7. /\ clos2 # None => clos2' = clos2
      /\ \A i \in 1..Len(code[f]) : ~done[code[f][i]] => code[f][i] = clos2'
  <2> DEFINE I == Indirect(code[f], done)
  <2>1. \A i \in 1..Len(code[f]) : ~done[code[f][i]] => i \in I
    BY DEF Indirect
  <2>2. CASE I = {}
    BY <1>1, <2>1, <2>2 DEF LastIndirect
  <2>3. CASE I # {}
    <3>1. PICK p \in I : clos2' = code[f][p]
      BY <1>1, <2>3 DEF LastIndirect
    <3>2. \A i, j \in I : code[f][i] = code[f][j] /\ clos2 \in {None, code[f][i]}
      BY <1>1 DEF Unshared
    <3> HIDE DEF I
    <3> QED BY <2>1, <3>1, <3>2
  <2> QED BY <2>2, <2>3
<1>8. Exclusive'
  <2> SUFFICES ASSUME NEW g \in Functions, module'[g] # Undefined,
                      NEW i \in 1..Len(module'[g]), module'[g][i].way = "clos2"
               PROVE  module'[g][i].name = clos2'
    BY DEF Exclusive
  <2>1. CASE module[g] # Undefined
    <3>1. module'[g] = module[g] /\ module[g][i].name = clos2 /\ clos2 # None
      BY <1>6, <2>1 DEF IInv, Agreeing, Exclusive, Linked, Linkable
    <3> QED BY <1>7, <3>1
  <2>2. CASE module[g] = Undefined
    <3>1. g = f /\ module'[g] = sites /\ i \in 1..Len(code[f])
      BY <1>4, <1>6, <2>2
    <3>2. ~done[code[f][i]]
      BY <1>4, <3>1
    <3> QED BY <1>4, <1>7, <3>1, <3>2
  <2> QED BY <2>1, <2>2
<1>9. UpToDate'
  <2> SUFFICES ASSUME NEW g \in Functions, module'[g] # Undefined
               PROVE  compiled'[g] /\ Names(module'[g]) = code[g]
    BY <1>1 DEF UpToDate, Names
  <2>1. CASE module[g] # Undefined
    <3>1. compiled[g] /\ Names(module[g]) = code[g]
      BY <2>1 DEF Agreeing, UpToDate
    <3> QED BY <1>1, <1>2, <1>6, <2>1, <3>1
  <2>2. CASE module[g] = Undefined
    BY <1>1, <1>2, <1>5, <1>6, <2>2
  <2> QED BY <2>1, <2>2
<1>10. RunsNamed' /\ RunsLatest'
  BY <1>1 DEF Agreeing, RunsNamed, RunsLatest, Names
<1> QED BY <1>8, <1>9, <1>10 DEF Agreeing

(* A call that is started for f runs the latest definition of f.           *)
Starts(r, f) ==
  /\ r \in Activation /\ r.fun = f /\ r.asked = f /\ r.next = 1
  /\ Names(r.sites) = code[f] /\ r.latest = code[f] /\ code[f] # Undefined

LEMMA RunsStarts ==
  ASSUME IInv, Agreeing, ~Forms, NEW f \in Functions, NEW r \in Activation,
         RunsCode(r), r.fun = f, r.asked = f, r.next = 1, r.latest = code[f]
  PROVE  Starts(r, f)
<1>1. Names(r.sites) = code[f]
  BY DEF Agreeing, UpToDate, RunsCode
<1>2. code[f] # Undefined
  BY CompilerAssumption DEF Activation
<1> QED BY <1>1, <1>2 DEF Starts

LEMMA ThroughStarts ==
  ASSUME IInv, Agreeing, ~Forms, UNCHANGED <<module, clos2>>,
         NEW f \in Functions, slot[f] # Undefined
  PROVE  Starts(Through(f, f, <<>>), f)
<1>0. clos2' \in LastIndirect(<<>>, compiled)
  BY NoValues
<1>1. /\ Through(f, f, <<>>) \in Activation /\ RunsCode(Through(f, f, <<>>))
      /\ Through(f, f, <<>>).fun = f /\ Through(f, f, <<>>).asked = f
  BY <1>0, ThroughFresh
<1>2. Through(f, f, <<>>).next = 1 /\ Through(f, f, <<>>).latest = code[f]
  BY DEF Through
<1> QED BY <1>1, <1>2, RunsStarts

LEMMA DirectStarts ==
  ASSUME IInv, Agreeing, ~Forms, UNCHANGED <<module, clos2>>,
         NEW f \in Functions, module[f] # Undefined
  PROVE  Starts(Direct(f), f)
<1>1. /\ Direct(f) \in Activation /\ RunsCode(Direct(f))
      /\ Direct(f).fun = f /\ Direct(f).asked = f
  BY DirectFresh
<1>2. Direct(f).next = 1 /\ Direct(f).latest = code[f]
  BY DEF Direct
<1> QED BY <1>1, <1>2, RunsStarts

(* Each of the three ways to call runs the function that is named.         *)
LEMMA Callee ==
  ASSUME IInv, Agreeing, ~Forms, (\E again : CallSlot(again)) \/ CallDirect \/ CallClos2
  PROVE  /\ Kept /\ clos2' = clos2 /\ stack # <<>> /\ Top.next <= Len(Top.sites)
         /\ \E r : Starts(r, Here.name) /\ stack' = Append(Advanced, r)
<1>1. /\ stack # <<>> /\ Here.name \in Functions
      /\ Here.way = "direct" => Top.jit /\ module[Here.name] # Undefined
      /\ Here.way = "clos2"  => Top.jit /\ clos2 \in Functions
      /\ Top.next <= Len(Top.sites)
  BY HereSite DEF CallSlot, CallDirect, CallClos2, Calling
<1>2. ASSUME NEW again, CallSlot(again)
      PROVE  /\ Kept /\ clos2' = clos2
             /\ \E r : Starts(r, Here.name) /\ stack' = Append(Advanced, r)
  <2>1. again = <<>> /\ clos2' = clos2 /\ Kept
    BY <1>1, <1>2, ValuesFacts DEF CallSlot
  <2> QED BY <1>1, <1>2, <2>1, ThroughStarts DEF CallSlot
<1>3. CASE CallDirect
  <2>1. Kept /\ clos2' = clos2
    BY <1>3 DEF CallDirect, Kept, IInv, TypeOK
  <2> QED BY <1>1, <1>3, <2>1, DirectStarts DEF CallDirect
<1>4. CASE CallClos2
  <2>1. Here.name = clos2
    <3>1. Top \in Activation /\ RunsCode(Top)
      <4>1. stack \in Seq(Activation) /\ Len(stack) \in Depth
        BY <1>1, AdvancedFacts DEF IInv, TypeOK, Depth
      <4> QED BY <4>1 DEF IInv, Running, Top, Depth
    <3>2. Top.fun \in Functions /\ Top.next \in 1..Len(Top.sites)
      BY <1>1, <3>1 DEF Activation
    <3>3. module[Top.fun] # Undefined /\ Top.sites = module[Top.fun]
      BY <1>1, <1>4, <3>1 DEF CallClos2, RunsCode
    <3> QED BY <1>4, <3>2, <3>3 DEF Agreeing, Exclusive, Here, CallClos2
  <2>2. Kept /\ clos2' = clos2
    BY <1>4 DEF CallClos2, Kept, IInv, TypeOK
  <2> QED BY <1>1, <1>4, <2>1, <2>2, ThroughStarts DEF CallClos2
<1> QED BY <1>1, <1>2, <1>3, <1>4

-----------------------------------------------------------------------------
(* How the program sees the calls in progress.                             *)

Seen(r) == [fun |-> r.fun, body |-> Names(r.sites), next |-> r.next]
Call    == [fun : Functions, body : Seq(Functions), next : Nat \ {0}]

LEMMA NamesFacts ==
  ASSUME NEW sites \in Seq(Site)
  PROVE  /\ Names(sites) \in Seq(Functions) /\ Len(Names(sites)) = Len(sites)
         /\ \A i \in 1..Len(sites) : Names(sites)[i] = sites[i].name
<1>1. ASSUME NEW i \in 1..Len(sites) PROVE sites[i].name \in Functions
  <2>1. sites[i] \in Site
    BY ElementOfSeq
  <2> QED BY <2>1 DEF Site
<1>2. /\ Names(sites) \in [1..Len(sites) -> Functions]
      /\ \A i \in 1..Len(sites) : Names(sites)[i] = sites[i].name
  BY <1>1 DEF Names
<1> QED BY <1>2, SequenceOfLength

LEMMA ViewFacts ==
  ASSUME NEW s \in Seq(Activation)
  PROVE  /\ Viewed(s) \in Seq(Call) /\ Len(Viewed(s)) = Len(s)
         /\ \A k \in 1..Len(s) : Viewed(s)[k] = Seen(s[k])
<1>1. \A k \in 1..Len(s) : Viewed(s)[k] = Seen(s[k])
  BY DEF Viewed, Seen
<1>2. ASSUME NEW k \in 1..Len(s) PROVE Seen(s[k]) \in Call
  <2>1. s[k] \in Activation
    BY ElementOfSeq
  <2> QED BY <2>1, NamesFacts DEF Seen, Call, Activation
<1>3. Viewed(s) \in [1..Len(s) -> Call]
  BY <1>1, <1>2 DEF Viewed
<1> QED BY <1>1, <1>3, SequenceOfLength

LEMMA TopView ==
  ASSUME IInv, stack # <<>>
  PROVE  /\ Viewed(stack) # <<>> /\ Plain!Current = Seen(Top)
         /\ Top \in Activation /\ Len(stack) \in 1..Len(stack)
<1>1. stack \in Seq(Activation) /\ Len(stack) \in Nat \ {0}
  BY AdvancedFacts DEF IInv, TypeOK
<1>2. /\ Viewed(stack) \in Seq(Call) /\ Len(Viewed(stack)) = Len(stack)
      /\ Viewed(stack)[Len(stack)] = Seen(Top)
  BY <1>1, ViewFacts DEF Top
<1>3. Viewed(stack) # <<>>
  BY <1>1, <1>2
<1>4. Plain!Current = Seen(Top)
  BY <1>2 DEF Plain!Current
<1>5. Top \in Activation
  BY <1>1, ElementOfSeq DEF Top
<1> QED BY <1>1, <1>3, <1>4, <1>5

LEMMA AdvancedView ==
  ASSUME IInv, stack # <<>>
  PROVE  /\ Advanced \in Seq(Activation) /\ Len(Advanced) = Len(stack)
         /\ Viewed(Advanced) = Plain!Advanced
         /\ \A k \in Depth :
              /\ Advanced[k].fun = stack[k].fun
              /\ Advanced[k].asked = stack[k].asked
              /\ Names(Advanced[k].sites) = Names(stack[k].sites)
              /\ Advanced[k].latest = stack[k].latest
<1>1. /\ Advanced \in Seq(Activation) /\ Len(Advanced) = Len(stack)
      /\ Len(stack) \in Nat \ {0} /\ stack \in Seq(Activation)
  BY AdvancedFacts DEF IInv, TypeOK
<1>2. \A k \in Depth :
        /\ Advanced[k].fun = stack[k].fun
        /\ Advanced[k].asked = stack[k].asked
        /\ Names(Advanced[k].sites) = Names(stack[k].sites)
        /\ Advanced[k].latest = stack[k].latest
  BY AdvancedFacts DEF Names
<1>3. Viewed(Advanced) = Plain!Advanced
  <2> DEFINE r == [Seen(Top) EXCEPT !.next = @ + 1]
  <2>1. /\ Viewed(stack) \in Seq(Call) /\ Len(Viewed(stack)) = Len(stack)
        /\ \A k \in Depth : Viewed(stack)[k] = Seen(stack[k])
    BY <1>1, ViewFacts DEF Depth
  <2>2. Top \in Activation /\ Seen(Top) \in Call /\ r \in Call
    <3>1. Top \in Activation
      BY TopView
    <3>2. Seen(Top) \in Call
      BY <3>1, NamesFacts DEF Seen, Call, Activation
    <3> QED BY <3>1, <3>2 DEF Call
  <2>3. Plain!Advanced = [Viewed(stack) EXCEPT ![Len(stack)] = r]
    <3>1. Viewed(stack)[Len(stack)] = Seen(Top)
      BY <1>1, <2>1 DEF Depth, Top
    <3> QED BY <2>1, <3>1 DEF Plain!Advanced
  <2>4. Seen([Top EXCEPT !.next = @ + 1]) = r
    BY <2>2 DEF Seen, Activation
  <2>5. Advanced = [stack EXCEPT ![Len(stack)] = [Top EXCEPT !.next = @ + 1]]
    BY <1>1 DEF Advanced, Top
  <2> HIDE DEF r
  <2>6. /\ Plain!Advanced \in Seq(Call) /\ Len(Plain!Advanced) = Len(stack)
        /\ \A k \in Depth : Plain!Advanced[k] =
             IF k = Len(stack) THEN r ELSE Seen(stack[k])
    <3>1. Len(Viewed(stack)) \in 1..Len(Viewed(stack))
      BY <1>1, <2>1
    <3> QED BY <1>1, <2>1, <2>2, <2>3, <3>1, ExceptSeq DEF Depth
  <2>7. /\ Viewed(Advanced) \in Seq(Call) /\ Len(Viewed(Advanced)) = Len(stack)
        /\ \A k \in Depth : Viewed(Advanced)[k] = Seen(Advanced[k])
    BY <1>1, ViewFacts DEF Depth
  <2>8. \A k \in Depth : Seen(Advanced[k]) =
          IF k = Len(stack) THEN r ELSE Seen(stack[k])
    <3>1. \A k \in Depth : Advanced[k] =
            IF k = Len(stack) THEN [Top EXCEPT !.next = @ + 1] ELSE stack[k]
      BY <1>1, <2>5 DEF Depth
    <3> QED BY <2>4, <3>1
  <2> QED BY <2>6, <2>7, <2>8, SeqEqual DEF Depth
<1> QED BY <1>1, <1>2, <1>3

-----------------------------------------------------------------------------
(* Every step is a step that the program sees, or none.                    *)

LEMMA CallTopStep ==
  ASSUME IInv, Agreeing, ~Forms, NEW f \in Functions, NEW again, CallTop(f, again)
  PROVE  Agreeing' /\ Plain!Enter(f)
<1>0. again = <<>> /\ clos2' = clos2 /\ Kept
  BY ValuesFacts DEF CallTop
<1> DEFINE r == Through(f, f, <<>>)
<1>1. Starts(r, f)
  BY <1>0, ThroughStarts DEF CallTop
<1>2. Kept /\ clos2' = clos2 /\ stack = <<>> /\ stack' = <<r>>
  BY <1>0 DEF CallTop
<1> HIDE DEF r
<1>3. stack' \in Seq(Activation) /\ Len(stack') = 1 /\ stack'[1] = r
  BY <1>1, <1>2 DEF Starts
<1>4. Agreeing'
  <2>1. /\ r.fun = r.asked /\ Names(r.sites) = r.latest
        /\ \A k \in 1..Len(stack') : stack'[k] = r
    BY <1>1, <1>3 DEF Starts
  <2>2. RunsNamed'
    BY <2>1 DEF RunsNamed
  <2>3. RunsLatest'
    BY <2>1 DEF RunsLatest, Names
  <2>4. Exclusive' /\ UpToDate'
    BY <1>2 DEF Agreeing, Exclusive, UpToDate, Names, Kept
  <2> QED BY <2>2, <2>3, <2>4 DEF Agreeing
<1>5. Viewed(stack) = <<>>
  <2>1. <<>> \in Seq(Activation)
    OBVIOUS
  <2> QED BY <1>2, <2>1, ViewFacts, EmptySeq
<1>6. Viewed(stack)' = <<Plain!Started(f)>>
  <2>1. Seen(r) = Plain!Started(f)
    BY <1>1 DEF Starts, Seen, Plain!Started
  <2>2. /\ Viewed(stack') \in Seq(Call) /\ Len(Viewed(stack')) = 1
        /\ Viewed(stack')[1] = Seen(r)
    BY <1>3, ViewFacts
  <2> QED BY SMTT(30), <2>1, <2>2 DEF Viewed, Names
<1> QED BY <1>1, <1>2, <1>4, <1>5, <1>6 DEF Plain!Enter, Starts, Kept

LEMMA CallStep ==
  ASSUME IInv, Agreeing, ~Forms, (\E again : CallSlot(again)) \/ CallDirect \/ CallClos2
  PROVE  Agreeing' /\ Plain!Nested
<1>1. Kept /\ clos2' = clos2 /\ stack # <<>> /\ Top.next <= Len(Top.sites)
  BY Callee
<1>2. PICK r : Starts(r, Here.name) /\ stack' = Append(Advanced, r)
  BY Callee
<1>3. /\ Viewed(stack) # <<>> /\ Plain!Current = Seen(Top)
      /\ Top \in Activation /\ Len(stack) \in 1..Len(stack)
  BY <1>1, TopView
<1>4. /\ Advanced \in Seq(Activation) /\ Len(Advanced) = Len(stack)
      /\ Viewed(Advanced) = Plain!Advanced
      /\ \A k \in Depth :
           /\ Advanced[k].fun = stack[k].fun
           /\ Advanced[k].asked = stack[k].asked
           /\ Names(Advanced[k].sites) = Names(stack[k].sites)
           /\ Advanced[k].latest = stack[k].latest
  BY <1>1, AdvancedView
<1>5. /\ stack' \in Seq(Activation) /\ Len(stack') = Len(stack) + 1
      /\ stack'[Len(stack) + 1] = r
      /\ \A k \in Depth : stack'[k] = Advanced[k]
      /\ 1..Len(stack') = Depth \cup {Len(stack) + 1}
  BY <1>2, <1>3, <1>4, AppendProperties DEF Depth, Starts
<1>6. Agreeing'
  <2>1. RunsNamed' /\ RunsLatest'
    <3> SUFFICES ASSUME NEW k \in 1..Len(stack')
                 PROVE  /\ stack'[k].fun = stack'[k].asked
                        /\ Names(stack'[k].sites) = stack'[k].latest
      BY DEF RunsNamed, RunsLatest, Names
    <3>1. CASE k = Len(stack) + 1
      BY <1>2, <1>5, <3>1 DEF Starts
    <3>2. CASE k \in Depth
      BY <1>4, <1>5, <3>2 DEF Agreeing, RunsNamed, RunsLatest, Depth
    <3> QED BY <1>5, <3>1, <3>2
  <2> QED BY <1>1, <2>1 DEF Agreeing, Exclusive, UpToDate, Names, Kept
<1>7. /\ Plain!Pending
      /\ Plain!Current.body[Plain!Current.next] = Here.name
  <2>1. Top.sites \in Seq(Site) /\ Top.next \in 1..Len(Top.sites)
    BY <1>1, <1>3 DEF Activation
  <2> QED BY <1>3, <2>1, NamesFacts DEF Plain!Pending, Seen, Here
<1>8. Viewed(stack') = Append(Plain!Advanced, Plain!Started(Here.name))
  <2>1. Seen(r) = Plain!Started(Here.name) /\ Seen(r) \in Call
    <3>1. Seen(r) = Plain!Started(Here.name)
      BY <1>2 DEF Starts, Seen, Plain!Started
    <3> QED BY <1>2, <3>1, NamesFacts DEF Starts, Seen, Call, Activation
  <2>2. /\ Viewed(Advanced) \in Seq(Call) /\ Len(Viewed(Advanced)) = Len(stack)
        /\ \A k \in Depth : Viewed(Advanced)[k] = Seen(Advanced[k])
    BY <1>4, ViewFacts DEF Depth
  <2>3. /\ Viewed(stack') \in Seq(Call) /\ Len(Viewed(stack')) = Len(stack) + 1
        /\ \A k \in 1..Len(stack') : Viewed(stack')[k] = Seen(stack'[k])
    BY <1>5, ViewFacts
  <2> DEFINE after == Append(Viewed(Advanced), Seen(r))
  <2>4. /\ after \in Seq(Call) /\ Len(after) = Len(stack) + 1
        /\ after[Len(stack) + 1] = Seen(r)
        /\ \A k \in Depth : after[k] = Seen(Advanced[k])
    BY <2>1, <2>2, AppendProperties DEF Depth
  <2> HIDE DEF after
  <2>5. \A k \in 1..Len(stack') : Viewed(stack')[k] = after[k]
    BY <1>5, <2>3, <2>4
  <2>6. Viewed(stack') = after
    BY <1>5, <2>3, <2>4, <2>5, SeqEqual
  <2> QED BY <1>4, <2>1, <2>6 DEF after
<1>9. Viewed(stack)' = Viewed(stack')
  BY DEF Viewed, Names
<1>10. code[Here.name] # Undefined /\ code' = code
  BY <1>1, <1>2 DEF Starts, Kept
<1> QED BY <1>6, <1>7, <1>8, <1>9, <1>10 DEF Plain!Nested

LEMMA SkipStep ==
  ASSUME IInv, Agreeing, Skip
  PROVE  Agreeing' /\ Plain!Skip
<1>1. /\ Kept /\ clos2' = clos2 /\ stack # <<>> /\ Top.next <= Len(Top.sites)
      /\ stack' = Advanced
  BY DEF Skip, Kept, IInv, TypeOK
<1>2. /\ Len(stack') = Len(stack) /\ Viewed(stack') = Plain!Advanced
      /\ \A k \in Depth :
           /\ stack'[k].fun = stack[k].fun /\ stack'[k].asked = stack[k].asked
           /\ Names(stack'[k].sites) = Names(stack[k].sites)
           /\ stack'[k].latest = stack[k].latest
  BY <1>1, AdvancedView
<1>3. Agreeing'
  <2>1. RunsNamed' /\ RunsLatest'
    BY <1>2 DEF Agreeing, RunsNamed, RunsLatest, Names, Depth
  <2> QED BY <1>1, <2>1 DEF Agreeing, Exclusive, UpToDate, Names, Kept
<1>4. Plain!Pending
  <2>1. /\ Viewed(stack) # <<>> /\ Plain!Current = Seen(Top)
        /\ Top \in Activation
    BY <1>1, TopView
  <2>2. Top.sites \in Seq(Site)
    BY <2>1 DEF Activation
  <2> QED BY <1>1, <2>1, <2>2, NamesFacts DEF Plain!Pending, Seen
<1>5. Viewed(stack)' = Viewed(stack')
  BY DEF Viewed, Names
<1> QED BY <1>1, <1>2, <1>3, <1>4, <1>5 DEF Plain!Skip, Kept

LEMMA ReturnStep ==
  ASSUME IInv, Agreeing, Return
  PROVE  Agreeing' /\ Plain!Leave
<1>1. /\ Kept /\ clos2' = clos2 /\ stack # <<>> /\ Top.next > Len(Top.sites)
      /\ stack' = Rest
  BY DEF Return, Kept, IInv, TypeOK
<1> DEFINE n == Len(stack) - 1
<1>2. /\ stack \in Seq(Activation) /\ n \in Nat /\ 1..n \subseteq Depth
      /\ Len(stack) \in Nat
  BY <1>1, AdvancedFacts DEF IInv, TypeOK, Depth
<1> HIDE DEF n
<1>3. /\ stack' \in Seq(Activation) /\ Len(stack') = n
      /\ \A k \in 1..n : stack'[k] = stack[k]
  <2>1. \A k \in 1..n : stack[k] \in Activation
    BY <1>2, ElementOfSeq DEF Depth
  <2>2. Rest = SubSeq(stack, 1, n)
    BY DEF Rest, n
  <2>3. /\ Rest \in Seq(Activation)
        /\ Len(Rest) = IF 1 <= n THEN n - 1 + 1 ELSE 0
        /\ \A k \in 1..(n - 1 + 1) : Rest[k] = stack[1 + k - 1]
    BY <1>2, <2>1, <2>2, SubSeqProperties
  <2> QED BY <1>1, <1>2, <2>3
<1>4. Agreeing'
  <2>1. RunsNamed' /\ RunsLatest'
    BY <1>2, <1>3 DEF Agreeing, RunsNamed, RunsLatest, Names, Depth
  <2> QED BY <1>1, <2>1 DEF Agreeing, Exclusive, UpToDate, Names, Kept
<1>5. /\ Viewed(stack) # <<>> /\ Plain!Current = Seen(Top)
      /\ Top \in Activation
  BY <1>1, TopView
<1>6. Plain!Current.next > Len(Plain!Current.body)
  <2>1. Top.sites \in Seq(Site)
    BY <1>5 DEF Activation
  <2> QED BY <1>1, <1>5, <2>1, NamesFacts DEF Seen
<1>7. Viewed(stack') = SubSeq(Viewed(stack), 1, Len(Viewed(stack)) - 1)
  <2>1. /\ Viewed(stack) \in Seq(Call) /\ Len(Viewed(stack)) = Len(stack)
        /\ \A k \in Depth : Viewed(stack)[k] = Seen(stack[k])
    BY <1>2, ViewFacts DEF Depth
  <2>2. /\ Viewed(stack') \in Seq(Call) /\ Len(Viewed(stack')) = n
        /\ \A k \in 1..n : Viewed(stack')[k] = Seen(stack[k])
    BY <1>3, ViewFacts
  <2> DEFINE left == SubSeq(Viewed(stack), 1, n)
  <2>3. \A k \in 1..n : Viewed(stack)[k] \in Call
    BY <1>2, <2>1, ElementOfSeq DEF Depth
  <2>4. /\ left \in Seq(Call)
        /\ Len(left) = IF 1 <= n THEN n - 1 + 1 ELSE 0
        /\ \A k \in 1..(n - 1 + 1) : left[k] = Viewed(stack)[1 + k - 1]
    BY <1>2, <2>3, SubSeqProperties
  <2> HIDE DEF left
  <2>5. Len(left) = n /\ \A k \in 1..n : left[k] = Seen(stack[k])
    BY <1>2, <2>1, <2>4
  <2>6. Viewed(stack') = left
    BY <2>2, <2>4, <2>5, SeqEqual
  <2> QED BY <2>1, <2>6 DEF left, n
<1>8. Viewed(stack)' = Viewed(stack')
  BY DEF Viewed, Names
<1> QED BY <1>1, <1>4, <1>5, <1>6, <1>7, <1>8 DEF Plain!Leave, Kept

LEMMA Step ==
  ASSUME IInv, Agreeing, ~Sharing, ~Redefines, ~Forms, [Next]_vars
  PROVE  Agreeing' /\ [Plain!Next]_<<code, Viewed(stack)>>
<1>1. ASSUME NEW f \in Functions, NEW body \in Bodies, Defun(f, body)
      PROVE  Agreeing' /\ Plain!Define(f, body)
  <2>1. Agreeing'
    BY <1>1, DefunAgreeing
  <2>2. code' = [code EXCEPT ![f] = body] /\ Viewed(stack)' = Viewed(stack)
    BY <1>1 DEF Defun, Viewed, Names
  <2> QED BY <2>1, <2>2 DEF Plain!Define
<1>2. ASSUME NEW f \in Functions, Compile(f)
      PROVE  Agreeing' /\ UNCHANGED <<code, Viewed(stack)>>
  <2>1. Agreeing'
    BY <1>2, CompileAgreeing
  <2>2. code' = code /\ Viewed(stack)' = Viewed(stack)
    BY <1>2 DEF Compile, Viewed, Names
  <2> QED BY <2>1, <2>2
<1>3. ASSUME NEW f \in Functions, NEW again, CallTop(f, again)
      PROVE  Agreeing' /\ Plain!Enter(f)
  BY <1>3, CallTopStep
<1>4. CASE (\E again : CallSlot(again)) \/ CallDirect \/ CallClos2
  BY <1>4, CallStep DEF Plain!Next
<1>5. CASE Skip
  BY <1>5, SkipStep DEF Plain!Next
<1>6. CASE Return
  BY <1>6, ReturnStep DEF Plain!Next
<1>7. CASE UNCHANGED vars
  BY <1>7 DEF vars, Agreeing, Exclusive, UpToDate, RunsNamed, RunsLatest,
              Names, Viewed
<1> QED BY <1>1, <1>2, <1>3, <1>4, <1>5, <1>6, <1>7 DEF Next, Plain!Next

(* If clos2 is never needed for a second function, no compiled function is *)
(* defined again and interpreted code calls compiled functions with values *)
(* in which there are no calls, a program cannot tell compiled from        *)
(* interpreted functions by the calls that are made.                       *)
THEOREM Transparency == ~Sharing /\ ~Redefines /\ ~Forms => (Spec => CallsSpec)
<1> SUFFICES ASSUME ~Sharing, ~Redefines, ~Forms PROVE Spec => CallsSpec
  OBVIOUS
<1>1. Init => Plain!Init
  <2> SUFFICES ASSUME Init PROVE Viewed(stack) = <<>>
    BY DEF Init, Plain!Init
  <2>1. stack = <<>> /\ <<>> \in Seq(Activation)
    BY DEF Init
  <2> QED BY <2>1, ViewFacts, EmptySeq
<1>2. IInv /\ Agreeing /\ [Next]_vars
        => Agreeing' /\ [Plain!Next]_<<code, Viewed(stack)>>
  BY Step
<1> QED BY <1>1, <1>2, InitAgreeing, Invariance, PTL
        DEF Spec, CallsSpec, Plain!Spec
=============================================================================
