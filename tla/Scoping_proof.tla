--------------------------- MODULE Scoping_proof ---------------------------
(***************************************************************************)
(* What holds of Scoping for every value of its constants, in particular   *)
(* for every depth of nesting and any number of closures and tables.       *)
(***************************************************************************)
EXTENDS Scoping, Positions, SequenceTheorems, TLAPS

(***************************************************************************)
(* Lookups in a chain of tables, for chains of any length.                 *)
(***************************************************************************)

(* What a lookup returns: the table at some position that holds the name   *)
(* and behind which no table holds it, or None when no table holds it.     *)
LEMMA FindNearest ==
  ASSUME NEW S, NEW chain \in Seq(S), NEW tbl, NEW n
  PROVE  \/ /\ Holders(chain, tbl, n) = {} /\ Find(chain, tbl, n) = None
         \/ \E i \in Holders(chain, tbl, n) :
              /\ \A j \in Holders(chain, tbl, n) : j <= i
              /\ Find(chain, tbl, n) = chain[i]
<1> DEFINE hits == Holders(chain, tbl, n)
<1>1. CASE hits = {}
  BY <1>1 DEF Find
<1>2. CASE hits # {}
  <2>1. \E i \in hits : \A j \in hits : j <= i
    <3>1. Len(chain) \in Nat /\ hits \subseteq 1..Len(chain)
      BY DEF Holders
    <3> HIDE DEF hits
    <3> QED BY <1>2, <3>1, LastPosition
  <2> QED BY <1>2, <2>1 DEF Find
<1> QED BY <1>1, <1>2

(* A table that a lookup finds is in the chain and holds the name.         *)
LEMMA FindFound ==
  ASSUME NEW S, NEW chain \in Seq(S), NEW tbl, NEW n,
         Find(chain, tbl, n) # None
  PROVE  /\ Find(chain, tbl, n) \in S
         /\ \E i \in 1..Len(chain) : chain[i] = Find(chain, tbl, n)
         /\ tbl[Find(chain, tbl, n)][n] # Unbound
<1>1. PICK i \in Holders(chain, tbl, n) : Find(chain, tbl, n) = chain[i]
  BY FindNearest
<1> QED BY <1>1, ElementOfSeq DEF Holders

(* A chain that ends with another one finds what the other one finds. *)
LEMMA FindSuffix ==
  ASSUME NEW S, NEW a \in Seq(S), NEW b \in Seq(S), NEW tbl, NEW n,
         Find(b, tbl, n) # None
  PROVE  Find(a \o b, tbl, n) = Find(b, tbl, n)
<1> DEFINE ab == a \o b
<1>1. /\ ab \in Seq(S) /\ Len(ab) = Len(a) + Len(b)
      /\ Len(a) \in Nat /\ Len(b) \in Nat
      /\ \A i \in 1..Len(b) : ab[Len(a) + i] = b[i]
  BY ConcatProperties
<1> HIDE DEF ab
<1>2. PICK i \in Holders(b, tbl, n) :
        /\ \A j \in Holders(b, tbl, n) : j <= i
        /\ Find(b, tbl, n) = b[i]
  BY FindNearest
<1>3. i \in 1..Len(b) /\ Len(a) + i \in Holders(ab, tbl, n) /\ ab[Len(a) + i] = b[i]
  BY <1>1, <1>2 DEF Holders
<1>4. PICK k \in Holders(ab, tbl, n) :
        /\ \A j \in Holders(ab, tbl, n) : j <= k
        /\ Find(ab, tbl, n) = ab[k]
  <2>1. ab \in Seq(S) /\ Holders(ab, tbl, n) # {}
    BY <1>1, <1>3
  <2> QED BY ONLY <2>1, FindNearest
<1>5. k = Len(a) + i
  <2>1. k \in Nat /\ k >= Len(a) + i /\ k \in 1..Len(ab) /\ tbl[ab[k]][n] # Unbound
    BY <1>1, <1>3, <1>4 DEF Holders
  <2>2. PICK m \in 1..Len(b) : k = Len(a) + m
    <3>1. k - Len(a) \in 1..Len(b) /\ k = Len(a) + (k - Len(a))
      BY <1>1, <1>3, <2>1
    <3> QED BY ONLY <3>1
  <2>3. m \in Holders(b, tbl, n)
    BY <1>1, <2>1, <2>2 DEF Holders
  <2>4. m <= i
    BY <1>2, <2>3
  <2>5. m \in Nat /\ i \in Nat /\ Len(a) \in Nat /\ k >= Len(a) + i
    BY <1>1, <1>3, <2>1, <2>2
  <2> QED BY ONLY <2>2, <2>4, <2>5
<1> QED BY <1>1, <1>2, <1>3, <1>4, <1>5 DEF ab

(***************************************************************************)
(* The forms being evaluated and what each of them has bound.              *)
(***************************************************************************)
Chains == Seq(Frames \cup {Main})
Depth  == 1..Len(stack)

(* What was visible, and in which environment, where form k was entered.   *)
Outer(k)   == IF k = 1 THEN Main ELSE stack[k-1].env
Visible(k) == IF k = 1 THEN <<Main>> ELSE stack[k-1].chain

(* The two parts of what form k has pushed on its environment. *)
Own(r) ==
  IF r.kind \in {"let*", "macro"} \/ (r.kind \in {"let", "call"} /\ r.body)
  THEN <<r.frame>> ELSE <<>>
Calling(k) ==
  IF stack[k].caller = stack[k].env THEN <<>>
  ELSE IF stack[k].caller = None THEN <<stack[k].empty>> ELSE Visible(k)

(* A form is evaluated in the environment of the form around it, or is a   *)
(* call from compiled code, which has a second table and, of a function,   *)
(* binds all parameters at once.                                           *)
CallerIs(r, e) ==
  IF r.caller = None
  THEN r.empty # None /\ (r.kind = "macro" \/ (r.kind = "call" /\ r.body))
  ELSE r.empty = None /\ r.caller = e

FormOK(k) ==
  LET r == stack[k] IN
  /\ CallerIs(r, Outer(k))
  /\ r.kind \notin {"call", "macro"} => r.env = r.caller
  /\ r.env \in made \cup {Main}
  /\ r.kind # "setq" => r.frame \in live
  /\ r.kind = "setq" => r.frame = None
  /\ Locals(r) \subseteq live
  /\ r.chain = (r.before \o Calling(k)) \o Own(r)

Nesting == \A k \in Depth : FormOK(k)

(* The Envs of the set G keep a global table of each call, unless they are *)
(* stale: none in this module, those of macros in Lookup_proof.            *)
Grown(old, new) ==
  /\ Len(new) >= Len(old)
  /\ \A i \in 1..Len(new) : new[i] = IF i <= Len(old) THEN old[i] ELSE Main

AsBuilt(G, e, chain) ==
  IF e \in G THEN e \notin stale => Grown(base[e], chain) ELSE chain = base[e]

(* An Env that evaluates nothing is as it was built; one that evaluates    *)
(* something is as its latest form left it; the first form found it as it  *)
(* was built; each other form found it as the form before had left it.     *)
Idle(G) ==
  /\ base[Main] = <<Main>>
  /\ \A e \in Envs : ~Busy(e) => AsBuilt(G, e, envs[e])

Latest ==
  \A k \in Depth :
    (\A j \in Depth : j > k => stack[j].env # stack[k].env)
      => envs[stack[k].env] = stack[k].chain

First(G) ==
  \A k \in Depth :
    (\A j \in Depth : j < k => stack[j].env # stack[k].env)
      => AsBuilt(G, stack[k].env, stack[k].before)

Later ==
  \A j, k \in Depth :
    /\ j < k /\ stack[j].env = stack[k].env
    /\ \A i \in Depth : j < i /\ i < k => stack[i].env # stack[k].env
    => stack[k].before = stack[j].chain

(* No two forms have a table at the same address. *)
Distinct ==
  \A j, k \in Depth :
    j # k => Locals(stack[j]) \cap Locals(stack[k]) = {}

Shape(G) == Nesting /\ Idle(G) /\ Latest /\ First(G) /\ Later /\ Distinct
IInv(G)  == TypeOK /\ Shape(G)

-----------------------------------------------------------------------------
(* The environment of the running form is as that form left it. *)
LEMMA RunningView ==
  ASSUME NEW G \in SUBSET Closures, IInv(G)
  PROVE  envs[Running] = Visible(Len(stack) + 1)
<1>1. CASE stack = <<>>
  BY <1>1, ScopingAssumption DEF IInv, Shape, Idle, AsBuilt, Busy, Running, Visible, Envs
<1>2. CASE stack # <<>>
  <2>1. Len(stack) \in Depth /\ Len(stack) \in Nat
    BY <1>2, EmptySeq DEF IInv, TypeOK, Depth
  <2>2. \A j \in Depth : ~(j > Len(stack))
    BY <2>1 DEF Depth
  <2> QED BY <1>2, <2>1, <2>2 DEF IInv, Shape, Latest, Running, Top, Visible
<1> QED BY <1>1, <1>2

LEMMA StackFacts ==
  ASSUME NEW G \in SUBSET Closures, IInv(G), stack # <<>>
  PROVE  /\ Len(stack) \in Nat /\ Len(stack) \in Depth /\ Top \in Activation
         /\ Rest \in Seq(Activation) /\ Len(Rest) = Len(stack) - 1
         /\ \A k \in 1..(Len(stack) - 1) : Rest[k] = stack[k]
<1>1. stack \in Seq(Activation) /\ Len(stack) \in Nat /\ Len(stack) > 0
  BY EmptySeq DEF IInv, TypeOK
<1>2. PICK m \in Nat : m = Len(stack) - 1
  BY <1>1
<1>3. \A i \in 1..m : stack[i] \in Activation
  BY <1>1, <1>2, ElementOfSeq
<1>4. Rest = SubSeq(stack, 1, m)
  BY <1>2 DEF Rest
<1>5. /\ Rest \in Seq(Activation)
      /\ Len(Rest) = IF 1 <= m THEN m - 1 + 1 ELSE 0
      /\ \A k \in 1..(m - 1 + 1) : Rest[k] = stack[1 + k - 1]
  BY ONLY <1>3, <1>4, m \in Nat, SubSeqProperties
<1>6. Len(Rest) = m
  BY ONLY <1>5, m \in Nat
<1>7. ASSUME NEW k \in 1..m PROVE Rest[k] = stack[k]
  BY ONLY <1>5, <1>7, m \in Nat
<1>8. Top \in Activation
  BY <1>1, ElementOfSeq DEF Top
<1> QED BY <1>1, <1>2, <1>5, <1>6, <1>7, <1>8 DEF Depth

LEMMA EmptyStack ==
  ASSUME NEW G \in SUBSET Closures, IInv(G)
  PROVE  Len(stack) \in Nat /\ (stack = <<>> <=> Len(stack) = 0)
BY EmptySeq DEF IInv, TypeOK

(* The environments that exist get the chains `now'; others may come into  *)
(* being, as they are built.                                               *)
Around(now) ==
  /\ made \subseteq made' /\ stale \subseteq stale'
  /\ \A e \in Envs : \/ envs'[e] = now[e] /\ base'[e] = base[e]
                     \/ e \notin made \cup {Main} /\ envs'[e] = base'[e]

(* An environment that a step leaves alone, or that comes into being, is   *)
(* as it was built.                                                        *)
LEMMA StillBuilt ==
  ASSUME NEW G, NEW e \in Envs, AsBuilt(G, e, envs[e]), TypeOK',
         \/ envs'[e] = envs[e] /\ base'[e] = base[e] /\ (e \in stale => e \in stale')
         \/ envs'[e] = base'[e]
  PROVE  AsBuilt(G, e, envs[e])'
<1>1. CASE envs'[e] = envs[e] /\ base'[e] = base[e] /\ (e \in stale => e \in stale')
  BY <1>1 DEF AsBuilt
<1>2. CASE envs'[e] = base'[e]
  BY <1>2 DEF AsBuilt, Grown, TypeOK
<1> QED BY <1>1, <1>2

(* The environments that forms are evaluated in exist. *)
LEMMA UsedMade ==
  ASSUME NEW G \in SUBSET Closures, IInv(G)
  PROVE  /\ made \cup {Main} \subseteq Envs
         /\ \A k \in Depth : stack[k].env \in made \cup {Main}
BY DEF IInv, TypeOK, Shape, Nesting, FormOK, Envs

(* What a form pushes on its environment for its caller. *)
Pushing(r) ==
  IF r.caller = r.env THEN <<>>
  ELSE IF r.caller = None THEN <<r.empty>> ELSE envs[Running]

(* A step that enters a form: its record r goes on the stack. *)
Entering(r) ==
  /\ stack' = Append(stack, r)
  /\ live' = live \cup Locals(r) /\ Locals(r) \cap live = {}
  /\ r \in Activation
  /\ CallerIs(r, Running)
  /\ r.before = envs[r.env]
  /\ r.kind \notin {"call", "macro"} => r.env = r.caller
  /\ r.env \in made \cup {Main}
  /\ r.kind # "setq" => r.frame \in live'
  /\ r.kind = "setq" => r.frame = None
  /\ r.chain = (r.before \o Pushing(r)) \o Own(r)

(* It changes nothing but the chain of the form's environment. *)
Entered(r) ==
  /\ Entering(r)
  /\ envs' = [envs EXCEPT ![r.env] = r.chain]
  /\ made' = made /\ base' = base /\ stale' = stale

LEMMA EnteringStep ==
  ASSUME NEW G \in SUBSET Closures, IInv(G), TypeOK',
         NEW r, Entering(r), Around([envs EXCEPT ![r.env] = r.chain])
  PROVE  Shape(G)'
<1>n. PICK n \in Nat : n = Len(stack)
  BY EmptyStack
<1>1. /\ stack \in Seq(Activation) /\ n \in Nat /\ n = Len(stack)
      /\ Len(stack') = n + 1 /\ stack'[n+1] = r
      /\ \A k \in 1..n : stack'[k] = stack[k]
      /\ Depth = 1..n /\ Depth' = 1..(n+1)
  BY <1>n DEF IInv, TypeOK, Entering, Depth
<1>2. /\ r.env \in made \cup {Main} /\ r.env \in Envs
      /\ stale \subseteq stale'
      /\ \A e \in made \cup {Main} :
           /\ e \in made' \cup {Main} /\ base'[e] = base[e]
           /\ envs'[e] = IF e = r.env THEN r.chain ELSE envs[e]
      /\ \A e \in Envs \ {r.env} : \/ envs'[e] = envs[e] /\ base'[e] = base[e]
                                  \/ envs'[e] = base'[e]
      /\ \A k \in Depth : stack[k].env \in made \cup {Main}
  BY ZenonT(30), UsedMade DEF Entering, Around, Activation, IInv, TypeOK
<1>3. /\ Running = Outer(n+1)' /\ envs[Running] = Visible(n+1)'
      /\ \A k \in 1..n : Outer(k)' = Outer(k) /\ Visible(k)' = Visible(k)
  <2>1. Visible(n+1)' = Visible(n+1) /\ Outer(n+1)' = Running
    <3>1. CASE n = 0
      BY <1>n, <3>1, EmptyStack DEF Visible, Outer, Running
    <3>2. CASE n # 0
      <4>1. n + 1 # 1 /\ n + 1 - 1 = n /\ stack # <<>> /\ n \in 1..n
        BY <1>n, <3>2, EmptyStack
      <4>2. stack'[n] = stack[n]
        BY <1>1, <4>1
      <4> QED BY <1>n, <4>1, <4>2 DEF Visible, Outer, Running, Top
    <3> QED BY <3>1, <3>2
  <2>2. \A k \in 1..n : Outer(k)' = Outer(k) /\ Visible(k)' = Visible(k)
    BY <1>1 DEF Outer, Visible
  <2> QED BY <1>n, <2>1, <2>2, RunningView
<1>4. Nesting'
  <2>1. ASSUME NEW k \in 1..n PROVE FormOK(k)'
    <3>1. FormOK(k) /\ k \in Depth /\ stack'[k] = stack[k]
      BY <1>1 DEF IInv, Shape, Nesting
    <3>2. Calling(k)' = Calling(k)
      BY <3>1, <1>3 DEF Calling
    <3> QED BY <3>1, <3>2, <1>2, <1>3 DEF FormOK, Entering, CallerIs, Locals
  <2>2. FormOK(n+1)'
    <3>1. stack'[n+1] = r /\ Running = Outer(n+1)' /\ envs[Running] = Visible(n+1)'
      BY <1>1, <1>3
    <3>2. Calling(n+1)' = Pushing(r)
      BY <3>1 DEF Calling, Pushing
    <3> QED BY <3>1, <3>2, <1>2 DEF FormOK, Own, Entering, CallerIs, Locals
  <2> QED BY <2>1, <2>2, <1>1 DEF Nesting
<1>5. Idle(G)'
  <2>1. \A e \in Envs : ~Busy(e)' => ~Busy(e) /\ e # r.env
    BY <1>1 DEF Busy
  <2>2. ASSUME NEW e \in Envs, ~Busy(e)' PROVE AsBuilt(G, e, envs[e])'
    BY <2>1, <2>2, <1>2, StillBuilt DEF Idle, IInv, Shape
  <2>3. base'[Main] = <<Main>>
    BY <1>2 DEF Idle, IInv, Shape
  <2> QED BY <2>2, <2>3 DEF Idle
<1>6. Latest'
  BY <1>1, <1>2 DEF Latest, IInv, Shape
<1>7. First(G)'
  <2>1. ASSUME \A j \in 1..n : stack[j].env # r.env PROVE AsBuilt(G, r.env, r.before)
    BY <2>1, <1>1, <1>2 DEF IInv, Shape, Idle, Busy, Entering
  <2> SUFFICES ASSUME NEW k \in 1..(n+1), \A j \in 1..(n+1) : j < k => stack'[j].env # stack'[k].env
               PROVE  AsBuilt(G, stack[k].env, stack[k].before)'
    BY <1>1 DEF First
  <2>2. CASE k = n + 1
    <3>1. AsBuilt(G, r.env, r.before)
      BY <2>1, <2>2, <1>1
    <3> QED BY <3>1, <2>2, <1>1, <1>2 DEF AsBuilt
  <2>3. CASE k # n + 1
    <3>1. k \in Depth /\ stack'[k] = stack[k]
      BY <2>3, <1>1
    <3>2. AsBuilt(G, stack[k].env, stack[k].before)
      BY <3>1, <1>1 DEF IInv, Shape, First
    <3> QED BY <3>1, <3>2, <1>2 DEF AsBuilt
  <2> QED BY <2>2, <2>3
<1>8. Later'
  <2>d. Depth' = 1..(n+1)
    BY <1>1
  <2> SUFFICES ASSUME NEW j \in 1..(n+1), NEW k \in 1..(n+1), j < k,
                      stack'[j].env = stack'[k].env,
                      \A i \in 1..(n+1) : j < i /\ i < k => stack'[i].env # stack'[k].env
               PROVE  stack'[k].before = stack'[j].chain
    BY <2>d, Zenon DEF Later
  <2>1. CASE k \in 1..n
    <3>1. /\ j \in Depth /\ k \in Depth
          /\ stack'[j] = stack[j] /\ stack'[k] = stack[k]
      BY <2>1, <1>1
    <3>2. \A i \in Depth : j < i /\ i < k => stack[i].env # stack[k].env
      BY <3>1, <1>1
    <3> QED BY <3>1, <3>2 DEF IInv, Shape, Later
  <2>2. CASE k = n + 1
    <3>1. /\ j \in Depth /\ stack'[j] = stack[j] /\ stack'[k] = r
          /\ stack[j].env = r.env
      BY <2>2, <1>1
    <3>2. ASSUME NEW i \in Depth, i > j PROVE stack[i].env # stack[j].env
      <4>1. i \in 1..(n+1) /\ j < i /\ i < k /\ stack'[i] = stack[i]
        BY <2>2, <3>1, <3>2, <1>1
      <4> QED BY <4>1, <3>1
    <3>3. envs[stack[j].env] = stack[j].chain
      BY <3>1, <3>2 DEF IInv, Shape, Latest
    <3> QED BY <3>1, <3>3 DEF Entering
  <2> QED BY <2>1, <2>2
<1>9. Distinct'
  <2>1. ASSUME NEW k \in 1..n PROVE Locals(stack[k]) \cap Locals(r) = {}
    BY <1>1 DEF IInv, Shape, Nesting, FormOK, Entering
  <2>2. ASSUME NEW j \in 1..(n+1), NEW k \in 1..(n+1), j # k
        PROVE  Locals(stack'[j]) \cap Locals(stack'[k]) = {}
    <3>1. CASE j \in 1..n /\ k \in 1..n
      <4>1. stack'[j] = stack[j] /\ stack'[k] = stack[k] /\ j \in Depth /\ k \in Depth
        BY <3>1, <1>1
      <4>2. Locals(stack[j]) \cap Locals(stack[k]) = {}
        BY <2>2, <4>1 DEF IInv, Shape, Distinct
      <4> QED BY <4>1, <4>2
    <3>2. CASE j \in 1..n /\ k = n + 1
      BY <3>2, <2>1, <1>1
    <3>3. CASE k \in 1..n /\ j = n + 1
      <4>1. stack'[k] = stack[k] /\ stack'[j] = r /\ Locals(stack[k]) \cap Locals(r) = {}
        BY <3>3, <2>1, <1>1
      <4> QED BY <4>1
    <3> QED BY <2>2, <3>1, <3>2, <3>3
  <2> QED BY <1>1, <2>2 DEF Distinct, Locals
<1> QED BY <1>4, <1>5, <1>6, <1>7, <1>8, <1>9 DEF Shape

(* A step that leaves the innermost form, with a chain left for its        *)
(* environment.                                                            *)
Leaving(left) ==
  /\ stack # <<>> /\ stack' = Rest
  /\ envs' = [envs EXCEPT ![Top.env] = left]
  /\ made' = made /\ base' = base /\ stale \subseteq stale'
  /\ live' = live \ Locals(Top)

(* It undoes what the form pushed. *)
Left == Leaving(Top.before)

(* The only form of an environment in G may leave one table: the global    *)
(* one, unless the environment is stale from now on.                       *)
Leftover(G, left) ==
  \/ left = Top.before
  \/ /\ Top.env \in G
     /\ \E t \in Frames \cup {Main} :
          left = Append(Top.before, t) /\ (t = Main \/ Top.env \in stale')
     /\ \A k \in Depth : k < Len(stack) => stack[k].env # Top.env

LEMMA GrownMore ==
  ASSUME NEW old \in Chains, NEW new \in Chains, Grown(old, new)
  PROVE  Grown(old, Append(new, Main))
<1>1. /\ Len(Append(new, Main)) = Len(new) + 1 /\ Len(new) \in Nat /\ Len(old) \in Nat
      /\ \A i \in 1..Len(new) : Append(new, Main)[i] = new[i]
      /\ Append(new, Main)[Len(new) + 1] = Main
  BY DEF Chains
<1> DEFINE s == Append(new, Main)
<1> HIDE DEF s
<1> QED BY <1>1 DEF Grown, s

LEMMA LeavingStep ==
  ASSUME NEW G \in SUBSET Closures, IInv(G), NEW left, Leaving(left), Leftover(G, left)
  PROVE  Shape(G)'
<1>n. PICK n \in Nat : n = Len(stack)
  BY EmptyStack
<1>1. /\ n = Len(stack) /\ n > 0 /\ Len(stack') = n - 1 /\ stack[n] = Top
      /\ \A k \in 1..(n-1) : stack'[k] = stack[k]
      /\ Depth = 1..n /\ Depth' = 1..(n-1)
  BY <1>n, StackFacts DEF Depth, Top, Leaving
<1>2. Top.env \in Envs /\ DOMAIN envs = Envs
  BY StackFacts DEF Activation, IInv, TypeOK, Leaving
<1>3. \A k \in 1..(n-1) : Outer(k)' = Outer(k) /\ Visible(k)' = Visible(k)
  BY <1>1 DEF Outer, Visible
<1>4. Nesting'
  <2>1. ASSUME NEW k \in 1..(n-1) PROVE FormOK(k)'
    <3>1. FormOK(k)
      BY <1>1 DEF IInv, Shape, Nesting
    <3>2. stack[k].frame \in live => stack[k].frame \in Locals(stack[k])
      BY ScopingAssumption DEF IInv, TypeOK, Locals
    <3>3. Locals(stack[k]) \cap Locals(Top) = {}
      <4>1. k \in Depth /\ n \in Depth /\ k # n /\ Top = stack[n]
        BY <1>1
      <4>2. Locals(stack[k]) \cap Locals(stack[n]) = {}
        BY <4>1 DEF IInv, Shape, Distinct
      <4> QED BY <4>1, <4>2
    <3> QED BY <3>1, <3>2, <3>3, <1>1, <1>3 DEF FormOK, Calling, Own, Leaving, CallerIs
  <2> QED BY <2>1, <1>1 DEF Nesting
<1>5. Idle(G)'
  <2> SUFFICES ASSUME NEW e \in Envs, ~Busy(e)' PROVE AsBuilt(G, e, envs[e])'
    BY DEF Idle, IInv, Shape, Leaving
  <2>1. CASE e # Top.env
    <3>1. ~Busy(e) /\ envs'[e] = envs[e] /\ base' = base /\ stale \subseteq stale'
      BY <2>1, <1>1, <1>2 DEF Busy, Leaving
    <3>2. AsBuilt(G, e, envs[e])
      BY <3>1 DEF IInv, Shape, Idle
    <3> QED BY <3>1, <3>2 DEF AsBuilt
  <2>2. CASE e = Top.env
    <3>1. AsBuilt(G, e, Top.before)
      BY <2>2, <1>1 DEF Busy, IInv, Shape, First
    <3>2. envs'[e] = left /\ Top.before \in Chains /\ base[e] \in Chains
      BY <2>2, <1>2, StackFacts DEF Leaving, Activation, IInv, TypeOK, Chains
    <3>3. CASE left = Top.before \/ e \in stale'
      <4>1. e \in stale' /\ left # Top.before => e \in G
        BY <2>2 DEF Leftover
      <4> QED BY <3>1, <3>2, <3>3, <4>1 DEF AsBuilt, Leaving
    <3>4. CASE left # Top.before /\ e \notin stale'
      <4>1. e \in G /\ left = Append(Top.before, Main) /\ e \notin stale
        BY <2>2, <3>4 DEF Leftover, Leaving
      <4>2. Grown(base[e], Top.before)
        BY <3>1, <4>1 DEF AsBuilt
      <4>3. Grown(base[e], left)
        BY <3>2, <4>1, <4>2, GrownMore
      <4> QED BY <3>2, <4>1, <4>3 DEF AsBuilt, Leaving
    <3> QED BY <3>3, <3>4
  <2> QED BY <2>1, <2>2
<1>6. Latest'
  <2> SUFFICES ASSUME NEW k \in Depth',
                      \A j \in Depth' : j > k => stack'[j].env # stack'[k].env
               PROVE  envs'[stack'[k].env] = stack'[k].chain
    BY DEF Latest
  <2>k. /\ k \in 1..(n-1) /\ stack'[k] = stack[k]
        /\ \A j \in 1..(n-1) : j > k => stack[j].env # stack[k].env
    BY <1>1
  <2>0. stack[k].env \in Envs
    <3>1. k \in 1..Len(stack) /\ stack \in Seq(Activation)
      BY <2>k, <1>1 DEF IInv, TypeOK
    <3>2. stack[k] \in Activation
      BY <3>1, ElementOfSeq
    <3> QED BY <3>2 DEF Activation
  <2>1. CASE stack[k].env # Top.env
    <3>1. k \in Depth /\ \A j \in Depth : j > k => stack[j].env # stack[k].env
      BY <2>k, <2>1, <1>1
    <3>2. envs[stack[k].env] = stack[k].chain
      BY <3>1 DEF IInv, Shape, Latest
    <3> QED BY <2>k, <2>0, <2>1, <3>2, <1>2 DEF Leaving
  <2>2. CASE stack[k].env = Top.env
    <3>1. Top.before = stack[k].chain
      <4>1. k \in Depth /\ n \in Depth /\ k < n /\ stack[k].env = stack[n].env
        BY <2>k, <2>2, <1>1
      <4>2. ASSUME NEW i \in Depth, k < i, i < n PROVE stack[i].env # stack[n].env
        BY <2>k, <2>2, <4>2, <1>1
      <4>3. stack[n].before = stack[k].chain
        BY <4>1, <4>2 DEF IInv, Shape, Later
      <4> QED BY <4>3, <1>1
    <3>2. left = Top.before
      BY <2>k, <2>2, <1>1 DEF Leftover
    <3> QED BY <2>k, <3>1, <3>2, <2>2, <1>2 DEF Leaving
  <2> QED BY <2>1, <2>2
<1>7. First(G)'
  <2> SUFFICES ASSUME NEW k \in Depth',
                      \A j \in Depth' : j < k => stack'[j].env # stack'[k].env
               PROVE  AsBuilt(G, stack[k].env, stack[k].before)'
    BY DEF First
  <2>1. /\ k \in 1..(n-1) /\ stack'[k] = stack[k]
        /\ \A j \in 1..(n-1) : j < k => stack[j].env # stack[k].env
    BY <1>1
  <2>2. k \in Depth /\ \A j \in Depth : j < k => stack[j].env # stack[k].env
    BY <2>1, <1>1
  <2> QED BY <2>1, <2>2 DEF IInv, Shape, First, Leaving, AsBuilt
<1>8. Later'
  <2> SUFFICES ASSUME NEW j \in Depth', NEW k \in Depth', j < k,
                      stack'[j].env = stack'[k].env,
                      \A i \in Depth' : j < i /\ i < k => stack'[i].env # stack'[k].env
               PROVE  stack'[k].before = stack'[j].chain
    BY DEF Later
  <2>1. k \in Depth /\ j \in Depth /\ stack'[k] = stack[k] /\ stack'[j] = stack[j]
    BY <1>1
  <2>2. ASSUME NEW i \in Depth, j < i, i < k PROVE stack[i].env # stack[k].env
    <3>1. i \in Depth' /\ stack'[i] = stack[i]
      BY <2>2, <1>1
    <3> QED BY <2>1, <2>2, <3>1
  <2> QED BY <2>1, <2>2 DEF IInv, Shape, Later
<1>9. Distinct'
  <2> SUFFICES ASSUME NEW j \in Depth', NEW k \in Depth', j # k
               PROVE  Locals(stack'[j]) \cap Locals(stack'[k]) = {}
    BY DEF Distinct, Locals
  <2>1. j \in Depth /\ k \in Depth /\ stack'[j] = stack[j] /\ stack'[k] = stack[k]
    BY <1>1
  <2> QED BY <2>1 DEF IInv, Shape, Distinct
<1> QED BY <1>4, <1>5, <1>6, <1>7, <1>8, <1>9 DEF Shape

(* A step of the innermost form: r is its record from now on. *)
Amending(r) ==
  /\ stack # <<>> /\ stack' = [stack EXCEPT ![Len(stack)] = r]
  /\ live' = live
  /\ r \in Activation /\ (Top.caller # None \/ Top.kind = "macro")
  /\ r.kind = Top.kind /\ r.env = Top.env /\ r.caller = Top.caller
  /\ r.frame = Top.frame /\ r.empty = Top.empty /\ r.before = Top.before
  /\ r.chain = (Top.before \o Calling(Len(stack))) \o Own(r)

Amended(r) ==
  /\ Amending(r)
  /\ envs' = [envs EXCEPT ![r.env] = r.chain]
  /\ made' = made /\ base' = base /\ stale' = stale

LEMMA AmendingStep ==
  ASSUME NEW G \in SUBSET Closures, IInv(G), TypeOK',
         NEW r, Amending(r), Around([envs EXCEPT ![r.env] = r.chain])
  PROVE  Shape(G)'
<1>n. PICK n \in Nat : n = Len(stack)
  BY EmptyStack
<1>1. /\ n = Len(stack) /\ n \in Depth /\ stack[n] = Top
      /\ Len(stack') = n /\ stack'[n] = r
      /\ \A k \in Depth : k # n => stack'[k] = stack[k]
      /\ Depth = 1..n /\ Depth' = Depth
  BY <1>n, StackFacts DEF Amending, Top, Depth, IInv, TypeOK
<1>2. /\ Top.env \in made \cup {Main}
      /\ stale \subseteq stale'
      /\ \A e \in made \cup {Main} :
           /\ e \in made' \cup {Main} /\ base'[e] = base[e]
           /\ envs'[e] = IF e = Top.env THEN r.chain ELSE envs[e]
      /\ \A e \in Envs \ {Top.env} : \/ envs'[e] = envs[e] /\ base'[e] = base[e]
                                    \/ envs'[e] = base'[e]
      /\ \A k \in Depth : stack[k].env \in made \cup {Main}
  <2>1. /\ \A k \in Depth : stack[k].env \in made \cup {Main}
        /\ made \cup {Main} \subseteq Envs
    BY UsedMade
  <2>2. /\ Top.env \in made \cup {Main} /\ r.env = Top.env
        /\ envs \in [Envs -> Seq(Frames \cup {Main})]
    BY <1>1, <2>1 DEF Amending, IInv, TypeOK
  <2>3. /\ made \subseteq made' /\ stale \subseteq stale'
        /\ \A e \in Envs :
             LET now == [envs EXCEPT ![r.env] = r.chain]
             IN  \/ envs'[e] = now[e] /\ base'[e] = base[e]
                 \/ e \notin made \cup {Main} /\ envs'[e] = base'[e]
    BY DEF Around
  <2>4. \A e \in Envs : [envs EXCEPT ![r.env] = r.chain][e]
                          = IF e = Top.env THEN r.chain ELSE envs[e]
    BY <2>2
  <2>5. \A e \in made \cup {Main} :
           /\ e \in made' \cup {Main} /\ base'[e] = base[e]
           /\ envs'[e] = IF e = Top.env THEN r.chain ELSE envs[e]
    BY <2>1, <2>3, <2>4
  <2>6. \A e \in Envs \ {Top.env} :
           \/ envs'[e] = envs[e] /\ base'[e] = base[e]
           \/ envs'[e] = base'[e]
    BY <2>3, <2>4
  <2> QED BY <2>1, <2>2, <2>3, <2>5, <2>6
<1>3. \A k \in Depth : /\ stack'[k].env = stack[k].env /\ stack'[k].caller = stack[k].caller
                       /\ stack'[k].kind = stack[k].kind /\ stack'[k].frame = stack[k].frame
                       /\ stack'[k].empty = stack[k].empty
                       /\ stack'[k].before = stack[k].before
                       /\ Locals(stack'[k]) = Locals(stack[k])
  BY <1>1 DEF Amending, Locals
<1>4. \A k \in Depth : Outer(k)' = Outer(k) /\ Visible(k)' = Visible(k)
  <2> TAKE k \in Depth
  <2>1. CASE k = 1
    BY <2>1 DEF Outer, Visible
  <2>2. CASE k # 1
    <3>1. k - 1 \in Depth /\ k - 1 # n
      BY <2>2, <1>1
    <3> QED BY <2>2, <3>1, <1>1, <1>3 DEF Outer, Visible
  <2> QED BY <2>1, <2>2
<1>5. Nesting'
  <2> SUFFICES ASSUME NEW k \in Depth PROVE FormOK(k)'
    BY <1>1 DEF Nesting
  <2>1. FormOK(k)
    BY DEF IInv, Shape, Nesting
  <2>2. Calling(k)' = Calling(k)
    BY <1>3, <1>4 DEF Calling
  <2>3. stack'[k].chain = (stack'[k].before \o Calling(k)) \o Own(stack'[k])
    <3>1. CASE k = n
      BY <3>1, <1>1 DEF Amending
    <3>2. CASE k # n
      BY <2>1, <3>2, <1>1 DEF FormOK
    <3> QED BY <3>1, <3>2
  <2>4. stack[k].env \in made' \cup {Main} /\ live' = live
    BY <1>2 DEF Amending
  <2>5. stack[k].caller = None /\ stack[k].kind # "macro" => stack'[k] = stack[k]
    BY <1>1 DEF Amending
  <2> QED BY <2>1, <2>2, <2>3, <2>4, <2>5, <1>3, <1>4 DEF FormOK, CallerIs
<1>6. Idle(G)'
  <2>1. \A e \in Envs : ~Busy(e)' => ~Busy(e) /\ e # Top.env
    BY <1>1, <1>3 DEF Busy
  <2>2. ASSUME NEW e \in Envs, ~Busy(e)' PROVE AsBuilt(G, e, envs[e])'
    BY <2>1, <2>2, <1>2, StillBuilt DEF Idle, IInv, Shape
  <2>3. base'[Main] = <<Main>>
    BY <1>2 DEF Idle, IInv, Shape
  <2> QED BY <2>2, <2>3 DEF Idle
<1>7. Latest'
  <2> SUFFICES ASSUME NEW k \in Depth,
                      \A j \in Depth : j > k => stack[j].env # stack[k].env
               PROVE  envs'[stack[k].env] = stack'[k].chain
    BY <1>1, <1>3 DEF Latest
  <2>1. CASE k = n
    BY <2>1, <1>1, <1>2 DEF Amending
  <2>2. CASE k # n
    <3>1. Top.env # stack[k].env /\ envs[stack[k].env] = stack[k].chain
      BY <2>2, <1>1 DEF IInv, Shape, Latest
    <3> QED BY <2>2, <3>1, <1>1, <1>2 DEF Amending
  <2> QED BY <2>1, <2>2
<1>8. First(G)'
  BY <1>1, <1>2, <1>3 DEF IInv, Shape, First, AsBuilt
<1>9. Later'
  <2> SUFFICES ASSUME NEW j \in Depth, NEW k \in Depth, j < k,
                      stack[j].env = stack[k].env,
                      \A i \in Depth : j < i /\ i < k => stack[i].env # stack[k].env
               PROVE  stack'[k].before = stack'[j].chain
    BY <1>1, <1>3 DEF Later
  <2>1. j # n
    BY <1>1
  <2> QED BY <2>1, <1>1, <1>3 DEF IInv, Shape, Later
<1>10. Distinct'
  <2> SUFFICES ASSUME NEW j \in Depth, NEW k \in Depth, j # k
               PROVE  Locals(stack'[j]) \cap Locals(stack'[k]) = {}
    BY <1>1 DEF Distinct, Locals
  <2> QED BY <1>3 DEF IInv, Shape, Distinct
<1> QED BY <1>5, <1>6, <1>7, <1>8, <1>9, <1>10 DEF Shape

(* A step that gives an idle closure another captured chain. *)
Rebuilt(c, chain) ==
  /\ c \in Closures /\ ~Busy(c)
  /\ envs' = [envs EXCEPT ![c] = chain] /\ base' = [base EXCEPT ![c] = chain]
  /\ made \ {c} \subseteq made' /\ stale \ {c} \subseteq stale'
  /\ UNCHANGED <<stack, live>>

LEMMA RebuiltStep ==
  ASSUME NEW G \in SUBSET Closures, IInv(G), TypeOK', NEW c, NEW chain, Rebuilt(c, chain)
  PROVE  Shape(G)'
<1>1. /\ c \in Envs /\ c # Main /\ Main \in Envs
      /\ DOMAIN envs = Envs /\ DOMAIN base = Envs
      /\ stack' = stack /\ Depth' = Depth
  BY ScopingAssumption DEF Rebuilt, Envs, IInv, TypeOK, Depth
<1>2. \A k \in Depth : stack[k].env # c /\ stack[k].env \in Envs
  <2> TAKE k \in Depth
  <2>1. stack[k] \in Activation
    BY ElementOfSeq DEF IInv, TypeOK, Depth
  <2> QED BY <2>1 DEF Rebuilt, Busy, Depth, Activation
<1>3. /\ \A e \in Envs \ {c} : /\ envs'[e] = envs[e] /\ base'[e] = base[e]
                               /\ e \in stale => e \in stale'
      /\ envs'[c] = base'[c]
  BY <1>1 DEF Rebuilt
<1>4. \A k \in Depth : FormOK(k) => FormOK(k)'
  BY <1>1, <1>2 DEF FormOK, Outer, Calling, Visible, Own, Rebuilt, CallerIs
<1>5. Idle(G)'
  <2>1. ASSUME NEW e \in Envs, ~Busy(e)' PROVE AsBuilt(G, e, envs[e])'
    BY <2>1, <1>1, <1>3, StillBuilt DEF IInv, Shape, Idle, Busy
  <2> QED BY <2>1, <1>1, <1>3 DEF IInv, Shape, Idle
<1>6. Latest' /\ Later'
  BY <1>1, <1>2, <1>3 DEF IInv, Shape, Latest, Later
<1>7. First(G)'
  BY <1>1, <1>2, <1>3 DEF IInv, Shape, First, AsBuilt
<1>8. Distinct'
  BY <1>1 DEF IInv, Shape, Distinct, Locals
<1> QED BY <1>1, <1>4, <1>5, <1>6, <1>7, <1>8 DEF IInv, Shape, Nesting

-----------------------------------------------------------------------------
LEMMA RunningType ==
  ASSUME NEW G \in SUBSET Closures, IInv(G)
  PROVE  Running \in Envs /\ Running \in made \cup {Main} /\ envs[Running] \in Chains
<1>1. CASE stack = <<>>
  BY <1>1 DEF Running, Envs, IInv, TypeOK, Chains
<1>2. CASE stack # <<>>
  <2>1. Top \in Activation
    BY <1>2, StackFacts
  <2>2. Top.env \in made \cup {Main}
    BY <1>2, StackFacts DEF IInv, Shape, Nesting, FormOK, Top
  <2> QED BY <1>2, <2>1, <2>2 DEF Running, Activation, IInv, TypeOK, Chains
<1> QED BY <1>1, <1>2

LEMMA InitInv ==
  ASSUME NEW G \in SUBSET Closures, Init
  PROVE  IInv(G)
<1>1. TypeOK
  <2>1. <<>> \in Chains /\ <<Main>> \in Chains /\ <<>> \in Seq(Activation)
    BY DEF Chains
  <2>2. EmptyTable \in [Names -> Slot]
    BY DEF EmptyTable, Slot
  <2> QED BY <2>1, <2>2 DEF Init, TypeOK, Chains
<1>2. Depth = {}
  BY DEF Init, Depth
<1>3. Idle(G)
  BY DEF Init, Idle, Envs, AsBuilt, Grown
<1> QED BY <1>1, <1>2, <1>3
        DEF IInv, Shape, Nesting, Latest, First, Later, Distinct

LEMMA EnteredStep ==
  ASSUME NEW G \in SUBSET Closures, IInv(G), TypeOK', NEW r, Entered(r)
  PROVE  IInv(G)'
<1>1. Entering(r) /\ Around([envs EXCEPT ![r.env] = r.chain])
  BY DEF Entered, Around
<1> QED BY <1>1, EnteringStep DEF IInv

LEMMA SetqFindInv ==
  ASSUME NEW G \in SUBSET Closures, IInv(G), NEW n \in Names, SetqFind(n)
  PROVE  IInv(G)' /\ \E r : Entered(r) /\ r.kind = "setq" /\ r.chain = envs[Running]
<1> DEFINE r == [kind |-> "setq", env |-> Running, caller |-> Running, frame |-> None,
                 empty |-> None, body |-> FALSE, name |-> n, target |-> Find(envs[Running], tables, n),
                 before |-> envs[Running], chain |-> envs[Running]]
<1>1. Find(envs[Running], tables, n) \in Tables \cup {None}
  BY RunningType, FindFound DEF Chains, Tables, Envs
<1>2. r \in Activation
  BY <1>1, RunningType DEF Activation, Kinds, Chains
<1>3. TypeOK'
  BY <1>2 DEF SetqFind, IInv, TypeOK
<1>4. Entered(r)
  <2>1. envs = [envs EXCEPT ![Running] = envs[Running]]
    BY RunningType DEF IInv, TypeOK
  <2>2. None \notin live /\ Running # None
    BY RunningType, ScopingAssumption DEF Envs, IInv, TypeOK
  <2>3. r.chain = (r.before \o <<>>) \o Own(r)
    BY RunningType, ConcatEmptySeq DEF Own, Chains
  <2> QED BY <1>2, <2>1, <2>2, <2>3, RunningType DEF Entered, Entering, CallerIs, Pushing, Locals, SetqFind
<1>9. IInv(G)'
  BY <1>3, <1>4, EnteredStep
<1> QED BY <1>9, <1>4

(* A step that leaves a form whose frame, if it has one, is destroyed. *)
LEMMA LeftInv ==
  ASSUME NEW G \in SUBSET Closures, IInv(G), Left, tables' \in [Tables -> [Names -> Slot]], stale' \subseteq made
  PROVE  IInv(G)'
<1>1. Top \in Activation /\ Rest \in Seq(Activation)
  BY StackFacts DEF Left, Leaving
<1>2. TypeOK'
  BY <1>1 DEF IInv, TypeOK, Left, Leaving, Activation
<1>3. PICK left : left = Top.before
  OBVIOUS
<1>4. Leaving(left) /\ Leftover(G, left)
  BY <1>3 DEF Left, Leftover
<1> QED BY <1>2, <1>4, LeavingStep DEF IInv

LEMMA SetqLocals ==
  ASSUME NEW G \in SUBSET Closures, IInv(G), stack # <<>>, Top.kind = "setq"
  PROVE  Locals(Top) = {}
<1>1. FormOK(Len(stack)) /\ Top = stack[Len(stack)] /\ Top \in Activation
  BY StackFacts DEF IInv, Shape, Nesting, Top
<1> QED BY <1>1, ScopingAssumption DEF FormOK, CallerIs, Locals

LEMMA SetqStoreInv ==
  ASSUME NEW G \in SUBSET Closures, IInv(G), NEW v \in Values, SetqStore(v)
  PROVE  IInv(G)' /\ Left
<1>1. Top.frame = None /\ Top.env = Top.caller /\ Top.chain = Top.before
      /\ Top.chain = envs[Top.env] /\ Top \in Activation /\ Top.name \in Names \cup {None}
  <2>1. FormOK(Len(stack)) /\ Top \in Activation
    BY StackFacts DEF SetqStore, IInv, Shape, Nesting
  <2>2. Top.before \in Chains
    BY <2>1 DEF Activation, Chains
  <2>3. Top.chain = (Top.before \o <<>>) \o <<>>
    BY <2>1 DEF FormOK, Top, Calling, Own, SetqStore
  <2>4. Top.chain = envs[Top.env]
    BY RunningView, EmptyStack DEF SetqStore, Running, Visible, Top
  <2> QED BY <2>1, <2>2, <2>3, <2>4, ConcatEmptySeq
      DEF FormOK, Top, SetqStore, Chains, Activation
<1>2. envs = [envs EXCEPT ![Top.env] = Top.before]
  BY <1>1 DEF IInv, TypeOK
<1>3. Left
  <2>1. live = live \ Locals(Top)
    BY SetqLocals DEF SetqStore
  <2> QED BY <1>2, <2>1 DEF Left, Leaving, SetqStore
<1>4. tables' \in [Tables -> [Names -> Slot]]
  BY DEF SetqStore, IInv, TypeOK, Slot
<1>9. IInv(G)'
  BY <1>3, <1>4, LeftInv DEF SetqStore, IInv, TypeOK
<1> QED BY <1>9, <1>3

(* The innermost form: its environment is as it left it. *)
LEMMA TopView ==
  ASSUME NEW G \in SUBSET Closures, IInv(G), stack # <<>>
  PROVE  /\ Top \in Activation /\ FormOK(Len(stack)) /\ stack[Len(stack)] = Top
         /\ Top.chain = envs[Top.env]
         /\ Top.before \in Chains /\ Top.chain \in Chains
         /\ Top.env \in Envs
<1>1. FormOK(Len(stack)) /\ Top \in Activation
  BY StackFacts DEF IInv, Shape, Nesting
<1>2. Top.chain = envs[Top.env]
  BY RunningView, EmptyStack DEF Running, Visible, Top
<1> QED BY <1>1, <1>2 DEF Activation, Chains, Top

(* A closure called from another environment was given that environment's  *)
(* chain, which is the same again when the call is the innermost form.     *)
LEMMA CallerView ==
  ASSUME NEW G \in SUBSET Closures, IInv(G), stack # <<>>, Top.caller \notin {Top.env, None}
  PROVE  /\ envs[Top.caller] = Visible(Len(stack))
         /\ Calling(Len(stack)) = envs[Top.caller]
         /\ envs[Top.caller] \in Chains
<1>n. PICK n \in Nat : n = Len(stack) /\ n > 0
  BY EmptyStack
<1>1. Top.caller = Outer(n) /\ stack[n] = Top /\ Depth = 1..n
  BY <1>n, TopView DEF FormOK, CallerIs, Depth
<1>c. Calling(n) = Visible(n)
  BY <1>1 DEF Calling
<1>2. CASE n = 1
  <2>1. Top.caller = Main /\ ~Busy(Main)
    BY <1>n, <1>1, <1>2 DEF Outer, Busy
  <2>2. envs[Main] = <<Main>>
    BY <2>1, ScopingAssumption DEF IInv, Shape, Idle, AsBuilt, Envs
  <2>3. Visible(n) = <<Main>> /\ <<Main>> \in Chains
    BY <1>2 DEF Visible, Chains
  <2> QED BY <1>n, <1>c, <2>1, <2>2, <2>3
<1>3. CASE n # 1
  <2>1. n - 1 \in Depth /\ Top.caller = stack[n-1].env /\ Visible(n) = stack[n-1].chain
    BY <1>n, <1>1, <1>3 DEF Outer, Visible
  <2>2. \A j \in Depth : j > n - 1 => stack[j].env # stack[n-1].env
    <3> SUFFICES ASSUME NEW j \in Depth, j > n - 1 PROVE stack[j].env # stack[n-1].env
      OBVIOUS
    <3>1. j = n
      BY <1>1
    <3> QED BY <3>1, <1>1, <2>1
  <2>3. envs[Top.caller] = Visible(n)
    BY <2>1, <2>2 DEF IInv, Shape, Latest
  <2>4. stack[n-1] \in Activation
    BY <2>1, ElementOfSeq DEF IInv, TypeOK, Depth
  <2> QED BY <1>n, <1>c, <2>1, <2>3, <2>4 DEF Activation, Chains
<1> QED BY <1>2, <1>3

LEMMA EnteredInv ==
  ASSUME NEW G \in SUBSET Closures, IInv(G), NEW r, Entered(r), live' \subseteq Frames,
         tables' \in [Tables -> [Names -> Slot]], stale' \subseteq made
  PROVE  IInv(G)'
<1>1. stack' \in Seq(Activation) /\ r.chain \in Chains
  <2>1. stack' \in Seq(Activation)
    BY AppendProperties DEF IInv, TypeOK, Entered, Entering
  <2>2. r.chain \in Chains
    BY DEF Entered, Entering, Activation, Chains
  <2> QED BY <2>1, <2>2
<1>2. envs' \in [Envs -> Chains]
  BY <1>1 DEF IInv, TypeOK, Entered, Entering, Chains
<1>3. TypeOK'
  BY <1>1, <1>2 DEF IInv, TypeOK, Entered, Entering, Chains
<1> QED BY <1>3, EnteredStep

LEMMA AmendedInv ==
  ASSUME NEW G \in SUBSET Closures, IInv(G), NEW r, Amended(r),
         tables' \in [Tables -> [Names -> Slot]], stale' = stale
  PROVE  IInv(G)'
<1>1. stack' \in Seq(Activation)
  BY StackFacts, ExceptSeq DEF IInv, TypeOK, Amended, Amending, Depth
<1>2. TypeOK'
  BY <1>1 DEF IInv, TypeOK, Amended, Amending, Activation
<1>3. Amending(r) /\ Around([envs EXCEPT ![r.env] = r.chain])
  BY DEF Amended, Around
<1> QED BY <1>2, <1>3, AmendingStep DEF IInv

LEMMA LetEnterInv ==
  ASSUME NEW G \in SUBSET Closures, IInv(G), NEW kind \in {"let", "let*"}, NEW f \in Frames, LetEnter(kind, f)
  PROVE  IInv(G)' /\ \E r : /\ Entered(r) /\ r.kind = kind /\ r.frame = f
                       /\ r.chain = EntryChain(kind, f)
<1> DEFINE r == [kind |-> kind, env |-> Running, caller |-> Running, frame |-> f,
                 empty |-> None, body |-> FALSE, name |-> None, target |-> None,
                 before |-> envs[Running], chain |-> EntryChain(kind, f)]
<1>1. EntryChain(kind, f) \in Chains
  BY RunningType DEF EntryChain, AddEnvMap, Chains
<1>2. r \in Activation
  BY <1>1, RunningType DEF Activation, Kinds, Chains
<1>3. EntryChain(kind, f) = (envs[Running] \o <<>>) \o Own(r)
  <2>1. envs[Running] \o <<>> = envs[Running]
    BY RunningType, ConcatEmptySeq DEF Chains
  <2>2. CASE kind = "let*"
    BY <2>1, <2>2, RunningType DEF Own, EntryChain, AddEnvMap, Chains
  <2>3. CASE kind = "let"
    BY <2>1, <2>3 DEF Own, EntryChain
  <2> QED BY <2>2, <2>3
<1>4. Entered(r)
  <2>1. {f} = Locals(r) /\ Running # None
    BY RunningType, ScopingAssumption DEF Envs, Locals
  <2> QED BY <1>2, <1>3, <2>1, RunningType DEF Entered, Entering, CallerIs, Pushing, LetEnter
<1>5. tables' \in [Tables -> [Names -> Slot]]
  BY DEF LetEnter, IInv, TypeOK, EmptyTable, Slot
<1>9. IInv(G)'
  BY <1>4, <1>5, EnteredInv DEF LetEnter, IInv, TypeOK
<1> QED BY <1>9, <1>4

LEMMA CallInv ==
  ASSUME NEW G \in SUBSET Closures, IInv(G), NEW c \in Closures, NEW f \in Frames, Call(c, f)
  PROVE  IInv(G)' /\ \E r : /\ Entered(r) /\ r.kind = "call" /\ r.frame = f /\ r.env = c
                       /\ r.chain = IF c # Running THEN envs[c] \o envs[Running]
                                                  ELSE envs[c]
<1> DEFINE chain == IF c # Running THEN AddEnvMaps(envs[c], envs[Running]) ELSE envs[c]
           r == [kind |-> "call", env |-> c, caller |-> Running, frame |-> f,
                 empty |-> None, body |-> FALSE, name |-> None, target |-> None,
                 before |-> envs[c], chain |-> chain]
<1>1. c \in Envs /\ envs[c] \in Chains /\ chain \in Chains
  BY RunningType, ConcatProperties DEF AddEnvMaps, Chains, IInv, TypeOK, Envs
<1>2. r \in Activation
  BY <1>1, RunningType DEF Activation, Kinds, Chains
<1>3. chain = (envs[c] \o (IF c # Running THEN envs[Running] ELSE <<>>)) \o Own(r)
  BY <1>1, RunningType, ConcatEmptySeq, ConcatProperties DEF Own, AddEnvMaps, Chains
<1>4. Entered(r)
  <2>1. {f} = Locals(r) /\ Running # None
    BY RunningType, ScopingAssumption DEF Envs, Locals
  <2> QED BY <1>2, <1>3, <2>1, RunningType DEF Entered, Entering, CallerIs, Pushing, Call
<1>5. tables' \in [Tables -> [Names -> Slot]]
  BY DEF Call, IInv, TypeOK, EmptyTable, Slot
<1>9. IInv(G)'
  BY <1>4, <1>5, EnteredInv DEF Call, IInv, TypeOK
<1>10. /\ r.kind = "call" /\ r.frame = f /\ r.env = c
       /\ r.chain = IF c # Running THEN envs[c] \o envs[Running] ELSE envs[c]
  BY DEF AddEnvMaps
<1> HIDE DEF r
<1> QED BY <1>4, <1>9, <1>10

LEMMA CallFromCompiledInv ==
  ASSUME NEW G \in SUBSET Closures, IInv(G), NEW c \in Closures, NEW f \in Frames, NEW g \in Frames,
         NEW bound \in [Names -> Values \cup {Unbound}], CallFromCompiled(c, f, g, bound)
  PROVE  IInv(G)' /\ \E r : /\ Entered(r) /\ r.kind = "call" /\ r.body /\ r.frame = f
                       /\ r.empty = g /\ r.env = c
                       /\ r.chain = Append(Append(envs[c], g), f)
<1> DEFINE chain == AddEnvMap(AddEnvMaps(envs[c], <<g>>), f)
           r == [kind |-> "call", env |-> c, caller |-> None, frame |-> f,
                 empty |-> g, body |-> TRUE, name |-> None, target |-> None,
                 before |-> envs[c], chain |-> chain]
<1>0. c \in Envs /\ envs[c] \in Chains /\ envs[c] \o <<g>> = Append(envs[c], g)
  <2>1. c \in Envs /\ envs[c] \in Chains
    BY DEF Chains, IInv, TypeOK, Envs
  <2> QED BY <2>1, AppendIsConcat DEF Chains
<1>1. PICK pushed \in Chains : pushed = envs[c] \o <<g>>
  <2>1. Append(envs[c], g) \in Chains
    BY <1>0, AppendProperties DEF Chains
  <2> QED BY <1>0, <2>1
<1>a. chain = Append(pushed, f) /\ chain \in Chains
  BY <1>1 DEF AddEnvMap, AddEnvMaps, Chains
<1>2. r \in Activation
  BY <1>0, <1>a DEF Activation, Kinds, Chains
<1>3. chain = (envs[c] \o <<g>>) \o Own(r)
  <2>1. Own(r) = <<f>>
    BY DEF Own
  <2>2. Append(pushed, f) = pushed \o <<f>>
    BY AppendIsConcat DEF Chains
  <2> QED BY <1>1, <1>a, <2>1, <2>2
<1>4. Entered(r)
  <2>1. Locals(r) = {f, g} /\ c # None
    BY <1>0, ScopingAssumption DEF Locals, Envs
  <2>2. Pushing(r) = <<g>>
    BY <2>1 DEF Pushing
  <2> QED BY <1>2, <1>3, <2>1, <2>2, ScopingAssumption
      DEF Entered, Entering, CallFromCompiled, CallerIs
<1>5. tables' \in [Tables -> [Names -> Slot]]
  BY DEF CallFromCompiled, IInv, TypeOK, EmptyTable, Slot
<1>9. IInv(G)'
  BY <1>4, <1>5, EnteredInv DEF CallFromCompiled, IInv, TypeOK
<1>10. /\ r.kind = "call" /\ r.body /\ r.frame = f /\ r.empty = g /\ r.env = c
       /\ r.chain = Append(Append(envs[c], g), f)
  BY <1>0, <1>1, <1>a
<1> HIDE DEF r
<1> QED BY <1>4, <1>9, <1>10

(* A step that changes neither the chains nor the forms but what a form    *)
(* remembers between its steps.                                            *)
LEMMA LetLabelInv ==
  ASSUME NEW G \in SUBSET Closures, IInv(G), NEW n \in Names, LetLabel(n)
  PROVE  IInv(G)' /\ \E r : Amended(r) /\ r.chain = Top.chain /\ r.body = Top.body
<1> DEFINE r == [Top EXCEPT !.name = n]
<1>1. r \in Activation /\ Own(r) = Own(Top)
  BY TopView DEF LetLabel, Binding, Activation, Own
<1>2. stack' = [stack EXCEPT ![Len(stack)] = r]
  BY StackFacts, TopView DEF LetLabel, Binding, IInv, TypeOK
<1>3. Amended(r)
  BY <1>1, <1>2, TopView DEF Amended, Amending, LetLabel, Binding, FormOK, CallerIs, Activation, IInv, TypeOK
<1>4. tables' \in [Tables -> [Names -> Slot]]
  BY DEF LetLabel, IInv, TypeOK, Slot
<1>9. IInv(G)'
  BY <1>3, <1>4, AmendedInv DEF LetLabel
<1>10. r.chain = Top.chain /\ r.body = Top.body
  BY TopView DEF LetLabel, Binding, Activation
<1> HIDE DEF r
<1> QED BY <1>3, <1>9, <1>10

LEMMA LetValueInv ==
  ASSUME NEW G \in SUBSET Closures, IInv(G), NEW v \in Values, LetValue(v)
  PROVE  IInv(G)' /\ \E r : Amended(r) /\ r.chain = Top.chain /\ r.body = Top.body
<1> DEFINE r == [Top EXCEPT !.name = None]
<1>1. r \in Activation /\ Own(r) = Own(Top)
  BY TopView DEF LetValue, Binding, Activation, Own
<1>2. stack' = [stack EXCEPT ![Len(stack)] = r]
  BY StackFacts, TopView DEF LetValue, Binding, IInv, TypeOK
<1>3. Amended(r)
  BY <1>1, <1>2, TopView DEF Amended, Amending, LetValue, Binding, FormOK, CallerIs, Activation, IInv, TypeOK
<1>4. tables' \in [Tables -> [Names -> Slot]]
  BY DEF LetValue, IInv, TypeOK, Slot
<1>9. IInv(G)'
  BY <1>3, <1>4, AmendedInv DEF LetValue
<1>10. r.chain = Top.chain /\ r.body = Top.body
  BY TopView DEF LetValue, Binding, Activation
<1> HIDE DEF r
<1> QED BY <1>3, <1>9, <1>10

LEMMA CallArgInv ==
  ASSUME NEW G \in SUBSET Closures, IInv(G), NEW n \in Names, NEW v \in Values \cup {Null}, CallArg(n, v)
  PROVE  IInv(G)'
<1>1. TypeOK'
  BY DEF CallArg, IInv, TypeOK, Slot
<1>2. UNCHANGED <<envs, live, made, stack, base>>
  BY DEF CallArg
<1>s. stale' = stale
  BY DEF CallArg
<1>3. \A k : FormOK(k)' <=> FormOK(k)
  BY <1>2 DEF FormOK, Outer, Visible, Calling, CallerIs, Locals
<1>4. Depth' = Depth
  BY <1>2 DEF Depth
<1>5. Nesting'
  BY <1>3, <1>4 DEF IInv, Shape, Nesting
<1>6. (Idle(G) /\ First(G))'
  BY <1>2, <1>s, <1>4 DEF IInv, Shape, Idle, AsBuilt, Busy, First
<1>7. (Latest /\ Later /\ Distinct)'
  BY <1>2, <1>4 DEF IInv, Shape, Latest, Later, Distinct, Locals
<1> QED BY <1>1, <1>5, <1>6, <1>7 DEF IInv, Shape

LEMMA LetBodyInv ==
  ASSUME NEW G \in SUBSET Closures, IInv(G), LetBody
  PROVE  IInv(G)' /\ \E r : /\ Amended(r) /\ r.body
                       /\ r.chain \in {Top.chain, Append(Top.chain, Top.frame)}
<1> DEFINE chain == IF Top.kind = "let" THEN AddEnvMap(envs[Top.env], Top.frame)
                                        ELSE envs[Top.env]
           r == [Top EXCEPT !.body = TRUE, !.chain = chain]
<1>1. /\ stack # <<>> /\ Top.kind \in {"let", "let*"} /\ Top.body = FALSE
      /\ Top.frame \in Frames
      /\ Top \in Activation /\ Top.before \in Chains
      /\ Top.chain = (Top.before \o Calling(Len(stack))) \o Own(Top)
      /\ Calling(Len(stack)) = <<>> /\ envs[Top.env] = Top.chain
      /\ Top.chain \in Chains /\ Top.caller # None
  <2>1. /\ stack # <<>> /\ Top.kind \in {"let", "let*"} /\ ~Top.body
    BY DEF LetBody, Binding
  <2>2. Top.frame \in Frames /\ Calling(Len(stack)) = <<>>
    BY <2>1, TopView DEF FormOK, Calling, IInv, TypeOK
  <2> QED BY <2>1, <2>2, TopView DEF FormOK, CallerIs, Activation
<1>2. chain \in Chains
  BY <1>1 DEF AddEnvMap, Chains
<1>3. r \in Activation
  BY <1>1, <1>2 DEF Activation, Chains
<1>4. chain = (Top.before \o Calling(Len(stack))) \o Own(r)
  <2>1. CASE Top.kind = "let*"
    BY <1>1, <2>1 DEF Own, Activation
  <2>2. CASE Top.kind = "let"
    <3>1. Own(Top) = <<>> /\ Own(r) = <<Top.frame>>
      BY <1>1, <2>2 DEF Own, Activation
    <3>2. Top.chain = Top.before \o <<>>
      BY <1>1, <3>1, ConcatEmptySeq DEF Chains
    <3>3. chain = Append(Top.before \o <<>>, Top.frame)
      BY <1>1, <2>2, <3>2 DEF AddEnvMap
    <3>4. Top.before \o <<>> \in Chains
      BY <1>1, ConcatEmptySeq DEF Chains
    <3>5. Top.frame \in Frames \cup {Main}
      BY <1>1
    <3>6. Append(Top.before \o <<>>, Top.frame) = (Top.before \o <<>>) \o <<Top.frame>>
      BY ONLY <3>4, <3>5, AppendIsConcat DEF Chains
    <3> QED BY <1>1, <3>1, <3>3, <3>6
  <2> QED BY <1>1, <2>1, <2>2
<1>5. stack' = [stack EXCEPT ![Len(stack)] = r]
  BY <1>1, StackFacts, TopView DEF LetBody, IInv, TypeOK
<1>6. Amended(r)
  BY <1>1, <1>3, <1>4, <1>5 DEF Amended, Amending, LetBody, Activation
<1>7. tables' \in [Tables -> [Names -> Slot]]
  BY DEF LetBody, IInv, TypeOK
<1>9. IInv(G)'
  BY <1>6, <1>7, AmendedInv DEF LetBody
<1>10. r.body /\ r.chain \in {Top.chain, Append(Top.chain, Top.frame)}
  BY <1>1 DEF AddEnvMap, Activation
<1> HIDE DEF r
<1> QED BY <1>6, <1>9, <1>10

LEMMA CallBodyInv ==
  ASSUME NEW G \in SUBSET Closures, IInv(G), CallBody
  PROVE  IInv(G)' /\ \E r : Amended(r) /\ r.body /\ r.chain = Append(Top.chain, Top.frame)
<1> DEFINE chain == AddEnvMap(envs[Top.env], Top.frame)
           r == [Top EXCEPT !.body = TRUE, !.chain = chain]
<1>1. stack # <<>> /\ Top.kind = "call" /\ ~Top.body
  BY DEF CallBody, InArgs
<1>2. /\ Top \in Activation /\ Top.before \in Chains /\ Top.frame \in Frames
      /\ Top.chain = (Top.before \o Calling(Len(stack))) \o Own(Top)
      /\ envs[Top.env] = Top.chain /\ Top.chain \in Chains /\ Top.caller # None
  BY <1>1, TopView DEF FormOK, CallerIs, IInv, TypeOK
<1>3. Calling(Len(stack)) \in Chains
  <2>1. CASE Top.caller \in {Top.env, None}
    <3>1. Calling(Len(stack)) = <<>>
      BY <1>1, <1>2, <2>1, TopView DEF Calling
    <3> QED BY <3>1 DEF Chains
  <2>2. CASE Top.caller \notin {Top.env, None}
    BY <1>1, <2>2, CallerView
  <2> QED BY <2>1, <2>2
<1>4. r \in Activation
  <2>1. chain \in Chains
    BY <1>2 DEF AddEnvMap, Chains
  <2> HIDE DEF chain
  <2> QED BY <1>2, <2>1 DEF Activation, Chains
<1>5. chain = (Top.before \o Calling(Len(stack))) \o Own(r)
  <2>1. Own(Top) = <<>> /\ Own(r) = <<Top.frame>>
    BY <1>1, <1>2 DEF Own, Activation
  <2>2. Top.before \o Calling(Len(stack)) \in Chains
    BY <1>2, <1>3, ConcatProperties DEF Chains
  <2>3. Top.chain = Top.before \o Calling(Len(stack))
    BY <1>2, <2>1, <2>2, ConcatEmptySeq DEF Chains
  <2>4. chain = Top.chain \o <<Top.frame>>
    <3>1. Top.chain \in Chains /\ Top.frame \in Frames \cup {Main}
      BY <1>2
    <3>2. Append(Top.chain, Top.frame) = Top.chain \o <<Top.frame>>
      BY ONLY <3>1, AppendIsConcat DEF Chains
    <3> QED BY <1>2, <3>2 DEF AddEnvMap
  <2> QED BY <2>1, <2>3, <2>4
<1>6. stack' = [stack EXCEPT ![Len(stack)] = r]
  BY <1>1, StackFacts, TopView DEF CallBody, IInv, TypeOK
<1>7. Amended(r)
  BY <1>1, <1>2, <1>4, <1>5, <1>6 DEF Amended, Amending, CallBody, Activation
<1>8. tables' \in [Tables -> [Names -> Slot]]
  BY DEF CallBody, IInv, TypeOK
<1>9. IInv(G)'
  BY <1>7, <1>8, AmendedInv DEF CallBody
<1>10. r.body /\ r.chain = Append(Top.chain, Top.frame)
  BY <1>2 DEF AddEnvMap, Activation
<1> HIDE DEF r
<1> QED BY <1>7, <1>9, <1>10

(* Popping as many tables as were pushed gives back the chain before. *)
LEMMA RemovePushed ==
  ASSUME NEW S, NEW a \in Seq(S), NEW b \in Seq(S), NEW f \in S
  PROVE  /\ RemoveEnvs((a \o b) \o <<f>>, 1 + Len(b)) = a
         /\ RemoveEnvs((a \o <<>>) \o <<f>>, 1) = a
<1>1. ASSUME NEW c \in Seq(S) PROVE RemoveEnvs((a \o c) \o <<f>>, 1 + Len(c)) = a
  <2> DEFINE s == (a \o c) \o <<f>>
  <2>1. /\ a \o c \in Seq(S) /\ <<f>> \in Seq(S) /\ Len(<<f>>) = 1
        /\ Len(a) \in Nat /\ Len(c) \in Nat
    BY ConcatProperties
  <2>2. s \in Seq(S) /\ Len(s) = Len(a) + Len(c) + 1
        /\ \A i \in 1..Len(a) : s[i] = a[i]
    BY <2>1, ConcatProperties
  <2> HIDE DEF s
  <2>3. Len(s) - (1 + Len(c)) = Len(a)
    BY <2>1, <2>2
  <2>4. /\ SubSeq(s, 1, Len(a)) \in Seq(S)
        /\ Len(SubSeq(s, 1, Len(a))) = IF 1 <= Len(a) THEN Len(a) - 1 + 1 ELSE 0
        /\ \A i \in 1..(Len(a) - 1 + 1) : SubSeq(s, 1, Len(a))[i] = s[1 + i - 1]
    <3>1. \A i \in 1..Len(a) : s[i] \in S
      BY <2>2, ElementOfSeq
    <3> QED BY ONLY <2>1, <3>1, SubSeqProperties
  <2>5. Len(SubSeq(s, 1, Len(a))) = Len(a)
    BY ONLY <2>1, <2>4
  <2>6. \A i \in 1..Len(a) : SubSeq(s, 1, Len(a))[i] = a[i]
    <3> TAKE i \in 1..Len(a)
    <3>1. i \in 1..(Len(a) - 1 + 1) /\ 1 + i - 1 = i
      BY ONLY <2>1, i \in 1..Len(a)
    <3> QED BY ONLY <3>1, <2>2, <2>4, i \in 1..Len(a)
  <2>7. SubSeq(s, 1, Len(a)) = a
    BY <2>4, <2>5, <2>6, SeqEqual
  <2> QED BY <2>3, <2>7 DEF RemoveEnvs, s
<1>2. <<>> \in Seq(S) /\ 1 + Len(<<>>) = 1
  BY EmptySeq
<1> QED BY <1>1, <1>2

LEMMA LetExitInv ==
  ASSUME NEW G \in SUBSET Closures, IInv(G), LetExit
  PROVE  IInv(G)' /\ Left
<1>1. /\ stack # <<>> /\ Top.kind \in {"let", "let*"} /\ Top.body
  BY DEF LetExit
<1>2. /\ Top.frame \in Frames /\ Calling(Len(stack)) = <<>>
      /\ Top.before \in Chains /\ Own(Top) = <<Top.frame>>
      /\ envs[Top.env] = (Top.before \o <<>>) \o <<Top.frame>>
  BY <1>1, TopView DEF FormOK, Calling, Own, IInv, TypeOK
<1>3. RemoveEnvs(envs[Top.env], 1) = Top.before
  BY <1>2, RemovePushed DEF Chains
<1>4. Left
  BY <1>1, <1>3, TopView DEF Left, Leaving, LetExit, Destroy, IInv, TypeOK
<1>5. tables' \in [Tables -> [Names -> Slot]] /\ stale' \subseteq made
  BY DEF LetExit, Destroy, Holding, IInv, TypeOK, EmptyTable, Slot
<1>9. IInv(G)'
  BY <1>4, <1>5, LeftInv
<1> QED BY <1>9, <1>4

LEMMA CallReturnInv ==
  ASSUME NEW G \in SUBSET Closures, IInv(G), CallReturn
  PROVE  IInv(G)' /\ Left
<1>1. stack # <<>> /\ Top.kind = "call" /\ Top.body
  BY DEF CallReturn
<1>2. /\ Top.frame \in Frames /\ Top.before \in Chains /\ Own(Top) = <<Top.frame>>
      /\ envs[Top.env] = (Top.before \o Calling(Len(stack))) \o <<Top.frame>>
  BY <1>1, TopView DEF FormOK, Own, IInv, TypeOK
<1>3. RemoveEnvs(envs[Top.env], Popped(Top)) = Top.before
  <2>1. CASE Top.caller = Top.env
    <3>1. Calling(Len(stack)) = <<>> /\ Popped(Top) = 1
      BY <1>1, <2>1, TopView DEF Calling, Popped, CallersTables
    <3> QED BY <1>2, <3>1, RemovePushed DEF Chains
  <2>3. CASE Top.caller # Top.env /\ Top.caller = None
    <3>1. PICK calling \in Chains : calling = Calling(Len(stack)) /\ Len(calling) = 1
      <4>1. Calling(Len(stack)) = <<Top.empty>> /\ Top.empty \in Frames
        BY <1>1, <2>3, TopView DEF Calling, FormOK, CallerIs, Activation
      <4>2. PICK g \in Frames : g = Top.empty
        BY <4>1
      <4>3. <<g>> \in Chains /\ Len(<<g>>) = 1
        BY DEF Chains
      <4> QED BY <4>1, <4>2, <4>3
    <3>2. Popped(Top) = 1 + Len(calling)
      BY <2>3, <3>1 DEF Popped, CallersTables
    <3>3. RemoveEnvs((Top.before \o calling) \o <<Top.frame>>, 1 + Len(calling)) = Top.before
      BY ONLY <1>2, RemovePushed, calling \in Chains DEF Chains
    <3> QED BY <1>2, <3>1, <3>2, <3>3
  <2>2. CASE Top.caller \notin {Top.env, None}
    <3>1. /\ Popped(Top) = 1 + Len(Calling(Len(stack)))
          /\ Calling(Len(stack)) \in Chains
      BY <1>1, <2>2, CallerView DEF Popped, CallersTables
    <3> QED BY <1>2, <3>1, RemovePushed DEF Chains
  <2> QED BY <2>1, <2>2, <2>3
<1>4. Left
  BY <1>1, <1>3, TopView DEF Left, Leaving, CallReturn, Destroy, IInv, TypeOK
<1>5. tables' \in [Tables -> [Names -> Slot]] /\ stale' \subseteq made
  BY DEF CallReturn, Destroy, Holding, IInv, TypeOK, EmptyTable, Slot
<1>9. IInv(G)'
  BY <1>4, <1>5, LeftInv
<1> QED BY <1>9, <1>4

LEMMA MakeClosureInv ==
  ASSUME NEW G \in SUBSET Closures, IInv(G), NEW c \in Closures, MakeClosure(c)
  PROVE  IInv(G)' /\ Rebuilt(c, envs[Running])
<1>1. ~Busy(c)
  <2> SUFFICES ASSUME NEW k \in 1..Len(stack) PROVE stack[k].env # c
    BY DEF Busy
  <2>1. stack[k].env \in made \cup {Main}
    BY DEF IInv, Shape, Nesting, FormOK, Depth
  <2> QED BY <2>1, ScopingAssumption DEF MakeClosure
<1>2. Rebuilt(c, Captured(c))
  BY <1>1 DEF Rebuilt, MakeClosure
<1>3. Captured(c) \in Chains
  BY RunningType DEF Captured
<1>4. TypeOK'
  <2>1. tables' \in [Tables -> [Names -> Slot]]
    BY RunningType DEF MakeClosure, IInv, TypeOK, Tables
  <2> QED BY <1>3, <2>1 DEF MakeClosure, IInv, TypeOK, Chains
<1>9. IInv(G)'
  BY <1>2, <1>4, RebuiltStep DEF IInv
<1> QED BY <1>9, <1>2 DEF Captured

LEMMA DropClosureInv ==
  ASSUME NEW G \in SUBSET Closures, IInv(G), NEW c \in Closures, DropClosure(c)
  PROVE  IInv(G)' /\ Rebuilt(c, <<>>)
<1>1. Rebuilt(c, <<>>)
  BY DEF Rebuilt, DropClosure
<1>2. tables' \in [Tables -> [Names -> Slot]]
  BY DEF DropClosure, IInv, TypeOK, EmptyTable, Slot
<1>3. <<>> \in Seq(Frames \cup {Main})
  OBVIOUS
<1>4. TypeOK'
  BY <1>2, <1>3 DEF DropClosure, IInv, TypeOK
<1>9. IInv(G)'
  BY <1>1, <1>4, RebuiltStep DEF IInv
<1> QED BY <1>9, <1>1

LEMMA StepInv ==
  ASSUME NEW G \in SUBSET Closures, IInv(G), [Next]_vars
  PROVE  IInv(G)'
<1>1. ASSUME NEW n \in Names, SetqFind(n) PROVE IInv(G)'
  BY <1>1, SetqFindInv
<1>2. ASSUME NEW v \in Values, SetqStore(v) PROVE IInv(G)'
  BY <1>2, SetqStoreInv
<1>3. ASSUME NEW kind \in {"let", "let*"}, NEW f \in Frames, LetEnter(kind, f)
      PROVE  IInv(G)'
  BY <1>3, LetEnterInv
<1>4. ASSUME NEW n \in Names, LetLabel(n) PROVE IInv(G)'
  BY <1>4, LetLabelInv
<1>5. ASSUME NEW v \in Values, LetValue(v) PROVE IInv(G)'
  BY <1>5, LetValueInv
<1>6. CASE LetBody
  BY <1>6, LetBodyInv
<1>7. CASE LetExit
  BY <1>7, LetExitInv
<1>8. ASSUME NEW c \in Closures, MakeClosure(c) PROVE IInv(G)'
  BY <1>8, MakeClosureInv
<1>9. ASSUME NEW c \in Closures, DropClosure(c) PROVE IInv(G)'
  BY <1>9, DropClosureInv
<1>10. ASSUME NEW c \in Closures, NEW f \in Frames, Call(c, f) PROVE IInv(G)'
  BY <1>10, CallInv
<1>11. ASSUME NEW n \in Names, NEW v \in Values \cup {Null}, CallArg(n, v) PROVE IInv(G)'
  BY <1>11, CallArgInv
<1>12. CASE CallBody
  BY <1>12, CallBodyInv
<1>13. CASE CallReturn
  BY <1>13, CallReturnInv
<1>15. ASSUME NEW c \in Closures, NEW f \in Frames, NEW g \in Frames,
              NEW bound \in [Names -> Values \cup {Unbound}], CallFromCompiled(c, f, g, bound)
       PROVE  IInv(G)'
  BY <1>15, CallFromCompiledInv
<1>14. CASE UNCHANGED vars
  <2>1. UNCHANGED <<envs, tables, live, made, stack, base, stale>>
    BY <1>14 DEF vars
  <2>2. TypeOK'
    BY <2>1 DEF IInv, TypeOK
  <2>3. \A k : FormOK(k)' <=> FormOK(k)
    BY <2>1 DEF FormOK, Outer, Visible, Calling, CallerIs, Locals
  <2>4. Depth' = Depth
    BY <2>1 DEF Depth
  <2>5. Nesting'
    BY <2>3, <2>4 DEF IInv, Shape, Nesting
  <2>6. (Idle(G) /\ First(G))'
    BY <2>1, <2>4 DEF IInv, Shape, Idle, AsBuilt, Busy, First
  <2>7. Latest' /\ Later'
    BY <2>1, <2>4 DEF IInv, Shape, Latest, Later
  <2>8. Distinct'
    BY <2>1, <2>4 DEF IInv, Shape, Distinct, Locals
  <2> QED BY <2>2, <2>5, <2>6, <2>7, <2>8 DEF IInv, Shape
<1> QED BY <1>1, <1>2, <1>3, <1>4, <1>5, <1>6, <1>7, <1>8, <1>9, <1>10, <1>11,
           <1>12, <1>13, <1>14, <1>15 DEF Next

THEOREM InvCorrect == Spec => []IInv({})
<1>0. {} \in SUBSET Closures
  OBVIOUS
<1>1. Init => IInv({})
  BY <1>0, InitInv
<1>2. IInv({}) /\ [Next]_vars => IInv({})'
  BY <1>0, StepInv
<1> QED BY <1>1, <1>2, PTL DEF Spec

(* Every variable always has its type: Scoping's TypeOK, for any number of *)
(* names, tables and closures and any depth of nesting (environment.h's    *)
(* Env and the let, let*, setq, defun and lambda handlers).                *)
THEOREM TypeCorrect == Spec => []TypeOK
<1>1. IInv({}) => TypeOK
  BY DEF IInv
<1> QED BY <1>1, InvCorrect, PTL

(* A closure's Env (functional.cpp:16 and :56 capture it by copy, `mutable') *)
(* is what it was at capture whenever no call of the closure is in           *)
(* progress: the pops of functional.cpp:36-39 undo its pushes under any      *)
(* recursion, direct or mutual.                                              *)
THEOREM Restored == Spec => []EnvRestored
<1>1. IInv({}) => EnvRestored
  BY DEF IInv, Shape, TypeOK, Idle, AsBuilt, EnvRestored, Envs
<1> QED BY <1>1, InvCorrect, PTL

(* Arguments are evaluated in the callee's Env (functional.cpp:26 and :66);  *)
(* a name the caller has bound means there what it means to the caller,      *)
(* because the caller's tables were pushed last (functional.cpp:17-21).      *)
THEOREM ArgumentsSeeCaller == Spec => []ArgsSeeCaller
<1>1. IInv({}) => ArgsSeeCaller
  <2> SUFFICES ASSUME IInv({}), InArgs, NEW n \in Names,
                      Find(envs[Top.caller], tables, n) # None
               PROVE  Find(envs[Top.env], tables, n) = Find(envs[Top.caller], tables, n)
    BY DEF ArgsSeeCaller
  <2>1. CASE Top.env = Top.caller
    BY <2>1
  <2>2. CASE Top.env # Top.caller
    <3>1. stack # <<>> /\ Top.kind = "call" /\ ~Top.body
      BY DEF InArgs
    <3>0. Top.caller # None
      BY <3>1, TopView DEF FormOK, Outer, CallerIs
    <3>2. envs[Top.caller] \in Chains /\ Calling(Len(stack)) = envs[Top.caller]
      BY <2>2, <3>0, <3>1, CallerView
    <3>3. Top.before \in Chains /\ envs[Top.env] = (Top.before \o envs[Top.caller]) \o <<>>
      BY <3>1, <3>2, TopView DEF FormOK, Own
    <3>4. envs[Top.env] = Top.before \o envs[Top.caller]
      BY <3>2, <3>3, ConcatProperties, ConcatEmptySeq DEF Chains
    <3> QED BY <3>2, <3>3, <3>4, FindSuffix DEF Chains
  <2> QED BY <2>1, <2>2
<1> QED BY <1>1, InvCorrect, PTL

(***************************************************************************)
(* Scoping implements ScopeStack: with Envs that are updated in place and  *)
(* shared by all the calls of a closure, the scope of the running form is  *)
(* still pushed and popped like a stack.                                   *)
(***************************************************************************)
(* The variables of ScopeStack under the refinement mapping. *)
Visibles  == [k \in 1..Len(stack) |-> IF k = 1 THEN <<Main>> ELSE stack[k-1].chain]
Captureds == {base[c] : c \in made}

ScopeStep == Scope!Next \/ UNCHANGED <<envs[Running], Visibles, Captureds>>

VisiblesOK ==
  /\ Len(stack) \in Nat
  /\ Visibles \in Seq(Chains) /\ Len(Visibles) = Len(stack)
  /\ \A k \in Depth : Visibles[k] = Visible(k) /\ Visible(k) \in Chains

LEMMA VisiblesFacts == IInv({}) => VisiblesOK
<1> SUFFICES ASSUME IInv({}) PROVE VisiblesOK
  OBVIOUS
<1>1. Len(stack) \in Nat
  BY EmptyStack
<1>2. ASSUME NEW k \in Depth PROVE Visibles[k] = Visible(k) /\ Visible(k) \in Chains
  <2>1. CASE k = 1
    BY <2>1 DEF Visibles, Visible, Depth, Chains
  <2>2. CASE k # 1
    <3>1. k - 1 \in 1..Len(stack)
      BY <1>1, <2>2 DEF Depth
    <3>2. stack[k-1] \in Activation
      BY <3>1, ElementOfSeq DEF IInv, TypeOK
    <3> QED BY <2>2, <3>2 DEF Visibles, Visible, Depth, Activation, Chains
  <2> QED BY <2>1, <2>2
<1>3. Visibles \in Seq(Chains)
  <2>1. Visibles \in [1..Len(stack) -> Chains]
    BY <1>2 DEF Visibles, Depth
  <2> QED BY <1>1, <2>1, SeqDef
<1>4. Len(Visibles) = Len(stack)
  <2>1. DOMAIN Visibles = 1..Len(stack)
    BY DEF Visibles
  <2> QED BY <1>1, <1>3, <2>1, LenProperties
<1> QED BY <1>1, <1>2, <1>3, <1>4 DEF VisiblesOK

(* What a closure sees of its own: what it captured, if no call of it is   *)
(* in progress, or what the latest call sees.                              *)
LEMMA ClosureOwn ==
  ASSUME IInv({}), NEW c \in made
  PROVE  envs[c] \in Scope!Own
<1>n. PICK n \in Nat : n = Len(stack)
  BY EmptyStack
<1>0. c \in Envs
  BY DEF IInv, TypeOK, Envs
<1>1. CASE ~Busy(c)
  BY <1>0, <1>1 DEF IInv, Shape, Idle, AsBuilt, Scope!Own
<1>2. CASE Busy(c)
  <2> DEFINE hits == {k \in 1..n : stack[k].env = c}
  <2>1. hits \subseteq 1..n /\ hits # {}
    BY <1>n, <1>2 DEF Busy
  <2>2. PICK k \in hits : \A j \in hits : j <= k
    <3> HIDE DEF hits
    <3> QED BY <2>1, LastPosition
  <2>3. k \in Depth /\ stack[k].env = c /\ \A j \in Depth : j > k => stack[j].env # c
    BY <1>n, <2>2 DEF Depth
  <2>4. envs[c] = stack[k].chain
    BY <2>3 DEF IInv, Shape, Latest
  <2>5. CASE k = n
    <3>1. stack # <<>> /\ Running = c
      BY <1>n, <2>3, <2>5, EmptyStack DEF Running, Top, Depth
    <3> QED BY <3>1 DEF Scope!Own
  <2>6. CASE k # n
    <3>1. k + 1 \in 1..n /\ k + 1 # 1 /\ (k + 1) - 1 = k
      BY <1>n, <2>3, <2>6 DEF Depth
    <3>2. Visibles[k + 1] = envs[c] /\ Len(Visibles) = n
      BY <1>n, <2>4, <3>1, VisiblesFacts DEF Visibles, VisiblesOK
    <3> QED BY <3>1, <3>2 DEF Scope!Own, Visibles
  <2> QED BY <2>5, <2>6
<1> QED BY <1>1, <1>2

LEMMA EnteredScope ==
  ASSUME IInv({}), IInv({})', NEW r, Entered(r)
  PROVE  Scope!Suspend /\ envs'[Running'] = r.chain
<1>n. PICK n \in Nat : n = Len(stack)
  BY EmptyStack
<1>1. /\ Len(stack') = n + 1 /\ stack'[n+1] = r
      /\ \A k \in 1..n : stack'[k] = stack[k]
      /\ Depth = 1..n /\ Depth' = 1..(n+1)
  BY <1>n DEF IInv, TypeOK, Entered, Entering, Depth
<1>2. envs'[Running'] = r.chain
  <2>1. stack' # <<>> /\ Running' = r.env
    <3>1. stack' # <<>>
      BY <1>1, EmptySeq DEF IInv, TypeOK
    <3> QED BY <1>1, <3>1 DEF Running, Top
  <2>2. r.env \in Envs
    BY DEF Entered, Entering, Activation
  <2> QED BY <2>1, <2>2 DEF Entered, Entering, IInv, TypeOK
<1>3. Visibles' = Append(Visibles, envs[Running])
  <2>1. /\ Visibles \in Seq(Chains) /\ Len(Visibles) = n
        /\ Visibles' \in Seq(Chains) /\ Len(Visibles') = n + 1
        /\ \A k \in 1..n : Visibles[k] = Visible(k)
        /\ \A k \in 1..(n+1) : Visibles'[k] = Visible(k)'
    <3>1. VisiblesOK /\ VisiblesOK'
      BY VisiblesFacts, PTL
    <3> QED BY <3>1, <1>n, <1>1 DEF VisiblesOK
  <2>2. \A k \in 1..n : Visible(k)' = Visible(k)
    BY <1>1 DEF Visible
  <2>3. Visible(n+1)' = envs[Running]
    <3>1. Visible(n+1)' = Visible(n+1)
      <4>1. CASE n = 0
        BY <4>1 DEF Visible
      <4>2. CASE n # 0
        <5>1. n + 1 # 1 /\ n + 1 - 1 = n /\ n \in 1..n
          BY <4>2
        <5> QED BY <5>1, <1>1 DEF Visible
      <4> QED BY <4>1, <4>2
    <3> QED BY <3>1, <1>n, RunningView
  <2>4. envs[Running] \in Chains
    BY RunningType
  <2> DEFINE s == Append(Visibles, envs[Running])
  <2>5. /\ s \in Seq(Chains) /\ Len(s) = n + 1
        /\ s[n+1] = envs[Running] /\ \A k \in 1..n : s[k] = Visibles[k]
    BY <2>1, <2>4, AppendProperties
  <2>6. \A k \in 1..(n+1) : Visibles'[k] = s[k]
    BY <2>1, <2>2, <2>3, <2>5
  <2> HIDE DEF s
  <2>7. Visibles' = s
    BY <2>1, <2>5, <2>6, SeqEqual
  <2> QED BY <2>7 DEF s
<1>4. Captureds' = Captureds
  BY DEF Captureds, Entered, Entering
<1> QED BY <1>2, <1>3, <1>4 DEF Scope!Suspend, Visibles, Captureds

LEMMA RunningScope == IInv({}) => envs[Running] = Visible(Len(stack) + 1)
BY RunningView

LEMMA LeftScope ==
  ASSUME IInv({}), IInv({})', Left
  PROVE  ScopeStep
<1>n. PICK n \in Nat : n = Len(stack) /\ n > 0
  BY EmptyStack DEF Left, Leaving
<1>1. /\ Len(stack') = n - 1
      /\ \A k \in 1..(n-1) : stack'[k] = stack[k]
      /\ Depth = 1..n /\ Depth' = 1..(n-1)
  BY <1>n, StackFacts DEF Left, Leaving, Depth
<1>2. VisiblesOK /\ VisiblesOK'
  BY VisiblesFacts, PTL
<1>3. \A k \in 1..n : Visible(k)' = Visible(k)
  <2> TAKE k \in 1..n
  <2>1. CASE k = 1
    BY <2>1 DEF Visible
  <2>2. CASE k # 1
    <3>1. k - 1 \in 1..(n-1)
      BY <2>2
    <3> QED BY <2>2, <3>1, <1>1 DEF Visible
  <2> QED BY <2>1, <2>2
<1>4. envs'[Running'] = Visible(n)
  <2>1. (IInv({}) => envs[Running] = Visible(Len(stack) + 1))'
    BY RunningScope, PTL
  <2>2. n - 1 + 1 = n /\ n \in 1..n
    BY <1>n
  <2> QED BY <2>1, <2>2, <1>1, <1>3
<1>5. Visibles # <<>> /\ Visibles[Len(Visibles)] = Visible(n) /\ Len(Visibles) = n
  BY <1>n, <1>1, <1>2, EmptySeq DEF VisiblesOK
<1>6. Visibles' = SubSeq(Visibles, 1, n - 1)
  <2> DEFINE s == SubSeq(Visibles, 1, n - 1)
  <2>0. n - 1 \in Nat
    BY <1>n
  <2>1. /\ s \in Seq(Chains)
        /\ Len(s) = IF 1 <= n - 1 THEN (n - 1) - 1 + 1 ELSE 0
        /\ \A k \in 1..((n - 1) - 1 + 1) : s[k] = Visibles[1 + k - 1]
    <3>1. \A k \in 1..(n-1) : Visibles[k] \in Chains
      BY <1>1, <1>2 DEF VisiblesOK
    <3> QED BY ONLY <2>0, <3>1, SubSeqProperties
  <2> HIDE DEF s
  <2>2. Len(s) = n - 1
    BY ONLY <2>0, <2>1
  <2>3. ASSUME NEW k \in 1..(n-1) PROVE s[k] = Visibles[k]
    <3>1. k \in 1..((n - 1) - 1 + 1) /\ 1 + k - 1 = k
      BY ONLY <2>0, k \in 1..(n-1)
    <3> QED BY ONLY <2>1, <3>1
  <2>4. /\ Visibles' \in Seq(Chains) /\ Len(Visibles') = n - 1
        /\ \A k \in 1..(n-1) : Visibles'[k] = Visibles[k]
    <3>1. \A k \in 1..(n-1) : k \in Depth /\ k \in Depth' /\ Visible(k)' = Visible(k)
      BY <1>1, <1>3
    <3> QED BY <3>1, <1>1, <1>2 DEF VisiblesOK
  <2>5. Visibles' = s
    BY <2>1, <2>2, <2>3, <2>4, SeqEqual
  <2> QED BY <2>5 DEF s
<1>c. Captureds' = Captureds
  BY DEF Captureds, Left, Leaving
<1>7. Scope!Leave
  BY <1>4, <1>5, <1>6, <1>c DEF Scope!Leave, Visibles, Captureds
<1> QED BY <1>7 DEF ScopeStep, Scope!Next

(* The chains of the forms around the innermost one do not change. *)
LEMMA AmendedScope ==
  ASSUME IInv({}), NEW r, Amended(r)
  PROVE  /\ Visibles' = Visibles /\ Captureds' = Captureds
         /\ envs'[Running'] = r.chain /\ envs[Running] = Top.chain
<1>n. PICK n \in Nat : n = Len(stack) /\ n > 0
  BY EmptyStack DEF Amended, Amending
<1>1. Len(stack') = n /\ stack'[n] = r /\ \A k \in 1..(n-1) : stack'[k] = stack[k]
  BY <1>n DEF Amended, Amending, IInv, TypeOK
<1>2. \A k \in 1..n : k = 1 \/ k - 1 \in 1..(n-1)
  OBVIOUS
<1>3. Visibles' = Visibles
  BY <1>n, <1>1, <1>2 DEF Visibles
<1>4. stack' # <<>>
  BY <1>n, <1>1, EmptySeq
<1>5. Running' = r.env /\ r.env \in Envs
  BY <1>1, <1>4, TopView DEF Running, Top, Amended, Amending
<1>6. Captureds' = Captureds
  BY DEF Captureds, Amended, Amending
<1> QED BY <1>3, <1>5, <1>6, TopView DEF Amended, Amending, IInv, TypeOK, Running

LEMMA AppendExtends ==
  ASSUME NEW b \in Chains, NEW f \in Frames
  PROVE  Scope!Extends(Append(b, f), b)
<1>1. b \in Seq(Frames \cup {Main}) /\ Len(b) \in Nat
  BY DEF Chains
<1>2. /\ Len(Append(b, f)) = Len(b) + 1
      /\ SubSeq(Append(b, f), 1, Len(b)) = b
  BY <1>1
<1> QED BY <1>2 DEF Scope!Extends, Scope!ExtendsBy

LEMMA AppendTwo ==
  ASSUME NEW b \in Chains, NEW g \in Frames, NEW f \in Frames
  PROVE  Scope!ExtendsBy(2, Append(Append(b, g), f), b)
<1>1. b \in Seq(Frames \cup {Main}) /\ Len(b) \in Nat
  BY DEF Chains
<1>2. /\ Len(Append(Append(b, g), f)) = Len(b) + 2
      /\ SubSeq(Append(Append(b, g), f), 1, Len(b)) = b
  BY <1>1
<1> QED BY <1>2 DEF Scope!ExtendsBy

LEMMA NextScope == IInv({}) /\ IInv({})' /\ [Next]_vars => ScopeStep
<1> SUFFICES ASSUME IInv({}), IInv({})', [Next]_vars PROVE ScopeStep
  OBVIOUS
<1>v. envs[Running] \in Chains /\ Running \in Envs
  BY RunningType
<1>1. ASSUME NEW n \in Names, SetqFind(n) PROVE ScopeStep
  <2>1. PICK r : Entered(r) /\ r.chain = envs[Running]
    BY <1>1, SetqFindInv
  <2>2. Scope!Enter
    BY <2>1, EnteredScope DEF Scope!Enter
  <2> QED BY <2>2 DEF ScopeStep, Scope!Next
<1>2. ASSUME NEW v \in Values, SetqStore(v) PROVE ScopeStep
  BY <1>2, SetqStoreInv, LeftScope
<1>3. ASSUME NEW kind \in {"let", "let*"}, NEW f \in Frames, LetEnter(kind, f)
      PROVE  ScopeStep
  <2>1. PICK r : Entered(r) /\ r.chain = EntryChain(kind, f)
    BY <1>3, LetEnterInv
  <2>2. r.chain \in {envs[Running], Append(envs[Running], f)}
    BY <2>1 DEF EntryChain, AddEnvMap
  <2>3. Scope!Enter
    BY <2>1, <2>2, <1>v, EnteredScope, AppendExtends DEF Scope!Enter
  <2> QED BY <2>3 DEF ScopeStep, Scope!Next
<1>4. ASSUME NEW c \in Closures, NEW f \in Frames, Call(c, f) PROVE ScopeStep
  <2>1. PICK r : /\ Entered(r)
                 /\ r.chain = IF c # Running THEN envs[c] \o envs[Running] ELSE envs[c]
    BY <1>4, CallInv
  <2>2. Scope!Suspend /\ envs'[Running'] = r.chain
    BY <2>1, EnteredScope
  <2>3. CASE c # Running
    <3>1. envs[c] \in Scope!Own
      BY <1>4, ClosureOwn DEF Call
    <3>2. Scope!Call
      BY <2>1, <2>2, <2>3, <3>1 DEF Scope!Call
    <3> QED BY <3>2 DEF ScopeStep, Scope!Next
  <2>4. CASE c = Running
    <3>1. Scope!Enter
      BY <2>1, <2>2, <2>4 DEF Scope!Enter
    <3> QED BY <3>1 DEF ScopeStep, Scope!Next
  <2> QED BY <2>3, <2>4
<1>18. ASSUME NEW c \in Closures, NEW f \in Frames, NEW g \in Frames,
              NEW bound \in [Names -> Values \cup {Unbound}], CallFromCompiled(c, f, g, bound)
       PROVE  ScopeStep
  <2>1. PICK r : Entered(r) /\ r.chain = Append(Append(envs[c], g), f)
    BY <1>18, CallFromCompiledInv
  <2>2. Scope!Suspend /\ envs'[Running'] = r.chain
    BY <2>1, EnteredScope
  <2>3. envs[c] \in Scope!Own
    BY <1>18, ClosureOwn DEF CallFromCompiled
  <2>4. Scope!ExtendsBy(2, Append(Append(envs[c], g), f), envs[c])
    BY AppendTwo DEF IInv, TypeOK, Envs, Chains
  <2>5. Scope!CallFromCompiled
    BY <2>1, <2>2, <2>3, <2>4 DEF Scope!CallFromCompiled
  <2> QED BY <2>5 DEF ScopeStep, Scope!Next
<1>5. ASSUME NEW n \in Names, LetLabel(n) PROVE ScopeStep
  <2>1. PICK r : Amended(r) /\ r.chain = Top.chain
    BY <1>5, LetLabelInv
  <2> QED BY <2>1, AmendedScope DEF ScopeStep
<1>6. ASSUME NEW v \in Values, LetValue(v) PROVE ScopeStep
  <2>1. PICK r : Amended(r) /\ r.chain = Top.chain
    BY <1>6, LetValueInv
  <2> QED BY <2>1, AmendedScope DEF ScopeStep
<1>7. ASSUME NEW r, Amended(r), r.chain \in {Top.chain, Append(Top.chain, Top.frame)}
      PROVE  ScopeStep
  <2>1. /\ Visibles' = Visibles /\ Captureds' = Captureds
        /\ envs'[Running'] = r.chain /\ envs[Running] = Top.chain
    BY <1>7, AmendedScope
  <2>2. CASE r.chain = Top.chain
    BY <2>1, <2>2 DEF ScopeStep
  <2>3. CASE r.chain = Append(Top.chain, Top.frame)
    <3>1. /\ Len(r.chain) = Len(Top.chain) + 1
          /\ SubSeq(r.chain, 1, Len(Top.chain)) = Top.chain
      <4>1. Top.chain \in Seq(Frames \cup {Main}) /\ Len(Top.chain) \in Nat
        BY <2>1, <1>v DEF Chains
      <4> QED BY <2>3, <4>1
    <3>2. Scope!Open
      BY <2>1, <3>1 DEF Scope!Open, Scope!Extends, Scope!ExtendsBy, Visibles, Captureds
    <3> QED BY <3>2 DEF ScopeStep, Scope!Next
  <2> QED BY <1>7, <2>2, <2>3
<1>8. CASE LetBody
  BY <1>7, <1>8, LetBodyInv
<1>9. CASE CallBody
  BY <1>7, <1>9, CallBodyInv
<1>10. CASE LetExit
  BY <1>10, LetExitInv, LeftScope
<1>11. CASE CallReturn
  BY <1>11, CallReturnInv, LeftScope
<1>12. ASSUME NEW c, NEW chain, Rebuilt(c, chain),
              Captureds' \subseteq Captureds \cup {envs[Running]}
       PROVE  ScopeStep
  <2>1. /\ c \in Closures /\ stack' = stack
        /\ envs' = [envs EXCEPT ![c] = chain]
    BY <1>12 DEF Rebuilt
  <2>2. Running # c
    <3>1. CASE stack = <<>>
      BY <2>1, <3>1, ScopingAssumption DEF Running
    <3>2. CASE stack # <<>>
      BY <3>2, <1>12, StackFacts DEF Rebuilt, Busy, Running, Top, Depth
    <3> QED BY <3>1, <3>2
  <2>3. envs'[Running'] = envs[Running] /\ Visibles' = Visibles
    BY <2>1, <2>2, <1>v DEF Running, Top, Visibles, IInv, TypeOK
  <2>4. Scope!Capture
    BY <1>12, <2>3 DEF Scope!Capture, Visibles, Captureds
  <2> QED BY <2>4 DEF ScopeStep, Scope!Next
<1>13. ASSUME NEW c \in Closures, MakeClosure(c) PROVE ScopeStep
  <2>1. /\ made' = made \cup {c} /\ base' = [base EXCEPT ![c] = envs[Running]]
        /\ made \subseteq Envs /\ c \in Envs
    BY <1>13 DEF MakeClosure, Captured, IInv, TypeOK, Envs
  <2>2. Captureds' \subseteq Captureds \cup {envs[Running]}
    BY <2>1 DEF Captureds, IInv, TypeOK
  <2> QED BY <1>12, <1>13, <2>2, MakeClosureInv
<1>14. ASSUME NEW c \in Closures, DropClosure(c) PROVE ScopeStep
  <2>1. /\ made' = made \ {c} /\ base' = [base EXCEPT ![c] = <<>>]
        /\ made \subseteq Envs
    BY <1>14 DEF DropClosure, IInv, TypeOK, Envs
  <2>2. Captureds' \subseteq Captureds \cup {envs[Running]}
    BY <2>1 DEF Captureds, IInv, TypeOK
  <2> QED BY <1>12, <1>14, <2>2, DropClosureInv
<1>15. ASSUME UNCHANGED <<envs, stack, base, made>> PROVE ScopeStep
  BY <1>15 DEF ScopeStep, Running, Top, Visibles, Captureds
<1>16. ASSUME NEW n \in Names, NEW v \in Values \cup {Null}, CallArg(n, v) PROVE ScopeStep
  BY <1>15, <1>16 DEF CallArg
<1>17. CASE UNCHANGED vars
  BY <1>15, <1>17 DEF vars
<1> QED BY <1>1, <1>2, <1>3, <1>4, <1>5, <1>6, <1>8, <1>9, <1>10, <1>11,
           <1>13, <1>14, <1>16, <1>17, <1>18 DEF Next

(* The in-place updates of shared Envs in setq, let, let* and the lambdas  *)
(* of defun and lambda implement a stack of scopes: a form that is left    *)
(* (special.cpp:274 and :302, functional.cpp:36-39 and :77-80) makes       *)
(* visible exactly the scope that was visible where it was entered, and a  *)
(* function sees its caller's scope unless compiled code calls it          *)
(* (functional.cpp:17-21, compiler.cpp:30).                                *)
THEOREM ScopesNest == Spec => ScopeSpec
<1>1. Init => Scope!Init
  BY DEF Init, Scope!Init, Running, Envs
<1>2. IInv({}) /\ IInv({})' /\ [Next]_vars => [Scope!Next]_<<envs[Running], Visibles, Captureds>>
  BY NextScope DEF ScopeStep
<1>3. IInv({}) /\ IInv({})' /\ [Next]_vars => [Scope!Next]_(Scope!vars)
  BY <1>2 DEF Visibles, Captureds, Scope!vars
<1> QED BY <1>1, <1>3, InvCorrect, PTL DEF Spec, ScopeSpec, Scope!Spec
=============================================================================
