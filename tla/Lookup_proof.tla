--------------------------- MODULE Lookup_proof ---------------------------
(***************************************************************************)
(* What lookups find, whatever the constants are: no table that has been   *)
(* destroyed, unless a closure is called that outlived one on its Env; the *)
(* empty pointer only while a let* evaluates a label; and what setq        *)
(* assigned.  The last section does the same for calls of macros.          *)
(***************************************************************************)
EXTENDS Macros, Scoping_proof

(***************************************************************************)
(* Without a call of a closure whose Env outlived a table it holds, no     *)
(* form is ever evaluated with a pointer to a destroyed table.             *)
(***************************************************************************)
(* A form has pushed its table; a let does so after its bindings.          *)
Pushed(r) == r.kind \in {"let*", "macro"} \/ r.body

(* It has pushed the table t. *)
Puts(r, t) == t = r.empty \/ (t = r.frame /\ Pushed(r))

(* The tables of a chain were pushed by the forms up to form k, or are     *)
(* global.                                                                 *)
Within(chain, k) ==
  \A i \in 1..Len(chain) :
    chain[i] = Main \/ \E j \in 1..k : Puts(stack[j], chain[i])

(* Every chain in use holds tables of forms that enclose it; what a        *)
(* closure captured that is not stale are tables of forms in progress.     *)
Reach == \A k \in Depth : Within(stack[k].chain, k)
Kept  == \A c \in made \ stale : Within(base[c], Len(stack))

Alive == Reach /\ Kept

LEMMA EnvWithin ==
  ASSUME NEW G \in SUBSET Closures, IInv(G), Alive, NEW e \in Envs, Busy(e) \/ e = Main \/ e \in made \ stale
  PROVE  Within(envs[e], Len(stack))
<1>n. PICK n \in Nat : n = Len(stack)
  BY EmptyStack
<1>1. CASE Busy(e)
  <2> DEFINE hits == {k \in 1..n : stack[k].env = e}
  <2>1. hits \subseteq 1..n /\ hits # {}
    BY <1>n, <1>1 DEF Busy
  <2>2. PICK k \in hits : \A j \in hits : j <= k
    <3> HIDE DEF hits
    <3> QED BY <2>1, LastPosition
  <2>3. k \in Depth /\ stack[k].env = e /\ \A j \in Depth : j > k => stack[j].env # e
    BY <1>n, <2>2 DEF Depth
  <2>4. envs[e] = stack[k].chain
    BY <2>3 DEF IInv, Shape, Latest
  <2>5. \A j \in 1..k : j \in 1..n
    BY <2>2
  <2> QED BY <1>n, <2>3, <2>4, <2>5 DEF Alive, Reach, Within
<1>2. CASE ~Busy(e)
  <2>1. AsBuilt(G, e, envs[e]) /\ Len(base[e]) \in Nat
    BY <1>2 DEF IInv, TypeOK, Shape, Idle
  <2>2. CASE e = Main
    BY <2>1, <2>2, ScopingAssumption DEF IInv, Shape, Idle, AsBuilt, Within
  <2>3. CASE e # Main
    <3>1. Within(base[e], Len(stack)) /\ e \notin stale
      BY <1>2, <2>3 DEF Alive, Kept
    <3> QED BY <2>1, <3>1 DEF AsBuilt, Grown, Within
  <2> QED BY <2>2, <2>3
<1> QED BY <1>1, <1>2

LEMMA RunningWithin ==
  ASSUME NEW G \in SUBSET Closures, IInv(G), Alive
  PROVE  Within(envs[Running], Len(stack))
<1>1. CASE stack = <<>>
  BY <1>1, EnvWithin DEF Running, Envs
<1>2. CASE stack # <<>>
  <2>1. Busy(Running) /\ Running \in Envs
    BY <1>2, StackFacts, TopView DEF Busy, Running, Depth
  <2> QED BY <2>1, EnvWithin
<1> QED BY <1>1, <1>2

(* What a form pushes is a local variable of it. *)
LEMMA PutLocal ==
  ASSUME NEW r, NEW t \in Frames \cup {Main}, Puts(r, t)
  PROVE  t \in Locals(r)
BY ScopingAssumption DEF Puts, Locals

(* A table of such a chain is alive. *)
LEMMA WithinLive ==
  ASSUME NEW G \in SUBSET Closures, IInv(G), NEW chain \in Chains, Within(chain, Len(stack))
  PROVE  \A i \in 1..Len(chain) : chain[i] \in live \cup {Main}
<1> TAKE i \in 1..Len(chain)
<1>1. chain[i] \in Frames \cup {Main}
  BY ElementOfSeq DEF Chains
<1>2. CASE chain[i] = Main
  BY <1>2
<1>3. CASE chain[i] # Main
  <2>1. PICK j \in 1..Len(stack) : Puts(stack[j], chain[i])
    BY <1>3 DEF Within
  <2>2. chain[i] \in Locals(stack[j])
    BY <1>1, <2>1, PutLocal
  <2> QED BY <2>1, <2>2 DEF IInv, Shape, Nesting, FormOK, Depth
<1> QED BY <1>2, <1>3

LEMMA WithinConcat ==
  ASSUME NEW a \in Chains, NEW b \in Chains, NEW k, Within(a, k), Within(b, k)
  PROVE  Within(a \o b, k)
<1> DEFINE s == a \o b
<1>1. /\ Len(s) = Len(a) + Len(b) /\ Len(a) \in Nat /\ Len(b) \in Nat
      /\ \A i \in 1..Len(a) + Len(b) :
           s[i] = IF i <= Len(a) THEN a[i] ELSE b[i - Len(a)]
  BY ConcatProperties DEF Chains
<1> HIDE DEF s
<1> SUFFICES ASSUME NEW i \in 1..Len(s)
             PROVE  s[i] = Main \/ \E j \in 1..k : Puts(stack[j], s[i])
  BY DEF Within, s
<1>2. CASE i <= Len(a)
  <2>1. i \in 1..Len(a) /\ s[i] = a[i]
    BY <1>1, <1>2
  <2> QED BY <2>1 DEF Within
<1>3. CASE ~(i <= Len(a))
  <2>1. i - Len(a) \in 1..Len(b) /\ s[i] = b[i - Len(a)]
    BY <1>1, <1>3
  <2> QED BY <2>1 DEF Within
<1> QED BY <1>2, <1>3

(* The closures that are not stale after a step were there before, or      *)
(* captured no table but the global one.                                   *)
Bare(chain) == \A i \in 1..Len(chain) : chain[i] = Main

Sparing ==
  \A c \in made' \ stale' :
    (c \in made \ stale /\ base'[c] = base[c]) \/ Bare(base'[c])

(* A chain holds tables of another one, and those that a form puts on it.  *)
Adds(r, old, new) ==
  \A i \in 1..Len(new) : (\E m \in 1..Len(old) : new[i] = old[m]) \/ Puts(r, new[i])

LEMMA AddsNone ==
  ASSUME NEW r, NEW old \in Chains
  PROVE  Adds(r, old, old)
BY DEF Adds

LEMMA AddsOne ==
  ASSUME NEW r, NEW old \in Chains, NEW mid \in Chains, NEW t \in Frames,
         Adds(r, old, mid), Puts(r, t)
  PROVE  Adds(r, old, Append(mid, t))
<1> DEFINE new == Append(mid, t)
<1>1. /\ Len(new) = Len(mid) + 1 /\ Len(mid) \in Nat /\ new[Len(mid) + 1] = t
      /\ \A i \in 1..Len(mid) : new[i] = mid[i]
  BY DEF Chains
<1> HIDE DEF new
<1>2. \A i \in 1..Len(new) : i \in 1..Len(mid) \/ i = Len(mid) + 1
  BY <1>1
<1>3. Adds(r, old, new)
  BY <1>1, <1>2 DEF Adds
<1> QED BY <1>3 DEF new

LEMMA AddsBoth ==
  ASSUME NEW r, NEW old \in Chains, NEW g \in Frames, NEW f \in Frames,
         Puts(r, g), Puts(r, f)
  PROVE  Adds(r, old, Append(Append(old, g), f))
<1>1. PICK mid \in Chains : mid = Append(old, g)
  <2>1. Append(old, g) \in Chains
    BY AppendProperties DEF Chains
  <2> QED BY <2>1
<1>2. Adds(r, old, mid)
  BY <1>1, AddsNone, AddsOne
<1>3. Adds(r, old, Append(mid, f))
  BY <1>2, AddsOne
<1> QED BY <1>1, <1>3

LEMMA EnteringAlive ==
  ASSUME NEW G \in SUBSET Closures, IInv(G), Alive, NEW r, Entering(r), Sparing,
         \E old \in Chains : Within(old, Len(stack)) /\ Adds(r, old, r.chain)
  PROVE  Alive'
<1>o. PICK old \in Chains : Within(old, Len(stack)) /\ Adds(r, old, r.chain)
  OBVIOUS
<1>n. PICK n \in Nat : n = Len(stack)
  BY EmptyStack
<1>a. stack \in Seq(Activation) /\ r \in Activation /\ stack' = Append(stack, r)
  BY DEF IInv, TypeOK, Entering
<1>1. /\ stack'[n+1] = r /\ \A k \in 1..n : stack'[k] = stack[k]
      /\ Depth = 1..n /\ Depth' = 1..(n+1)
  BY <1>n, <1>a DEF Depth
<1>2. \A k \in 1..n : \A chain : Within(chain, k) => Within(chain, k)'
  <2> TAKE k \in 1..n
  <2>1. \A j \in 1..k : stack'[j] = stack[j]
    BY <1>1
  <2> QED BY <2>1 DEF Within, Puts, Pushed
<1>4. Within(r.chain, n + 1)'
  <2> SUFFICES ASSUME NEW i \in 1..Len(r.chain)
               PROVE  r.chain[i] = Main \/ \E j \in 1..(n+1) : Puts(stack'[j], r.chain[i])
    BY DEF Within, Puts, Pushed
  <2>1. CASE Puts(r, r.chain[i])
    <3>1. n + 1 \in 1..(n+1) /\ stack'[n+1] = r
      BY <1>1
    <3> QED BY <2>1, <3>1
  <2>2. CASE \E m \in 1..Len(old) : r.chain[i] = old[m]
    <3>1. r.chain[i] = Main \/ \E j \in 1..n : Puts(stack[j], r.chain[i])
      BY <1>n, <1>o, <2>2 DEF Within
    <3>2. \A j \in 1..n : j \in 1..(n+1) /\ stack'[j] = stack[j]
      BY <1>1
    <3> QED BY <3>1, <3>2
  <2> QED BY <1>o, <2>1, <2>2 DEF Adds
<1>5. Reach'
  <2> SUFFICES ASSUME NEW k \in 1..(n+1) PROVE Within(stack[k].chain, k)'
    BY <1>1 DEF Reach
  <2>1. CASE k = n + 1
    BY <2>1, <1>1, <1>4
  <2>2. CASE k # n + 1
    <3>1. k \in 1..n
      BY <2>2
    <3>2. Within(stack[k].chain, k)
      BY <1>1, <3>1 DEF Alive, Reach
    <3> QED BY <1>1, <1>2, <3>1, <3>2
  <2> QED BY <2>1, <2>2
<1>6. Kept'
  <2>1. Len(stack') = n + 1
    BY <1>n, <1>a
  <2> SUFFICES ASSUME NEW c \in made' \ stale' PROVE Within(base[c], n + 1)'
    BY <2>1 DEF Kept
  <2>2. CASE c \in made \ stale /\ base'[c] = base[c]
    <3>1. Within(base[c], n)
      BY <1>n, <2>2 DEF Alive, Kept
    <3>2. \A j \in 1..n : j \in 1..(n+1) /\ stack'[j] = stack[j]
      BY <1>1
    <3> QED BY <2>2, <3>1, <3>2 DEF Within, Puts, Pushed
  <2>3. CASE Bare(base'[c])
    BY <2>3 DEF Bare, Within
  <2> QED BY <2>2, <2>3 DEF Sparing
<1> QED BY <1>5, <1>6 DEF Alive

LEMMA EnteredAlive ==
  ASSUME NEW G \in SUBSET Closures, IInv(G), Alive, NEW r, Entered(r), stale' = stale,
         \E old \in Chains : Within(old, Len(stack)) /\ Adds(r, old, r.chain)
  PROVE  Alive'
<1>1. Entering(r) /\ Sparing
  BY DEF Entered, Sparing
<1> QED BY <1>1, EnteringAlive

(* Leaving a form: the closures that captured a table of it become stale.  *)
LEMMA LeavingAlive ==
  ASSUME NEW G \in SUBSET Closures, IInv(G), Alive, NEW left, Leaving(left),
         \A c \in made \ stale' : c \notin stale /\
           (\A i \in 1..Len(base[c]) : base[c][i] \notin Locals(Top))
  PROVE  Alive'
<1>n. PICK n \in Nat : n = Len(stack) /\ n > 0
  BY EmptyStack DEF Leaving
<1>1. /\ \A k \in 1..(n-1) : stack'[k] = stack[k]
      /\ Depth = 1..n /\ Depth' = 1..(n-1) /\ stack[n] = Top
  BY <1>n, StackFacts DEF Leaving, Depth, Top
<1>2. Reach'
  <2> SUFFICES ASSUME NEW k \in 1..(n-1) PROVE Within(stack[k].chain, k)'
    BY <1>1 DEF Reach
  <2>1. Within(stack[k].chain, k) /\ stack'[k] = stack[k]
    BY <1>1 DEF Alive, Reach
  <2>2. \A j \in 1..k : stack'[j] = stack[j]
    BY <1>1
  <2> QED BY <2>1, <2>2 DEF Within, Puts, Pushed
<1>3. Kept'
  <2> SUFFICES ASSUME NEW c \in made \ stale', NEW i \in 1..Len(base[c]), base[c][i] # Main
               PROVE  \E j \in 1..(n-1) : Puts(stack'[j], base[c][i])
    <3>1. Len(stack') = n - 1 /\ made' = made /\ base' = base
      BY <1>n, StackFacts DEF Leaving
    <3> QED BY <3>1 DEF Kept, Within, Puts, Pushed
  <2>1. PICK j \in 1..n : Puts(stack[j], base[c][i])
    BY <1>n DEF Alive, Kept, Within
  <2>2. j \in 1..(n-1)
    <3>1. base[c] \in Seq(Frames \cup {Main})
      BY DEF IInv, TypeOK, Envs
    <3>2. base[c][i] \in Frames \cup {Main}
      BY ONLY <3>1, ElementOfSeq, i \in 1..Len(base[c])
    <3>3. Puts(Top, base[c][i]) => base[c][i] \in Locals(Top)
      BY <3>2, PutLocal
    <3>4. j # n
      BY <1>1, <2>1, <3>3
    <3> QED BY <3>4
  <2> QED BY <1>1, <2>1, <2>2
<1> QED BY <1>2, <1>3 DEF Alive

LEMMA LeftAlive ==
  ASSUME NEW G \in SUBSET Closures, IInv(G), Alive, Left,
         \A c \in made \ stale' : c \notin stale /\
           (\A i \in 1..Len(base[c]) : base[c][i] \notin Locals(Top))
  PROVE  Alive'
<1>1. PICK left : left = Top.before
  OBVIOUS
<1>2. Leaving(left)
  BY <1>1 DEF Left
<1> QED BY <1>2, LeavingAlive

LEMMA AmendingAlive ==
  ASSUME NEW G \in SUBSET Closures, IInv(G), Alive, NEW r, Amending(r), Sparing, Top.body => r.body,
         r.chain = Top.chain \/ (r.body /\ r.chain = Append(Top.chain, Top.frame))
  PROVE  Alive'
<1>n. PICK n \in Nat : n = Len(stack) /\ n > 0
  BY EmptyStack DEF Amending
<1>1. /\ stack'[n] = r /\ \A k \in 1..(n-1) : stack'[k] = stack[k]
      /\ Depth = 1..n /\ Depth' = 1..n /\ stack[n] = Top
  <2>1. stack' = [stack EXCEPT ![n] = r] /\ stack \in Seq(Activation)
    BY <1>n DEF Amending, IInv, TypeOK
  <2>2. r \in Activation /\ n \in 1..Len(stack)
    BY <1>n DEF Amending
  <2>3. /\ Len(stack') = Len(stack)
        /\ \A k \in 1..Len(stack) :
             stack'[k] = IF k = n THEN r ELSE stack[k]
    BY <2>1, <2>2, ExceptSeq
  <2>4. stack'[n] = r /\ \A k \in 1..(n-1) : stack'[k] = stack[k]
    BY <1>n, <2>3
  <2> QED BY <1>n, <2>3, <2>4 DEF Depth, Top
<1>2. \A k \in 1..n : \A t : Puts(stack[k], t) => Puts(stack'[k], t)
  <2> TAKE k \in 1..n
  <2>1. k = n \/ k \in 1..(n-1)
    BY <1>n
  <2> QED BY <2>1, <1>1 DEF Amending, Puts, Pushed
<1>3. PICK old \in Chains : old = Top.chain
  BY TopView DEF Amending
<1>4. Within(old, n)
  BY <1>n, <1>1, <1>3 DEF Alive, Reach
<1>5. Within(r.chain, n)'
  <2>1. CASE r.chain = old
    BY <1>2, <1>4, <2>1, Zenon DEF Within
  <2>2. CASE r.body /\ r.chain = Append(old, Top.frame)
    <3>1. /\ Len(r.chain) = Len(old) + 1 /\ Len(old) \in Nat
          /\ r.chain[Len(old) + 1] = Top.frame
          /\ \A i \in 1..Len(old) : r.chain[i] = old[i]
      BY <2>2 DEF Chains
    <3> SUFFICES ASSUME NEW i \in 1..Len(r.chain)
                 PROVE  r.chain[i] = Main \/ \E j \in 1..n : Puts(stack'[j], r.chain[i])
      BY DEF Within, Puts, Pushed
    <3>2. CASE i \in 1..Len(old)
      BY <1>2, <1>4, <3>1, <3>2 DEF Within
    <3>3. CASE i = Len(old) + 1
      <4>1. n \in 1..n /\ Puts(stack'[n], Top.frame)
        BY <1>n, <1>1, <2>2 DEF Puts, Pushed, Amending
      <4> QED BY <3>1, <3>3, <4>1
    <3> QED BY <3>1, <3>2, <3>3
  <2> QED BY <1>3, <2>1, <2>2
<1>6. Reach'
  <2> SUFFICES ASSUME NEW k \in 1..n PROVE Within(stack[k].chain, k)'
    BY <1>1 DEF Reach
  <2>1. CASE k = n
    BY <2>1, <1>1, <1>5
  <2>2. CASE k # n
    <3>1. k \in 1..(n-1) /\ \A j \in 1..k : j \in 1..n
      BY <2>2
    <3> QED BY <3>1, <1>1, <1>2 DEF Alive, Reach, Within
  <2> QED BY <2>1, <2>2
<1>7. Kept'
  <2>1. Len(stack') = n
    BY <1>n, ExceptSeq DEF Amending, IInv, TypeOK
  <2> SUFFICES ASSUME NEW c \in made' \ stale' PROVE Within(base[c], n)'
    BY <2>1 DEF Kept
  <2>2. CASE c \in made \ stale /\ base'[c] = base[c]
    <3>1. Within(base[c], n)
      BY <1>n, <2>2 DEF Alive, Kept
    <3> QED BY <1>2, <2>2, <3>1 DEF Within
  <2>3. CASE Bare(base'[c])
    BY <2>3 DEF Bare, Within
  <2> QED BY <2>2, <2>3 DEF Sparing
<1> QED BY <1>6, <1>7 DEF Alive

LEMMA AmendedAlive ==
  ASSUME NEW G \in SUBSET Closures, IInv(G), Alive, NEW r, Amended(r), stale' = stale,
         Top.body => r.body,
         r.chain = Top.chain \/ (r.body /\ r.chain = Append(Top.chain, Top.frame))
  PROVE  Alive'
<1>1. Amending(r) /\ Sparing
  BY DEF Amended, Sparing
<1> QED BY <1>1, AmendingAlive

LEMMA RebuiltAlive ==
  ASSUME NEW G \in SUBSET Closures, IInv(G), Alive, NEW c, NEW chain, Rebuilt(c, chain), made' \subseteq made \cup {c},
         stale \ {c} \subseteq stale',
         Within(chain, Len(stack))
  PROVE  Alive'
<1>1. stack' = stack /\ live' = live /\ Depth' = Depth
  BY DEF Rebuilt, Depth
<1>2. Reach'
  BY <1>1 DEF Alive, Reach, Within
<1>3. Kept'
  <2>1. c \in Envs /\ base' = [base EXCEPT ![c] = chain] /\ live' = live
    BY DEF Rebuilt, Envs
  <2> SUFFICES ASSUME NEW d \in made' \ stale' PROVE Within(base'[d], Len(stack))
    BY <1>1 DEF Kept, Within
  <2>2. CASE d = c
    BY <2>1, <2>2 DEF IInv, TypeOK
  <2>3. CASE d # c
    BY <2>1, <2>3 DEF Alive, Kept, IInv, TypeOK
  <2> QED BY <2>2, <2>3
<1> QED BY <1>2, <1>3 DEF Alive

LEMMA NextAlive ==
  ASSUME NEW G \in SUBSET Closures, ~Escaping, IInv(G), Alive, [Next]_vars
  PROVE  Alive'
<1>1. ASSUME NEW n \in Names, SetqFind(n) PROVE Alive'
  <2>1. PICK r : Entered(r) /\ r.chain = envs[Running]
    BY <1>1, SetqFindInv
  <2>2. envs[Running] \in Chains /\ Within(envs[Running], Len(stack))
    BY RunningType, RunningWithin
  <2>4. stale' = stale
    BY <1>1 DEF SetqFind
  <2>5. \E old \in Chains : Within(old, Len(stack)) /\ Adds(r, old, r.chain)
    BY <2>1, <2>2, AddsNone
  <2> QED BY <2>1, <2>4, <2>5, EnteredAlive
<1>2. ASSUME NEW v \in Values, SetqStore(v) PROVE Alive'
  <2>1. Left /\ stale' = stale
    BY <1>2, SetqStoreInv DEF SetqStore
  <2>2. Locals(Top) = {}
    BY <1>2, SetqLocals DEF SetqStore
  <2> QED BY <2>1, <2>2, LeftAlive
<1>3. ASSUME NEW kind \in {"let", "let*"}, NEW f \in Frames, LetEnter(kind, f)
      PROVE  Alive'
  <2>1. PICK r : Entered(r) /\ r.kind = kind /\ r.frame = f /\ r.chain = EntryChain(kind, f)
    BY <1>3, LetEnterInv
  <2>2. envs[Running] \in Chains /\ Within(envs[Running], Len(stack))
    BY RunningType, RunningWithin
  <2>3. \/ r.chain = envs[Running]
        \/ (Puts(r, f) /\ r.chain = Append(envs[Running], f))
    BY <2>1 DEF EntryChain, AddEnvMap, Puts, Pushed
  <2>4. stale' = stale
    BY <1>3 DEF LetEnter
  <2>5. \E old \in Chains : Within(old, Len(stack)) /\ Adds(r, old, r.chain)
    BY <2>2, <2>3, AddsNone, AddsOne
  <2> QED BY <2>1, <2>4, <2>5, EnteredAlive
<1>4. ASSUME NEW c \in Closures, NEW f \in Frames, Call(c, f) PROVE Alive'
  <2>1. PICK r : /\ Entered(r)
                 /\ r.chain = IF c # Running THEN envs[c] \o envs[Running] ELSE envs[c]
    BY <1>4, CallInv
  <2>2. Within(envs[c], Len(stack)) /\ envs[c] \in Chains
    BY <1>4, EnvWithin DEF Call, Envs, IInv, TypeOK, Chains
  <2>3. Within(envs[Running], Len(stack)) /\ envs[Running] \in Chains
    BY RunningWithin, RunningType
  <2>4. Within(r.chain, Len(stack))
    BY <2>1, <2>2, <2>3, WithinConcat
  <2>5. r.chain \in Chains
    BY <2>1 DEF Entered, Entering, Activation, Chains
  <2>6. stale' = stale
    BY <1>4 DEF Call
  <2>7. \E old \in Chains : Within(old, Len(stack)) /\ Adds(r, old, r.chain)
    BY <2>4, <2>5, AddsNone
  <2> QED BY <2>1, <2>6, <2>7, EnteredAlive
<1>5. ASSUME NEW n \in Names, LetLabel(n) PROVE Alive'
  BY <1>5, LetLabelInv, AmendedAlive DEF LetLabel
<1>6. ASSUME NEW v \in Values, LetValue(v) PROVE Alive'
  BY <1>6, LetValueInv, AmendedAlive DEF LetValue
<1>7. CASE LetBody
  BY <1>7, LetBodyInv, AmendedAlive DEF LetBody
<1>8. CASE CallBody
  BY <1>8, CallBodyInv, AmendedAlive DEF CallBody
<1>9. CASE LetExit
  BY <1>9, LetExitInv, LeftAlive DEF LetExit, Holding
<1>10. CASE CallReturn
  BY <1>10, CallReturnInv, LeftAlive DEF CallReturn, Holding
<1>11. ASSUME NEW c \in Closures, MakeClosure(c) PROVE Alive'
  <2>1. Rebuilt(c, envs[Running])
    BY <1>11, MakeClosureInv
  <2> QED BY <1>11, <2>1, RunningWithin, RebuiltAlive DEF MakeClosure
<1>12. ASSUME NEW c \in Closures, DropClosure(c) PROVE Alive'
  <2>1. Rebuilt(c, <<>>)
    BY <1>12, DropClosureInv
  <2>2. Within(<<>>, Len(stack))
    BY DEF Within
  <2> QED BY <1>12, <2>1, <2>2, RebuiltAlive DEF DropClosure
<1>13. ASSUME UNCHANGED <<live, made, stack, base, stale>> PROVE Alive'
  <2>1. Depth' = Depth
    BY <1>13 DEF Depth
  <2> QED BY <1>13, <2>1 DEF Alive, Reach, Kept, Within, Puts, Pushed
<1>14. ASSUME NEW n \in Names, NEW v \in Values \cup {Null}, CallArg(n, v) PROVE Alive'
  BY <1>13, <1>14 DEF CallArg
<1>16. ASSUME NEW c \in Closures, NEW f \in Frames, NEW g \in Frames,
              NEW bound \in [Names -> Values \cup {Unbound}], CallFromCompiled(c, f, g, bound)
       PROVE  Alive'
  <2>1. PICK r : /\ Entered(r) /\ r.body /\ r.frame = f /\ r.empty = g
                 /\ r.chain = Append(Append(envs[c], g), f)
    BY <1>16, CallFromCompiledInv
  <2>2. Within(envs[c], Len(stack)) /\ envs[c] \in Chains
    BY <1>16, EnvWithin DEF CallFromCompiled, Envs, IInv, TypeOK, Chains
  <2>3. stale' = stale
    BY <1>16 DEF CallFromCompiled
  <2>4. \E old \in Chains : Within(old, Len(stack)) /\ Adds(r, old, r.chain)
    <3>1. Puts(r, g) /\ Puts(r, f)
      BY <2>1 DEF Puts, Pushed
    <3> QED BY <2>1, <2>2, <3>1, AddsBoth
  <2> QED BY <2>1, <2>3, <2>4, EnteredAlive
<1>15. CASE UNCHANGED vars
  BY <1>13, <1>15 DEF vars
<1> QED BY <1>1, <1>2, <1>3, <1>4, <1>5, <1>6, <1>7, <1>8, <1>9, <1>10, <1>11,
           <1>12, <1>14, <1>15, <1>16 DEF Next

LEMMA InitAlive == Init => Alive
BY DEF Init, Alive, Reach, Kept, Depth

LEMMA AliveLive ==
  ASSUME NEW G \in SUBSET Closures, IInv(G), Alive
  PROVE  ScopeLive
BY RunningWithin, RunningType, WithinLive DEF ScopeLive

(* As long as the program calls no closure that captured a table since     *)
(* destroyed, the search path of the running form holds only live tables,  *)
(* the empty one that compiled code calls with (compiler.cpp:30) included: *)
(* the raw map pointers of environment.h:14 never dangle, whatever calls   *)
(* whatever in the meantime.                                               *)
THEOREM ScopesLive == ~Escaping => (Spec => []ScopeLive)
<1> SUFFICES ASSUME ~Escaping PROVE Spec => []ScopeLive
  OBVIOUS
<1>0. {} \in SUBSET Closures
  OBVIOUS
<1>1. Init => Alive
  BY InitAlive
<1>2. IInv({}) /\ Alive /\ [Next]_vars => Alive'
  BY <1>0, NextAlive
<1>3. IInv({}) /\ Alive => ScopeLive
  BY <1>0, AliveLive
<1> QED BY <1>1, <1>2, <1>3, InvCorrect, PTL DEF Spec

(***************************************************************************)
(* While bindings and assignments are in progress, a lookup finds the      *)
(* empty pointer only while a let* evaluates a label (special.cpp:253-307, *)
(* functional.cpp:27-29), and the variable that setq found before it       *)
(* evaluated the value (special.cpp:235-251).                              *)
(***************************************************************************)
In(chain) == {chain[i] : i \in 1..Len(chain)}

(* A form evaluated in the Env of main(), which no call is, sees the       *)
(* global table and the tables of the forms around it.                     *)
Nested ==
  \A k \in Depth : stack[k].env = Main =>
    /\ Main \in In(stack[k].chain)
    /\ \A j \in 1..k : In(stack[j].chain) \subseteq In(stack[k].chain)

(* The variable a setq found is still the one a lookup finds; if it found  *)
(* none, there still is none, except that the global one may have come up. *)
OnTarget(r) ==
  r.kind = "setq" =>
    /\ r.name \in Names
    /\ r.target # None => Find(r.chain, tables, r.name) = r.target
    /\ r.target = None =>
         \A t \in In(r.chain) \ {Main} : tables[t][r.name] = Unbound
Aimed == \A k \in Depth : OnTarget(stack[k])

(* An empty pointer is under the label of a let or let* that evaluates it, *)
(* or was passed on to a call made while a let* evaluates a label.         *)
Labels(r, t, n) ==
  r.kind \in {"let", "let*"} /\ ~r.body /\ r.frame = t /\ r.name = n
Evaluates(r) == r.kind = "let*" /\ ~r.body /\ r.name # None
Passed(k, t) ==
  /\ stack[k].kind = "call" /\ stack[k].frame = t
  /\ \E i \in 1..(k-1) : Evaluates(stack[i])
Source(k, t, n) == Labels(stack[k], t, n) \/ Passed(k, t)
Labelled ==
  \A t \in Tables, n \in Names :
    tables[t][n] = Null => \E k \in Depth : Source(k, t, n)

Bound == Nested /\ Aimed /\ Labelled
-----------------------------------------------------------------------------
LEMMA InAppend ==
  ASSUME NEW chain \in Chains, NEW f \in Frames \cup {Main}
  PROVE  In(Append(chain, f)) = In(chain) \cup {f}
<1>1. /\ Len(Append(chain, f)) = Len(chain) + 1 /\ Len(chain) \in Nat
      /\ \A i \in 1..Len(chain) : Append(chain, f)[i] = chain[i]
      /\ Append(chain, f)[Len(chain) + 1] = f
  BY DEF Chains
<1>2. \A i \in 1..(Len(chain) + 1) : i \in 1..Len(chain) \/ i = Len(chain) + 1
  BY <1>1
<1>3. Len(chain) + 1 \in 1..(Len(chain) + 1) /\ \A i \in 1..Len(chain) : i \in 1..(Len(chain) + 1)
  BY <1>1
<1> DEFINE s == Append(chain, f)
<1> HIDE DEF s
<1>4. In(s) \subseteq In(chain) \cup {f}
  BY <1>1, <1>2 DEF In, s
<1>5. In(chain) \cup {f} \subseteq In(s)
  BY <1>1, <1>3 DEF In, s
<1> QED BY <1>4, <1>5 DEF s

LEMMA InChain ==
  ASSUME NEW chain \in Chains
  PROVE  In(chain) \subseteq Frames \cup {Main}
BY ElementOfSeq DEF In, Chains

(* A lookup depends on which tables of the chain hold the name only. *)
LEMMA SameFind ==
  ASSUME NEW chain, NEW before, NEW after, NEW n,
         \A t \in In(chain) : before[t][n] = Unbound <=> after[t][n] = Unbound
  PROVE  Find(chain, after, n) = Find(chain, before, n)
<1>1. Holders(chain, after, n) = Holders(chain, before, n)
  BY DEF Holders, In
<1> QED BY <1>1 DEF Find

LEMMA RunningChain ==
  ASSUME NEW G \in SUBSET Closures, IInv(G), Nested, Running = Main
  PROVE  /\ Main \in In(envs[Running])
         /\ \A k \in Depth : In(stack[k].chain) \subseteq In(envs[Running])
<1>n. PICK n \in Nat : n = Len(stack)
  BY EmptyStack
<1>1. envs[Running] = IF n = 0 THEN <<Main>> ELSE stack[n].chain
  <2>1. n + 1 = 1 <=> n = 0
    BY <1>n
  <2>2. n + 1 - 1 = n
    BY <1>n
  <2> QED BY <1>n, <2>1, <2>2, RunningView DEF Visible
<1>2. CASE n = 0
  BY <1>n, <1>1, <1>2 DEF In, Depth
<1>3. CASE n # 0
  <2>1. n \in Depth /\ Depth = 1..n /\ stack[n].env = Main
    BY <1>n, <1>3, EmptyStack DEF Depth, Running, Top
  <2> QED BY <1>1, <1>3, <2>1 DEF Nested
<1> QED BY <1>2, <1>3

(* A table whose form is not among the first k, or not begun, is not in    *)
(* the chain of form k.                                                    *)
LEMMA Outside ==
  ASSUME NEW G \in SUBSET Closures, IInv(G), Alive, NEW k \in Depth, NEW f \in Frames,
         f \notin live \/ \E m \in Depth : m > k /\ f \in Locals(stack[m])
  PROVE  f \notin In(stack[k].chain)
<1> SUFFICES ASSUME NEW i \in 1..Len(stack[k].chain), stack[k].chain[i] = f PROVE FALSE
  BY DEF In
<1>1. f # Main /\ f # None
  BY ScopingAssumption
<1>2. PICK j \in 1..k : f \in Locals(stack[j])
  BY <1>1, PutLocal DEF Alive, Reach, Within
<1>3. j \in Depth
  BY EmptyStack DEF Depth
<1>4. f \in live
  BY <1>2, <1>3 DEF IInv, Shape, Nesting, FormOK
<1>5. PICK m \in Depth : m > k /\ f \in Locals(stack[m])
  BY <1>4
<1>6. m # j
  BY <1>5, EmptyStack DEF Depth
<1> QED BY <1>2, <1>3, <1>5, <1>6 DEF IInv, Shape, Distinct

(* The innermost form's own tables, in particular. *)
LEMMA OutsideTop ==
  ASSUME NEW G \in SUBSET Closures, IInv(G), Alive, NEW k \in Depth, k # Len(stack)
  PROVE  In(stack[k].chain) \cap Locals(Top) = {}
<1>1. Len(stack) \in Depth /\ Len(stack) > k /\ Top = stack[Len(stack)]
  BY EmptyStack DEF Depth, Top
<1>2. Locals(Top) \subseteq Frames
  BY <1>1 DEF IInv, TypeOK, Shape, Nesting, FormOK
<1> QED BY <1>1, <1>2, Outside

(* A setq keeps its target while tables change that are not in its chain.  *)
Others(T) == \A t \in Tables \ T : tables'[t] = tables[t]

LEMMA Steady ==
  ASSUME NEW G \in SUBSET Closures, IInv(G), NEW k \in Depth, OnTarget(stack[k]), stack'[k] = stack[k],
         NEW T, Others(T), In(stack[k].chain) \cap T = {}
  PROVE  OnTarget(stack[k])'
<1>1. stack[k].chain \in Chains
  <2>1. stack[k] \in Activation
    BY ElementOfSeq DEF IInv, TypeOK, Depth
  <2> QED BY <2>1 DEF Activation, Chains
<1>2. \A t \in In(stack[k].chain) : tables'[t] = tables[t]
  BY <1>1, InChain DEF Others, Tables, Envs
<1>3. \A n : Find(stack[k].chain, tables', n) = Find(stack[k].chain, tables, n)
  BY <1>2, SameFind
<1> QED BY <1>2, <1>3 DEF OnTarget

LEMMA OthersBut ==
  ASSUME NEW G \in SUBSET Closures, IInv(G), NEW t, NEW row, tables' = [tables EXCEPT ![t] = row]
  PROVE  Others({t})
BY DEF Others, IInv, TypeOK

(* Only stack tables hold an empty pointer. *)
LEMMA EnvsNotNull ==
  ASSUME NEW G \in SUBSET Closures, IInv(G), Labelled, NEW e \in Envs, NEW n \in Names
  PROVE  tables[e][n] # Null
<1> SUFFICES ASSUME tables[e][n] = Null PROVE FALSE
  OBVIOUS
<1>1. PICK k \in Depth : stack[k].frame = e
  BY DEF Labelled, Source, Labels, Passed, Tables
<1>2. stack[k].frame \in Frames \cup {None}
  <2>1. stack[k] \in Activation
    BY ElementOfSeq DEF IInv, TypeOK, Depth
  <2> QED BY <2>1 DEF Activation
<1> QED BY <1>1, <1>2, ScopingAssumption DEF Envs

(* A form that a step leaves alone, with those around it, remains the      *)
(* source of an empty pointer.                                             *)
LEMMA SameSource ==
  ASSUME NEW k \in Depth, NEW t, NEW n, Source(k, t, n), \A i \in 1..k : stack'[i] = stack[i]
  PROVE  Source(k, t, n)'
<1>1. k \in 1..k /\ \A i \in 1..(k-1) : i \in 1..k
  BY DEF Depth
<1> QED BY <1>1 DEF Source, Labels, Passed, Evaluates

(* Entering a form: its chain extends the one of the form around it.       *)
LEMMA EnteredBound ==
  ASSUME NEW G \in SUBSET Closures, IInv(G), Alive, Bound, NEW r, Entered(r),
         r.env = Main => Running = Main /\ In(envs[Running]) \subseteq In(r.chain),
         NEW T \in SUBSET (Frames \ live), Others(T),
         \A t \in T, m \in Names : tables'[t][m] # Null,
         OnTarget(r)'
  PROVE  Bound'
<1>n. PICK n \in Nat : n = Len(stack)
  BY EmptyStack
<1>1. /\ stack'[n+1] = r /\ \A k \in 1..n : stack'[k] = stack[k]
      /\ Depth = 1..n /\ Depth' = 1..(n+1)
  BY <1>n DEF IInv, TypeOK, Entered, Entering, Depth
<1>2. Nested'
  <2>1. r.env = Main => /\ Main \in In(r.chain)
                        /\ \A j \in 1..n : In(stack[j].chain) \subseteq In(r.chain)
    BY <1>1, RunningChain DEF Bound
  <2> SUFFICES ASSUME NEW k \in 1..(n+1), stack'[k].env = Main
               PROVE  /\ Main \in In(stack'[k].chain)
                      /\ \A j \in 1..k : In(stack'[j].chain) \subseteq In(stack'[k].chain)
    BY <1>1 DEF Nested, In
  <2>2. CASE k = n + 1
    <3>1. \A j \in 1..k : j = n + 1 \/ j \in 1..n
      BY <2>2
    <3> QED BY <1>1, <2>1, <2>2, <3>1
  <2>3. CASE k # n + 1
    <3>1. k \in 1..n /\ \A j \in 1..k : j \in 1..n
      BY <2>3
    <3> QED BY <1>1, <3>1 DEF Bound, Nested
  <2> QED BY <2>2, <2>3
<1>3. Aimed'
  <2> SUFFICES ASSUME NEW k \in 1..(n+1) PROVE OnTarget(stack[k])'
    BY <1>1 DEF Aimed
  <2>1. CASE k = n + 1
    BY <1>1, <2>1
  <2>2. CASE k # n + 1
    <3>1. k \in Depth /\ stack'[k] = stack[k] /\ OnTarget(stack[k])
      BY <1>1, <2>2 DEF Bound, Aimed
    <3>2. In(stack[k].chain) \cap T = {}
      BY <3>1, Outside
    <3> QED BY <3>1, <3>2, Steady
  <2> QED BY <2>1, <2>2
<1>4. Labelled'
  <2> SUFFICES ASSUME NEW t \in Tables, NEW m \in Names, tables'[t][m] = Null
               PROVE  \E k \in 1..(n+1) : Source(k, t, m)'
    BY <1>1 DEF Labelled
  <2>1. tables[t][m] = Null
    BY DEF Others
  <2>2. PICK k \in 1..n : Source(k, t, m)
    BY <1>1, <2>1 DEF Bound, Labelled
  <2>3. k \in 1..(n+1) /\ k \in Depth /\ \A i \in 1..k : stack'[i] = stack[i]
    BY <1>1
  <2> QED BY <2>2, <2>3, SameSource
<1> QED BY <1>2, <1>3, <1>4 DEF Bound

(* Leaving a form that has a table. *)
LEMMA LeftBound ==
  ASSUME NEW G \in SUBSET Closures, IInv(G), Alive, Bound, Left, Top.body, Destroy(Locals(Top))
  PROVE  Bound'
<1>n. PICK n \in Nat : n = Len(stack) /\ n > 0
  BY EmptyStack DEF Left, Leaving
<1>1. /\ \A k \in 1..(n-1) : stack'[k] = stack[k]
      /\ Depth = 1..n /\ Depth' = 1..(n-1) /\ stack[n] = Top
  BY <1>n, StackFacts DEF Left, Leaving, Depth, Top
<1>2. Nested'
  <2> SUFFICES ASSUME NEW k \in 1..(n-1), stack'[k].env = Main
               PROVE  /\ Main \in In(stack'[k].chain)
                      /\ \A j \in 1..k : In(stack'[j].chain) \subseteq In(stack'[k].chain)
    BY <1>1 DEF Nested, In
  <2>1. k \in 1..n /\ \A j \in 1..k : j \in 1..(n-1)
    OBVIOUS
  <2> QED BY <1>1, <2>1 DEF Bound, Nested
<1>3. Aimed'
  <2> SUFFICES ASSUME NEW k \in 1..(n-1) PROVE OnTarget(stack[k])'
    BY <1>1 DEF Aimed
  <2>1. k \in Depth /\ stack'[k] = stack[k] /\ OnTarget(stack[k])
    BY <1>1 DEF Bound, Aimed
  <2>2. In(stack[k].chain) \cap Locals(Top) = {}
    BY <1>n, <2>1, OutsideTop
  <2>3. Others(Locals(Top))
    BY DEF Others, Destroy
  <2> QED BY <2>1, <2>2, <2>3, Steady
<1>4. Labelled'
  <2> SUFFICES ASSUME NEW t \in Tables, NEW m \in Names, tables'[t][m] = Null
               PROVE  \E k \in 1..(n-1) : Source(k, t, m)'
    BY <1>1 DEF Labelled
  <2>1. tables[t][m] = Null /\ t \notin Locals(Top)
    BY ScopingAssumption DEF EmptyTable, Destroy
  <2>2. PICK k \in 1..n : Source(k, t, m)
    BY <1>1, <2>1 DEF Bound, Labelled
  <2>3. k # n
    <3>1. t # None
      BY ScopingAssumption DEF Tables, Envs
    <3> QED BY <1>1, <2>1, <2>2, <3>1 DEF Source, Labels, Passed, Locals
  <2>4. k \in 1..(n-1) /\ k \in Depth /\ \A i \in 1..k : stack'[i] = stack[i]
    BY <1>1, <2>3
  <2> QED BY <2>2, <2>4, SameSource
<1> QED BY <1>2, <1>3, <1>4 DEF Bound

(* A step of the innermost form, which is not a setq. *)
LEMMA AmendedAimed ==
  ASSUME NEW G \in SUBSET Closures, IInv(G), Alive, Bound, NEW r, Amended(r), Top.kind # "setq",
         Top.frame \in Frames, Others({Top.frame}),
         r.chain \in {Top.chain, Append(Top.chain, Top.frame)}
  PROVE  Nested' /\ Aimed'
<1>n. PICK n \in Nat : n = Len(stack) /\ n > 0
  BY EmptyStack DEF Amended, Amending
<1>1. /\ stack'[n] = r /\ \A k \in 1..(n-1) : stack'[k] = stack[k]
      /\ Depth = 1..n /\ Depth' = 1..n /\ stack[n] = Top
  <2>1. /\ Len(stack') = Len(stack)
        /\ \A k \in 1..Len(stack) : stack'[k] = IF k = n THEN r ELSE stack[k]
    BY <1>n, ExceptSeq DEF Amended, Amending, IInv, TypeOK
  <2> QED BY <1>n, <2>1 DEF Depth, Top
<1>2. In(Top.chain) \subseteq In(r.chain)
  <2>1. Top.chain \in Chains /\ Top.frame \in Frames \cup {Main}
    BY TopView DEF Amended, Amending
  <2>2. In(Append(Top.chain, Top.frame)) = In(Top.chain) \cup {Top.frame}
    BY <2>1, InAppend
  <2> QED BY <2>2
<1>3. Nested'
  <2> SUFFICES ASSUME NEW k \in 1..n, stack'[k].env = Main
               PROVE  /\ Main \in In(stack'[k].chain)
                      /\ \A j \in 1..k : In(stack'[j].chain) \subseteq In(stack'[k].chain)
    BY <1>1 DEF Nested, In
  <2>0. stack[k].env = Main
    <3>1. k = n \/ k \in 1..(n-1)
      OBVIOUS
    <3> QED BY <1>1, <3>1 DEF Amended, Amending
  <2>1. /\ Main \in In(stack[k].chain)
        /\ \A j \in 1..k : In(stack[j].chain) \subseteq In(stack[k].chain)
    BY <1>1, <2>0 DEF Bound, Nested
  <2>2. CASE k = n
    <3>1. \A j \in 1..k : j = n \/ j \in 1..(n-1)
      BY <2>2
    <3> QED BY <1>1, <1>2, <2>1, <2>2, <3>1
  <2>3. CASE k # n
    <3>1. k \in 1..(n-1) /\ \A j \in 1..k : j \in 1..(n-1)
      BY <2>3
    <3> QED BY <1>1, <2>1, <3>1
  <2> QED BY <2>2, <2>3
<1>4. Aimed'
  <2> SUFFICES ASSUME NEW k \in 1..n PROVE OnTarget(stack[k])'
    BY <1>1 DEF Aimed
  <2>1. CASE k = n
    BY <1>1, <2>1 DEF OnTarget, Amended, Amending
  <2>2. CASE k # n
    <3>1. /\ k \in Depth /\ stack'[k] = stack[k] /\ OnTarget(stack[k])
      BY <1>n, <1>1, <2>2 DEF Bound, Aimed
    <3>2. In(stack[k].chain) \cap {Top.frame} = {}
      <4>1. Top.frame \in Locals(Top)
        BY ScopingAssumption DEF Locals
      <4> QED BY <1>n, <2>2, <3>1, <4>1, OutsideTop
    <3> QED BY <3>1, <3>2, Steady
  <2> QED BY <2>1, <2>2
<1> QED BY <1>3, <1>4

(* A step that leaves the forms alone. *)
LEMMA SameForms ==
  ASSUME NEW G \in SUBSET Closures, IInv(G), Bound, stack' = stack, NEW T, Others(T),
         \A k \in Depth : stack[k].kind = "setq" => In(stack[k].chain) \cap T = {}
  PROVE  Nested' /\ Aimed' /\ Depth' = Depth
<1>1. Depth' = Depth
  BY DEF Depth
<1>2. Nested'
  <2> SUFFICES ASSUME NEW k \in Depth, stack'[k].env = Main
               PROVE  /\ Main \in In(stack'[k].chain)
                      /\ \A j \in 1..k : In(stack'[j].chain) \subseteq In(stack'[k].chain)
    BY <1>1 DEF Nested, In
  <2> QED BY DEF Bound, Nested
<1>3. ASSUME NEW k \in Depth PROVE OnTarget(stack[k])'
  <2>1. OnTarget(stack[k]) /\ stack'[k] = stack[k]
    BY DEF Bound, Aimed
  <2>2. CASE stack[k].kind = "setq"
    BY <2>1, <2>2, Steady
  <2>3. CASE stack[k].kind # "setq"
    BY <2>1, <2>3 DEF OnTarget
  <2> QED BY <2>2, <2>3
<1> QED BY <1>1, <1>2, <1>3 DEF Aimed

(* The table a setq stores into, and how that changes lookups.             *)
LEMMA SetqStored ==
  ASSUME NEW G \in SUBSET Closures, IInv(G), Bound, NEW v \in Values, SetqStore(v)
  PROVE  /\ StoredIn(Top) \in Tables /\ Top.name \in Names
         /\ tables'[StoredIn(Top)][Top.name] = v
         /\ \A t \in Tables, n \in Names :
              t # StoredIn(Top) \/ n # Top.name => tables'[t][n] = tables[t][n]
         /\ Top.target # None => tables[StoredIn(Top)][Top.name] # Unbound
         /\ Top.target = None => StoredIn(Top) = Top.env
         /\ OnTarget(Top)
<1>1. Top \in Activation /\ Top.kind = "setq" /\ Top.chain \in Chains
  BY TopView DEF SetqStore
<1>2. OnTarget(Top)
  BY StackFacts DEF SetqStore, Bound, Aimed, Top
<1>3. StoredIn(Top) \in Tables /\ Top.name \in Names
  BY <1>1, <1>2 DEF StoredIn, OnTarget, Activation, Tables
<1>4. ASSUME Top.target # None PROVE tables[StoredIn(Top)][Top.name] # Unbound
  <2>1. Find(Top.chain, tables, Top.name) = Top.target
    BY <1>1, <1>2, <1>4 DEF OnTarget
  <2> QED BY <1>1, <1>4, <2>1, FindFound DEF StoredIn, Chains
<1>5. Top.target = None => StoredIn(Top) = Top.env
  BY DEF StoredIn
<1>6. tables \in [Tables -> [Names -> Slot]]
  BY DEF IInv, TypeOK
<1>7. tables' = [tables EXCEPT ![StoredIn(Top)][Top.name] = v]
  BY DEF SetqStore
<1>8. /\ tables'[StoredIn(Top)][Top.name] = v
      /\ \A t \in Tables, n \in Names :
              t # StoredIn(Top) \/ n # Top.name => tables'[t][n] = tables[t][n]
  BY <1>3, <1>6, <1>7
<1> QED BY <1>2, <1>3, <1>4, <1>5, <1>8

LEMMA SetqStoreBound ==
  ASSUME NEW G \in SUBSET Closures, IInv(G), Alive, Bound, NEW v \in Values, SetqStore(v)
  PROVE  Bound'
<1>n. PICK n \in Nat : n = Len(stack) /\ n > 0
  BY EmptyStack DEF SetqStore
<1>1. /\ \A k \in 1..(n-1) : stack'[k] = stack[k]
      /\ Depth = 1..n /\ Depth' = 1..(n-1) /\ stack[n] = Top
  BY <1>n, StackFacts DEF SetqStore, Depth, Top
<1> DEFINE d == StoredIn(Top)
<1>2. /\ d \in Tables /\ Top.name \in Names
      /\ tables'[d][Top.name] = v
      /\ \A t \in Tables, m \in Names :
           t # d \/ m # Top.name => tables'[t][m] = tables[t][m]
      /\ Top.target # None => tables[d][Top.name] # Unbound
      /\ Top.target = None => d = Top.env
      /\ OnTarget(Top)
  BY SetqStored
<1>v. v # Null /\ v # Unbound /\ Top.kind = "setq" /\ Top.env \in Envs
  BY TopView, ScopingAssumption DEF SetqStore
<1> HIDE DEF d
<1>3. Nested'
  <2> SUFFICES ASSUME NEW k \in 1..(n-1), stack'[k].env = Main
               PROVE  /\ Main \in In(stack'[k].chain)
                      /\ \A j \in 1..k : In(stack'[j].chain) \subseteq In(stack'[k].chain)
    BY <1>1 DEF Nested, In
  <2>1. k \in 1..n /\ \A j \in 1..k : j \in 1..(n-1)
    OBVIOUS
  <2> QED BY <1>1, <2>1 DEF Bound, Nested
<1>4. Aimed'
  <2> SUFFICES ASSUME NEW k \in 1..(n-1), stack[k].kind = "setq"
               PROVE  OnTarget(stack[k])'
    BY <1>1 DEF Aimed, OnTarget
  <2>1. /\ k \in Depth /\ stack'[k] = stack[k] /\ OnTarget(stack[k]) /\ n \in Depth
        /\ stack[k] \in Activation
    <3>1. k \in Depth /\ n \in Depth
      BY <1>n, <1>1
    <3>2. stack[k] \in Activation
      BY <3>1, ElementOfSeq DEF IInv, TypeOK, Depth
    <3> QED BY <1>1, <3>1, <3>2 DEF Bound, Aimed
  <2> DEFINE c == stack[k].chain
             m == stack[k].name
  <2>2. m \in Names /\ c \in Chains
    BY <2>1 DEF OnTarget, Activation, Chains
  <2>3. In(c) \subseteq Frames \cup {Main} /\ (Top.env = Main => In(c) \subseteq In(Top.chain))
    BY <1>1, <1>n, <2>1, <2>2, InChain DEF Bound, Nested
  <2>4. \/ \A t \in In(c) : tables'[t][m] = Unbound <=> tables[t][m] = Unbound
        \/ stack[k].target = None /\ d = Main
    <3> SUFFICES ASSUME NEW t \in In(c),
                        ~(tables'[t][m] = Unbound <=> tables[t][m] = Unbound)
                 PROVE  stack[k].target = None /\ d = Main
      OBVIOUS
    <3>1. t \in Tables
      BY <2>3 DEF Tables, Envs
    <3>2. t = d /\ m = Top.name /\ tables[d][m] = Unbound
      BY <1>2, <1>v, <2>2, <3>1
    <3>3. Top.target = None /\ d = Top.env
      BY <1>2, <3>2
    <3>4. d = Main
      BY <1>v, <2>3, <3>2, <3>3, ScopingAssumption DEF Envs
    <3>5. ASSUME stack[k].target # None PROVE FALSE
      <4>1. Find(c, tables, m) = stack[k].target /\ Find(c, tables, m) # None
        BY <2>1, <3>5 DEF OnTarget
      <4>2. PICK u \in In(c) : tables[u][m] # Unbound
        <5> HIDE DEF c, m
        <5> QED BY <2>2, <4>1, FindFound DEF In, Chains
      <4>3. u = Main
        BY <1>2, <1>v, <2>3, <3>2, <3>3, <3>4, <4>2 DEF OnTarget
      <4> QED BY <3>2, <3>4, <4>2, <4>3
    <3> QED BY <3>4, <3>5
  <2>5. CASE \A t \in In(c) : tables'[t][m] = Unbound <=> tables[t][m] = Unbound
    <3>1. Find(c, tables', m) = Find(c, tables, m)
      BY <2>5, SameFind
    <3> QED BY <2>1, <2>5, <3>1 DEF OnTarget
  <2>6. CASE stack[k].target = None /\ d = Main
    <3>1. \A t \in In(c) \ {Main} : tables'[t][m] = tables[t][m]
      BY <1>2, <2>2, <2>3, <2>6 DEF Tables, Envs
    <3> QED BY <2>1, <2>6, <3>1 DEF OnTarget
  <2> QED BY <2>4, <2>5, <2>6
<1>5. Labelled'
  <2> SUFFICES ASSUME NEW t \in Tables, NEW m \in Names, tables'[t][m] = Null
               PROVE  \E k \in 1..(n-1) : Source(k, t, m)'
    BY <1>1 DEF Labelled
  <2>1. tables[t][m] = Null
    BY <1>2, <1>v
  <2>2. PICK k \in 1..n : Source(k, t, m)
    BY <1>1, <2>1 DEF Bound, Labelled
  <2>3. k # n
    BY <1>1, <1>v, <2>2 DEF Source, Labels, Passed
  <2>4. k \in 1..(n-1) /\ k \in Depth /\ \A i \in 1..k : stack'[i] = stack[i]
    BY <1>1, <2>3
  <2> QED BY <2>2, <2>4, SameSource
<1> QED BY <1>3, <1>4, <1>5 DEF Bound

(* The table of the innermost form. *)
LEMMA TopTable ==
  ASSUME NEW G \in SUBSET Closures, IInv(G), stack # <<>>, Top.kind # "setq"
  PROVE  Top.frame \in Frames /\ Top.frame \in Tables
BY TopView DEF FormOK, IInv, TypeOK, Tables

(* The forms around the innermost one are left alone by its steps. *)
LEMMA BelowTop ==
  ASSUME NEW G \in SUBSET Closures, IInv(G), NEW k \in Depth, k # Len(stack),
         \A i \in Depth \ {Len(stack)} : stack'[i] = stack[i]
  PROVE  \A i \in 1..k : stack'[i] = stack[i]
<1>1. \A i \in 1..k : i \in Depth \ {Len(stack)}
  BY EmptyStack DEF Depth
<1> QED BY <1>1

LEMMA LetLabelBound ==
  ASSUME NEW G \in SUBSET Closures, IInv(G), Alive, Bound, NEW n \in Names, LetLabel(n)
  PROVE  Bound'
<1>1. /\ stack # <<>> /\ Top.kind \in {"let", "let*"} /\ ~Top.body /\ Top.name = None
      /\ tables' = [tables EXCEPT ![Top.frame][n] = Null]
      /\ stack' = [stack EXCEPT ![Len(stack)].name = n]
  BY DEF LetLabel, Binding
<1>2. PICK r : Amended(r) /\ r.chain = Top.chain
  BY LetLabelInv
<1>3. Top.frame \in Frames /\ Top.frame \in Tables
  BY <1>1, TopTable
<1>4. tables' = [tables EXCEPT ![Top.frame] = [tables[Top.frame] EXCEPT ![n] = Null]]
  BY <1>1, <1>3 DEF IInv, TypeOK
<1>5. Nested' /\ Aimed'
  BY <1>1, <1>2, <1>3, <1>4, OthersBut, AmendedAimed
<1>6. /\ Len(stack) \in Depth /\ Depth' = Depth /\ stack[Len(stack)] = Top
      /\ Labels(stack'[Len(stack)], Top.frame, n)
      /\ \A k \in Depth \ {Len(stack)} : stack'[k] = stack[k]
  BY <1>1, StackFacts DEF Labels, Top, Depth, IInv, TypeOK, Activation
<1>7. Labelled'
  <2> SUFFICES ASSUME NEW t \in Tables, NEW m \in Names, tables'[t][m] = Null
               PROVE  \E k \in Depth : Source(k, t, m)'
    BY <1>6 DEF Labelled
  <2>1. CASE t = Top.frame /\ m = n
    BY <1>6, <2>1 DEF Source, Labels
  <2>2. CASE ~(t = Top.frame /\ m = n)
    <3>1. tables[t][m] = Null
      BY <1>3, <1>4, <2>2 DEF IInv, TypeOK
    <3>2. PICK k \in Depth : Source(k, t, m)
      BY <3>1 DEF Bound, Labelled
    <3>3. k # Len(stack)
      BY <1>1, <1>6, <3>2, ScopingAssumption DEF Source, Labels, Passed
    <3> QED BY <1>6, <3>2, <3>3, BelowTop, SameSource
  <2> QED BY <2>1, <2>2
<1> QED BY <1>5, <1>7 DEF Bound

LEMMA LetValueBound ==
  ASSUME NEW G \in SUBSET Closures, IInv(G), Alive, Bound, NEW v \in Values, LetValue(v)
  PROVE  Bound'
<1>1. /\ stack # <<>> /\ Top.kind \in {"let", "let*"} /\ Top.name # None
      /\ tables' = [tables EXCEPT ![Top.frame][Top.name] = v]
      /\ stack' = [stack EXCEPT ![Len(stack)].name = None]
  BY DEF LetValue, Binding
<1>2. PICK r : Amended(r) /\ r.chain = Top.chain
  BY LetValueInv
<1>3. /\ Top.frame \in Frames /\ Top.frame \in Tables /\ Top.name \in Names
      /\ v # Null
  BY <1>1, TopTable, TopView, ScopingAssumption DEF Activation
<1>4. tables' = [tables EXCEPT ![Top.frame] = [tables[Top.frame] EXCEPT ![Top.name] = v]]
  BY <1>1, <1>3 DEF IInv, TypeOK
<1>5. Nested' /\ Aimed'
  BY <1>1, <1>2, <1>3, <1>4, OthersBut, AmendedAimed
<1>6. /\ Len(stack) \in Depth /\ Depth' = Depth /\ stack[Len(stack)] = Top
      /\ \A k \in Depth \ {Len(stack)} : stack'[k] = stack[k]
  BY <1>1, StackFacts DEF Top, Depth, IInv, TypeOK
<1>7. Labelled'
  <2> SUFFICES ASSUME NEW t \in Tables, NEW m \in Names, tables'[t][m] = Null
               PROVE  \E k \in Depth : Source(k, t, m)'
    BY <1>6 DEF Labelled
  <2>1. tables[t][m] = Null /\ ~(t = Top.frame /\ m = Top.name)
    BY <1>3, <1>4 DEF IInv, TypeOK
  <2>2. PICK k \in Depth : Source(k, t, m)
    BY <2>1 DEF Bound, Labelled
  <2>3. k # Len(stack)
    BY <1>1, <1>6, <2>1, <2>2 DEF Source, Labels, Passed
  <2> QED BY <1>6, <2>2, <2>3, BelowTop, SameSource
<1> QED BY <1>5, <1>7 DEF Bound

(* The bindings are done, or the arguments: the table is pushed.           *)
LEMMA BodyBound ==
  ASSUME NEW G \in SUBSET Closures, IInv(G), Alive, Bound, LetBody \/ CallBody
  PROVE  Bound'
<1>1. /\ stack # <<>> /\ Top.kind # "setq" /\ tables' = tables
      /\ Top.kind # "call" => Top.name = None
      /\ \A k \in Depth \ {Len(stack)} : stack'[k] = stack[k]
  BY StackFacts DEF LetBody, CallBody, Binding, InArgs, Depth, IInv, TypeOK
<1>2. PICK r : Amended(r) /\ r.chain \in {Top.chain, Append(Top.chain, Top.frame)}
  BY LetBodyInv, CallBodyInv
<1>3. Top.frame \in Frames /\ Others({Top.frame})
  BY <1>1, TopTable DEF Others
<1>4. Nested' /\ Aimed'
  BY <1>1, <1>2, <1>3, AmendedAimed
<1>5. Depth' = Depth
  BY <1>2, ExceptSeq DEF Amended, Amending, Depth, IInv, TypeOK
<1>6. Labelled'
  <2> SUFFICES ASSUME NEW t \in Tables, NEW m \in Names, tables[t][m] = Null
               PROVE  \E k \in Depth : Source(k, t, m)'
    BY <1>1, <1>5 DEF Labelled
  <2>1. PICK k \in Depth : Source(k, t, m)
    BY DEF Bound, Labelled
  <2>2. CASE k # Len(stack)
    BY <1>1, <2>1, <2>2, BelowTop, SameSource
  <2>3. CASE k = Len(stack)
    <3>1. Passed(k, t) /\ stack[k] = Top
      BY <1>1, <2>1, <2>3, ScopingAssumption DEF Source, Labels, Top
    <3>2. stack'[k].kind = "call" /\ stack'[k].frame = t
      BY <1>2, <2>3, <3>1 DEF Passed, Amended, Amending, IInv, TypeOK, Depth
    <3>3. \A i \in 1..(k-1) : i \in Depth \ {Len(stack)}
      BY <2>3, EmptyStack DEF Depth
    <3> QED BY <1>1, <3>1, <3>2, <3>3 DEF Source, Passed, Evaluates
  <2> QED BY <2>2, <2>3
<1> QED BY <1>4, <1>6 DEF Bound

(* What a lookup from the running form finds is not the empty pointer of a *)
(* let, whose table is not pushed yet.                                     *)
LEMMA NullLabelled ==
  ASSUME NEW G \in SUBSET Closures, IInv(G), Alive, Bound
  PROVE  NullOnlyUnderLetStar
<1> SUFFICES ASSUME NEW n \in Names, NEW t, t = Find(envs[Running], tables, n),
                    t # None, tables[t][n] = Null
             PROVE  \E k \in 1..Len(stack) :
                      /\ Evaluates(stack[k])
                      /\ \/ stack[k].frame = t /\ stack[k].name = n
                         \/ \E j \in (k+1)..Len(stack) :
                              stack[j].kind = "call" /\ stack[j].frame = t
  BY DEF NullOnlyUnderLetStar, Evaluates
<1>1. PICK c \in Chains : c = envs[Running]
  BY RunningType
<1>2. PICK i \in 1..Len(c) : c[i] = t
  BY <1>1, FindFound DEF Chains
<1>3. t \in Tables /\ t \in Frames \cup {Main}
  BY <1>2, ElementOfSeq DEF Chains, Tables, Envs
<1>4. PICK k \in Depth : Source(k, t, n)
  BY <1>3 DEF Bound, Labelled
<1>5. t # Main /\ t # None
  BY EnvsNotNull DEF Bound, Envs
<1>6. CASE Passed(k, t)
  <2>1. PICK m \in 1..(k-1) : Evaluates(stack[m])
    BY <1>6 DEF Passed
  <2>2. m \in 1..Len(stack) /\ k \in (m+1)..Len(stack)
    BY <2>1, EmptyStack DEF Depth
  <2> QED BY <1>6, <2>1, <2>2 DEF Passed
<1>7. CASE Labels(stack[k], t, n)
  <2>1. PICK j \in Depth : Puts(stack[j], t)
    BY <1>1, <1>2, <1>5, RunningWithin DEF Within, Depth
  <2>2. t \in Locals(stack[j]) /\ t \in Locals(stack[k])
    BY <1>3, <1>5, <1>7, <2>1, PutLocal DEF Labels, Locals
  <2>3. j = k
    BY <2>2 DEF IInv, Shape, Distinct
  <2>4. stack[k].empty = None
    BY <1>7 DEF IInv, Shape, Nesting, FormOK, CallerIs, Labels
  <2>5. stack[k].kind = "let*" /\ stack[k].name = n /\ n # None
    BY <1>5, <1>7, <2>1, <2>3, <2>4, ScopingAssumption DEF Labels, Puts, Pushed
  <2> QED BY <1>7, <2>5 DEF Labels, Evaluates, Depth
<1> QED BY <1>4, <1>6, <1>7 DEF Source

(* An argument goes into the table of a call, which no chain holds yet; it *)
(* is the empty pointer only while a let* evaluates a label.               *)
LEMMA CallArgBound ==
  ASSUME NEW G \in SUBSET Closures, IInv(G), Alive, Bound, NEW n \in Names, NEW v \in Values \cup {Null}, CallArg(n, v)
  PROVE  Bound'
<1>1. /\ stack # <<>> /\ Top.kind = "call" /\ stack' = stack
      /\ tables' = [tables EXCEPT ![Top.frame][n] = v]
      /\ v \in Values \cup Meaning
  BY DEF CallArg, InArgs
<1>2. Top.frame \in Frames /\ Top.frame \in Tables
  BY <1>1, TopTable
<1>3. tables' = [tables EXCEPT ![Top.frame] = [tables[Top.frame] EXCEPT ![n] = v]]
  BY <1>1, <1>2 DEF IInv, TypeOK
<1>4. ASSUME NEW k \in Depth, stack[k].kind = "setq"
      PROVE  In(stack[k].chain) \cap {Top.frame} = {}
  <2>1. k # Len(stack) /\ Top.frame \in Locals(Top)
    BY <1>1, <1>2, <1>4, ScopingAssumption DEF Top, Locals
  <2> QED BY <2>1, OutsideTop
<1>5. Nested' /\ Aimed' /\ Depth' = Depth
  BY <1>1, <1>3, <1>4, OthersBut, SameForms
<1>6. ASSUME v = Null PROVE Passed(Len(stack), Top.frame)
  <2>1. PICK m \in Names : LET t == Find(envs[Top.env], tables, m)
                           IN  t # None /\ tables[t][m] = Null
    BY <1>1, <1>6, ScopingAssumption DEF Meaning
  <2>2. PICK k \in 1..Len(stack) : Evaluates(stack[k])
    BY <1>1, <2>1, NullLabelled DEF NullOnlyUnderLetStar, Running, Evaluates
  <2>3. k \in 1..(Len(stack) - 1)
    BY <1>1, <2>2, EmptyStack DEF Evaluates, Top
  <2> QED BY <1>1, <2>2, <2>3 DEF Passed, Top
<1>7. Labelled'
  <2> SUFFICES ASSUME NEW t \in Tables, NEW m \in Names, tables'[t][m] = Null
               PROVE  \E k \in Depth : Source(k, t, m)
    BY <1>1, <1>5 DEF Labelled, Source, Labels, Passed, Evaluates
  <2>1. CASE tables[t][m] = Null
    BY <2>1 DEF Bound, Labelled
  <2>2. CASE tables[t][m] # Null
    <3>1. t = Top.frame /\ v = Null
      BY <1>2, <1>3, <2>2 DEF IInv, TypeOK
    <3> QED BY <1>1, <1>6, <3>1, StackFacts DEF Source
  <2> QED BY <2>1, <2>2
<1> QED BY <1>5, <1>7 DEF Bound

(* The `top' of a closure is in no chain. *)
LEMMA ClosureBound ==
  ASSUME NEW G \in SUBSET Closures, IInv(G), Bound, stack' = stack, NEW c \in Closures, NEW row,
         tables' = [tables EXCEPT ![c] = row], \A n \in Names : row[n] # Null
  PROVE  Bound'
<1>1. ASSUME NEW k \in Depth PROVE In(stack[k].chain) \cap {c} = {}
  <2>1. stack[k] \in Activation
    BY ElementOfSeq DEF IInv, TypeOK, Depth
  <2> QED BY <2>1, InChain, ScopingAssumption DEF Activation, Chains
<1>2. Nested' /\ Aimed' /\ Depth' = Depth
  BY <1>1, OthersBut, SameForms
<1>3. \A t \in Tables, m \in Names : tables'[t][m] = Null => tables[t][m] = Null
  BY DEF IInv, TypeOK
<1>4. Labelled'
  BY <1>2, <1>3 DEF Bound, Labelled, Source, Labels, Passed, Evaluates
<1> QED BY <1>2, <1>4 DEF Bound

LEMMA SetqFindEntered ==
  ASSUME NEW G \in SUBSET Closures, IInv(G), NEW n \in Names, SetqFind(n)
  PROVE  \E r : /\ Entered(r) /\ r.kind = "setq" /\ r.name = n
               /\ r.target = Find(envs[Running], tables, n)
               /\ r.chain = envs[Running]
<1> DEFINE r == [kind |-> "setq", env |-> Running, caller |-> Running, frame |-> None,
                 empty |-> None, body |-> FALSE, name |-> n, target |-> Find(envs[Running], tables, n),
                 before |-> envs[Running], chain |-> envs[Running]]
<1>1. PICK q : Entered(q)
  BY SetqFindInv
<1>2. stack' = Append(stack, r) /\ stack \in Seq(Activation)
  BY DEF SetqFind, IInv, TypeOK
<1>3. q = r
  <2>1. stack' = Append(stack, q)
    BY <1>1 DEF Entered, Entering
  <2>2. Append(stack, q)[Len(stack) + 1] = q /\ Append(stack, r)[Len(stack) + 1] = r
    BY <1>2
  <2> HIDE DEF r
  <2> QED BY <1>2, <2>1, <2>2
<1>4. /\ q.kind = "setq" /\ q.name = n
      /\ q.target = Find(envs[Running], tables, n) /\ q.chain = envs[Running]
  BY <1>3
<1> QED BY <1>1, <1>4

LEMMA NotCall ==
  ASSUME NEW r, Entered(r), r.kind \notin {"call", "macro"}
  PROVE  r.env = Running
BY DEF Entered, Entering, CallerIs

LEMMA NextBound ==
  ASSUME NEW G \in SUBSET Closures, ~Escaping, IInv(G), Alive, Bound, [Next]_vars
  PROVE  Bound'
<1>1. ASSUME NEW n \in Names, SetqFind(n) PROVE Bound'
  <2>1. PICK r : /\ Entered(r) /\ r.kind = "setq" /\ r.name = n
                 /\ r.target = Find(envs[Running], tables, n)
                 /\ r.chain = envs[Running]
    BY <1>1, SetqFindEntered
  <2>2. tables' = tables /\ Others({})
    BY <1>1 DEF SetqFind, Others
  <2>3. PICK c \in Chains : c = envs[Running]
    BY RunningType
  <2>4. ASSUME Find(c, tables, n) = None PROVE \A t \in In(c) : tables[t][n] = Unbound
    <3>1. Holders(c, tables, n) = {}
      <4>1. ASSUME NEW i \in 1..Len(c), Find(c, tables, n) = c[i] PROVE FALSE
        BY <2>4, <4>1, ElementOfSeq, ScopingAssumption DEF Chains
      <4> QED BY <4>1, FindNearest DEF Chains, Holders
    <3> QED BY <3>1 DEF Holders, In
  <2>5. OnTarget(r)'
    BY <2>1, <2>2, <2>3, <2>4 DEF OnTarget
  <2>6. r.env = Running
    BY <2>1, NotCall
  <2> QED BY <2>1, <2>2, <2>5, <2>6, EnteredBound
<1>2. ASSUME NEW v \in Values, SetqStore(v) PROVE Bound'
  BY <1>2, SetqStoreBound
<1>3. ASSUME NEW kind \in {"let", "let*"}, NEW f \in Frames, LetEnter(kind, f)
      PROVE  Bound'
  <2>1. PICK r : Entered(r) /\ r.kind = kind /\ r.frame = f /\ r.chain = EntryChain(kind, f)
    BY <1>3, LetEnterInv
  <2>2. In(envs[Running]) \subseteq In(r.chain)
    BY <2>1, RunningType, InAppend DEF EntryChain, AddEnvMap
  <2>3. {f} \in SUBSET (Frames \ live) /\ Others({f}) /\ tables'[f] = EmptyTable
    BY <1>3, OthersBut DEF LetEnter, IInv, TypeOK, Tables
  <2>4. OnTarget(r)'
    BY <2>1 DEF OnTarget
  <2>5. \A m \in Names : tables'[f][m] # Null
    BY <2>3, ScopingAssumption DEF EmptyTable
  <2>6. r.env = Running
    BY <2>1, NotCall
  <2> QED BY <2>1, <2>2, <2>3, <2>4, <2>5, <2>6, EnteredBound
<1>4. ASSUME NEW c \in Closures, NEW f \in Frames, Call(c, f) PROVE Bound'
  <2>1. PICK r : Entered(r) /\ r.kind = "call" /\ r.env = c
    BY <1>4, CallInv
  <2>2. {f} \in SUBSET (Frames \ live) /\ Others({f}) /\ tables'[f] = EmptyTable
    BY <1>4, OthersBut DEF Call, IInv, TypeOK, Tables
  <2>3. OnTarget(r)' /\ r.env # Main
    BY <2>1, ScopingAssumption DEF OnTarget
  <2>4. \A m \in Names : tables'[f][m] # Null
    BY <2>2, ScopingAssumption DEF EmptyTable
  <2> QED BY <2>1, <2>2, <2>3, <2>4, EnteredBound
<1>15. ASSUME NEW c \in Closures, NEW f \in Frames, NEW g \in Frames,
              NEW bound \in [Names -> Values \cup {Unbound}], CallFromCompiled(c, f, g, bound)
       PROVE  Bound'
  <2>1. PICK r : Entered(r) /\ r.kind = "call" /\ r.env = c
    BY <1>15, CallFromCompiledInv
  <2>2. /\ {f, g} \in SUBSET (Frames \ live)
        /\ Others({f, g}) /\ tables'[f] = bound /\ tables'[g] = EmptyTable
    BY <1>15 DEF CallFromCompiled, IInv, TypeOK, Tables, Others
  <2>3. OnTarget(r)' /\ r.env # Main
    BY <2>1, ScopingAssumption DEF OnTarget
  <2>4. \A t \in {f, g}, m \in Names : tables'[t][m] # Null
    BY <2>2, ScopingAssumption DEF EmptyTable
  <2> QED BY <2>1, <2>2, <2>3, <2>4, EnteredBound
<1>5. ASSUME NEW n \in Names, LetLabel(n) PROVE Bound'
  BY <1>5, LetLabelBound
<1>6. ASSUME NEW v \in Values, LetValue(v) PROVE Bound'
  BY <1>6, LetValueBound
<1>7. CASE LetBody
  BY <1>7, BodyBound
<1>8. CASE CallBody
  BY <1>8, BodyBound
<1>9. CASE LetExit
  BY <1>9, LetExitInv, LeftBound DEF LetExit
<1>10. CASE CallReturn
  BY <1>10, CallReturnInv, LeftBound DEF CallReturn
<1>11. ASSUME NEW c \in Closures, MakeClosure(c) PROVE Bound'
  <2>1. stack' = stack /\ tables' = [tables EXCEPT ![c] = tables[Running]] /\ Running \in Envs
    BY <1>11, RunningType DEF MakeClosure
  <2>2. \A n \in Names : tables[Running][n] # Null
    BY <2>1, EnvsNotNull DEF Bound
  <2> QED BY <2>1, <2>2, ClosureBound
<1>12. ASSUME NEW c \in Closures, DropClosure(c) PROVE Bound'
  <2>1. \A n \in Names : EmptyTable[n] # Null
    BY ScopingAssumption DEF EmptyTable
  <2> QED BY <1>12, <2>1, ClosureBound DEF DropClosure
<1>13. ASSUME NEW n \in Names, NEW v \in Values \cup {Null}, CallArg(n, v) PROVE Bound'
  BY <1>13, CallArgBound
<1>14. CASE UNCHANGED vars
  <2>1. stack' = stack /\ tables' = tables /\ Others({})
    BY <1>14 DEF vars, Others
  <2>2. Nested' /\ Aimed' /\ Depth' = Depth
    BY <2>1, SameForms
  <2> QED BY <2>1, <2>2 DEF Bound, Labelled, Source, Labels, Passed, Evaluates
<1> QED BY <1>1, <1>2, <1>3, <1>4, <1>5, <1>6, <1>7, <1>8, <1>9, <1>10, <1>11,
           <1>12, <1>13, <1>14, <1>15 DEF Next

-----------------------------------------------------------------------------
LEMMA ReadBack ==
  ASSUME NEW G \in SUBSET Closures, IInv(G), Bound, NEW v \in Values, SetqStore(v)
  PROVE  IF Top.target = None /\ Top.env # Main
         THEN \A e \in Envs :
                Find(envs[e], tables', Top.name) = Find(envs[e], tables, Top.name)
         ELSE LET t == Find(envs[Top.env], tables', Top.name)
              IN  /\ t = IF Top.target = None THEN Main ELSE Top.target
                  /\ tables'[t][Top.name] \in Values
<1> DEFINE d == StoredIn(Top)
           m == Top.name
<1>1. /\ d \in Tables /\ m \in Names /\ tables'[d][m] = v
      /\ \A t \in Tables, n \in Names :
           t # d \/ n # m => tables'[t][n] = tables[t][n]
      /\ Top.target # None => tables[d][m] # Unbound
      /\ Top.target = None => d = Top.env
      /\ OnTarget(Top)
  BY SetqStored
<1>2. Top.kind = "setq" /\ stack # <<>> /\ v # Unbound
  BY ScopingAssumption DEF SetqStore
<1>3. PICK c \in Chains : c = Top.chain /\ c = envs[Top.env]
  BY <1>2, TopView
<1>d. d = IF Top.target = None THEN Top.env ELSE Top.target
  BY DEF StoredIn
<1> HIDE DEF d, m
<1>4. In(c) \subseteq Tables
  BY InChain DEF Tables, Envs
<1>5. CASE Top.target = None /\ Top.env # Main
  <2>1. d \in Closures
    BY <1>2, <1>5, <1>d, TopView DEF Envs
  <2> SUFFICES ASSUME NEW e \in Envs PROVE Find(envs[e], tables', m) = Find(envs[e], tables, m)
    BY <1>5 DEF m
  <2>2. In(envs[e]) \subseteq Frames \cup {Main}
    BY InChain DEF IInv, TypeOK, Chains
  <2>3. \A t \in In(envs[e]) : tables'[t][m] = tables[t][m]
    BY <1>1, <2>1, <2>2, ScopingAssumption DEF Tables, Envs
  <2> QED BY <2>3, SameFind
<1>6. CASE Top.target = None /\ Top.env = Main
  <2>1. d = Main /\ \A t \in In(c) \ {Main} : tables'[t][m] = Unbound
    BY <1>1, <1>2, <1>3, <1>4, <1>6, <1>d DEF OnTarget, m
  <2>2. Main \in In(c)
    BY <1>2, <1>3, <1>6, StackFacts DEF Bound, Nested, Top
  <2>3. Find(c, tables', m) = Main
    <3>1. Holders(c, tables', m) # {}
      BY <1>1, <1>2, <2>1, <2>2 DEF Holders, In
    <3>2. PICK i \in Holders(c, tables', m) : Find(c, tables', m) = c[i]
      BY <3>1, FindNearest DEF Chains
    <3>3. c[i] \in In(c) /\ tables'[c[i]][m] # Unbound
      BY <3>2 DEF Holders, In
    <3> QED BY <2>1, <3>2, <3>3
  <2> QED BY <1>1, <1>3, <1>6, <2>1, <2>3 DEF m
<1>7. CASE Top.target # None
  <2>1. d = Top.target /\ Find(c, tables, m) = d
    BY <1>1, <1>2, <1>3, <1>7, <1>d DEF OnTarget, m
  <2>2. \A t \in In(c) : tables'[t][m] = Unbound <=> tables[t][m] = Unbound
    BY <1>1, <1>2, <1>4, <1>7
  <2>3. Find(c, tables', m) = d
    BY <2>1, <2>2, SameFind
  <2> QED BY <1>1, <1>3, <1>7, <2>1, <2>3 DEF m
<1> QED BY <1>5, <1>6, <1>7

(* Only SetqStore leaves a setq. *)
LEMMA LeavesSetq ==
  ASSUME NEW G \in SUBSET Closures, IInv(G), [Next]_vars, stack # <<>>, Top.kind = "setq", stack' = Rest
  PROVE  \E v \in Values : SetqStore(v)
<1>n. PICK n \in Nat : n = Len(stack) /\ Len(stack') = n - 1
  BY StackFacts
<1>1. \A r : stack' # Append(stack, r)
  BY <1>n DEF IInv, TypeOK
<1>2. stack' # stack
  BY <1>n
<1>3. /\ \A m \in Names : ~SetqFind(m) /\ ~LetLabel(m)
      /\ \A v \in Values : ~LetValue(v)
      /\ \A kind \in {"let", "let*"}, f \in Frames : ~LetEnter(kind, f)
      /\ \A c \in Closures : ~MakeClosure(c) /\ ~DropClosure(c)
      /\ \A c \in Closures, f \in Frames : ~Call(c, f)
      /\ \A c \in Closures, f, g \in Frames : \A bound : ~CallFromCompiled(c, f, g, bound)
      /\ \A m \in Names, v \in Values \cup {Null} : ~CallArg(m, v)
      /\ ~LetBody /\ ~LetExit /\ ~CallBody /\ ~CallReturn /\ ~(UNCHANGED vars)
  <2>1. \A m \in Names : ~SetqFind(m) /\ ~LetLabel(m)
    BY <1>1 DEF SetqFind, LetLabel, Binding
  <2>2. \A kind \in {"let", "let*"}, f \in Frames : ~LetEnter(kind, f)
    BY <1>1 DEF LetEnter
  <2>3. /\ \A c \in Closures, f \in Frames : ~Call(c, f)
        /\ \A c \in Closures, f, g \in Frames : \A bound : ~CallFromCompiled(c, f, g, bound)
    BY <1>1 DEF Call, CallFromCompiled
  <2>4. /\ \A v \in Values : ~LetValue(v)
        /\ \A m \in Names, v \in Values \cup {Null} : ~CallArg(m, v)
        /\ ~LetBody /\ ~LetExit /\ ~CallBody /\ ~CallReturn
    BY DEF LetValue, Binding, CallArg, InArgs, LetBody, LetExit, CallBody, CallReturn
  <2>5. (\A c \in Closures : ~MakeClosure(c) /\ ~DropClosure(c)) /\ ~(UNCHANGED vars)
    BY <1>2 DEF MakeClosure, DropClosure, vars
  <2> QED BY <2>1, <2>2, <2>3, <2>4, <2>5
<1> QED BY <1>3 DEF Next

LEMMA BoundCorrect == ~Escaping => (Spec => [](IInv({}) /\ Alive /\ Bound))
<1> SUFFICES ASSUME ~Escaping PROVE Spec => [](IInv({}) /\ Alive /\ Bound)
  OBVIOUS
<1>0. {} \in SUBSET Closures
  OBVIOUS
<1>1. Init => Alive
  BY InitAlive
<1>2. Init => Bound
  <2> SUFFICES ASSUME Init PROVE Bound
    OBVIOUS
  <2>1. Depth = {}
    BY DEF Init, Depth
  <2>2. \A t \in Tables, n \in Names : tables[t][n] # Null
    BY ScopingAssumption DEF Init, EmptyTable
  <2> QED BY <2>1, <2>2 DEF Bound, Nested, Aimed, Labelled
<1>3. IInv({}) /\ Alive /\ Bound /\ [Next]_vars => Alive' /\ Bound'
  BY <1>0, NextAlive, NextBound
<1> QED BY <1>1, <1>2, <1>3, InvCorrect, PTL DEF Spec

(* As long as no closure is called that outlived a table it captured, the  *)
(* empty pointer that let and let* put under a label (special.cpp:262 and  *)
(* 292) is met by a lookup only while a let* evaluates the value of a      *)
(* label: under that very label, or under a parameter of a call made       *)
(* meanwhile, whose argument was the label (functional.cpp:27-29, 67-69).  *)
THEOREM NullHidden == ~Escaping => (Spec => []NullOnlyUnderLetStar)
<1>0. {} \in SUBSET Closures
  OBVIOUS
<1>1. IInv({}) /\ Alive /\ Bound => NullOnlyUnderLetStar
  BY <1>0, NullLabelled
<1> QED BY <1>1, BoundCorrect, PTL

(* Under the same condition an assignment takes effect where it was        *)
(* evaluated: setq keeps the iterator it looked up first (special.cpp:240) *)
(* while it evaluates the value, in which other assignments, bindings and  *)
(* calls may come and go, and the variable it then stores into is still    *)
(* the one a lookup of the name finds.                                     *)
THEOREM SetqKept == ~Escaping => (Spec => SetqReadBack)
<1> SUFFICES ASSUME ~Escaping PROVE Spec => SetqReadBack
  OBVIOUS
<1> DEFINE Step ==
      stack # <<>> /\ Top.kind = "setq" /\ stack' = Rest =>
      IF Top.target = None /\ Top.env # Main
      THEN \A e \in Envs :
             Find(envs[e], tables', Top.name) = Find(envs[e], tables, Top.name)
      ELSE LET t == Find(envs[Top.env], tables', Top.name)
           IN  /\ t = IF Top.target = None THEN Main ELSE Top.target
               /\ tables'[t][Top.name] \in Values
<1>0. {} \in SUBSET Closures
  OBVIOUS
<1>1. IInv({}) /\ Alive /\ Bound /\ [Next]_vars => [Step]_vars
  BY <1>0, LeavesSetq, ReadBack
<1>2. SetqReadBack <=> [][Step]_vars
  BY PTL DEF SetqReadBack
<1> QED BY <1>1, <1>2, BoundCorrect, PTL DEF Spec

(***************************************************************************)
(* Macro calls: what they leave on the environments of macros, and that no *)
(* pointer to a destroyed table is searched, as long as the program is     *)
(* plain.                                                                  *)
(***************************************************************************)
(* The global table is at the bottom of every environment that exists.     *)
Rooted(chain) == chain # <<>> /\ chain[1] = Main
Bottom ==
  /\ \A e \in made \cup {Main} : Rooted(envs[e])
  /\ \A k \in Depth : Rooted(stack[k].before)

(* A macro is not called while a call of it is in progress.                *)
Once ==
  \A k \in Depth : stack[k].kind = "macro" =>
    /\ stack[k].env \in MacroNames
    /\ \A j \in Depth : j < k => stack[j].env # stack[k].env

Macro == Bottom /\ Once
-----------------------------------------------------------------------------
LEMMA RootedConcat ==
  ASSUME NEW a \in Chains, NEW b \in Chains, Rooted(a)
  PROVE  a \o b \in Chains /\ Rooted(a \o b)
<1>1. /\ a \o b \in Chains /\ Len(a \o b) = Len(a) + Len(b)
      /\ Len(a) \in Nat /\ Len(b) \in Nat
      /\ \A i \in 1..Len(a) : (a \o b)[i] = a[i]
  BY ConcatProperties DEF Chains
<1>2. Len(a) > 0
  BY <1>1, EmptySeq DEF Rooted, Chains
<1>3. 1 \in 1..Len(a)
  BY <1>1, <1>2
<1> DEFINE s == a \o b
<1> HIDE DEF s
<1>4. s # <<>>
  BY <1>1, <1>2, EmptySeq DEF s
<1> QED BY <1>1, <1>3, <1>4 DEF Rooted, s

LEMMA RootedAppend ==
  ASSUME NEW a \in Chains, NEW t \in Frames \cup {Main}, Rooted(a)
  PROVE  Append(a, t) \in Chains /\ Rooted(Append(a, t))
<1>1. Append(a, t) = a \o <<t>>
  BY AppendIsConcat DEF Chains
<1>2. <<t>> \in Chains
  BY DEF Chains
<1> QED BY <1>1, <1>2, RootedConcat

(* Popping as many tables as the calling environment has leaves its first. *)
LEMMA RemoveButOne ==
  ASSUME NEW S, NEW a \in Seq(S), NEW b \in Seq(S), b # <<>>, NEW f \in S
  PROVE  RemoveEnvs((a \o b) \o <<f>>, Len(b)) = Append(a, b[1])
<1> DEFINE s == (a \o b) \o <<f>>
           t == Append(a, b[1])
<1>1. /\ a \o b \in Seq(S) /\ <<f>> \in Seq(S) /\ Len(<<f>>) = 1
      /\ Len(a) \in Nat /\ Len(b) \in Nat /\ Len(a \o b) = Len(a) + Len(b)
      /\ \A i \in 1..Len(a) : (a \o b)[i] = a[i]
      /\ \A i \in 1..Len(b) : (a \o b)[Len(a) + i] = b[i]
  BY ConcatProperties
<1>2. Len(b) > 0
  BY <1>1, EmptySeq
<1>3. 1 \in 1..Len(b) /\ b[1] \in S
  BY <1>1, <1>2, ElementOfSeq
<1>4. /\ s \in Seq(S) /\ Len(s) = Len(a) + Len(b) + 1
      /\ \A i \in 1..(Len(a) + Len(b)) : s[i] = (a \o b)[i]
  BY <1>1, ConcatProperties
<1>5. /\ t \in Seq(S) /\ Len(t) = Len(a) + 1 /\ t[Len(a) + 1] = b[1]
      /\ \A i \in 1..Len(a) : t[i] = a[i]
  BY <1>3, AppendProperties
<1> HIDE DEF s, t
<1>6. PICK m \in Nat : m = Len(a) + 1
  BY <1>1
<1>7. \A i \in 1..m : s[i] = t[i] /\ s[i] \in S
  <2> TAKE i \in 1..m
  <2>1. i \in 1..(Len(a) + Len(b))
    BY <1>1, <1>2, <1>6
  <2>2. s[i] = (a \o b)[i]
    BY <1>4, <2>1
  <2>3. CASE i \in 1..Len(a)
    BY <1>1, <1>5, <2>2, <2>3, ElementOfSeq
  <2>4. CASE i = Len(a) + 1
    BY <1>1, <1>3, <1>5, <2>2, <2>4
  <2> QED BY <1>1, <1>6, <2>3, <2>4
<1>8. /\ SubSeq(s, 1, m) \in Seq(S)
      /\ Len(SubSeq(s, 1, m)) = IF 1 <= m THEN m - 1 + 1 ELSE 0
      /\ \A i \in 1..(m - 1 + 1) : SubSeq(s, 1, m)[i] = s[1 + i - 1]
  BY ONLY <1>7, m \in Nat, SubSeqProperties
<1>9. Len(SubSeq(s, 1, m)) = m
  BY <1>1, <1>6, <1>8
<1>10. \A i \in 1..m : SubSeq(s, 1, m)[i] = t[i]
  <2> TAKE i \in 1..m
  <2>1. i \in 1..(m - 1 + 1) /\ 1 + i - 1 = i
    OBVIOUS
  <2> QED BY ONLY <2>1, <1>7, <1>8, i \in 1..m
<1>11. SubSeq(s, 1, m) = t
  BY <1>5, <1>6, <1>8, <1>9, <1>10, SeqEqual
<1>12. Len(s) - Len(b) = m
  BY <1>1, <1>4, <1>6
<1> QED BY <1>11, <1>12 DEF RemoveEnvs, s, t

(* What a step does to the bottom of the chains and to the calls of macros *)
(* in progress, as it enters, leaves or continues a form.                  *)
LEMMA EnteringMacro ==
  ASSUME IInv(MacroNames), Macro, TypeOK',
         NEW r, Entering(r), Around([envs EXCEPT ![r.env] = r.chain]),
         \A e \in made' \ made : Rooted(envs'[e]),
         r.kind = "macro" => r.env \in MacroNames /\ ~Busy(r.env)
  PROVE  Macro'
<1>0. MacroNames \in SUBSET Closures
  BY MacrosAssumption
<1>n. PICK n \in Nat : n = Len(stack)
  BY <1>0, EmptyStack
<1>1. /\ stack'[n+1] = r /\ \A k \in 1..n : stack'[k] = stack[k]
      /\ Depth = 1..n /\ Depth' = 1..(n+1)
  BY <1>n DEF IInv, TypeOK, Entering, Depth
<1>2. /\ r.env \in made \cup {Main} /\ r.env \in Envs /\ r.before = envs[r.env]
      /\ \A e \in made \cup {Main} :
           envs'[e] = IF e = r.env THEN r.chain ELSE envs[e]
  BY <1>0, UsedMade DEF Entering, Around, IInv, TypeOK
<1>3. Rooted(r.before) /\ r.before \in Chains
  BY <1>2 DEF Macro, Bottom, IInv, TypeOK, Chains
<1>4. Rooted(r.chain)
  <2>1. PICK calling \in Chains :
          calling = Pushing(r)
    <3>1. <<>> \in Chains /\ envs[Running] \in Chains
      BY <1>0, RunningType DEF Chains
    <3>2. \A g \in Frames : <<g>> \in Chains
      BY DEF Chains
    <3>3. r.caller = None => r.empty \in Frames
      BY DEF Entering, CallerIs, Activation
    <3> QED BY <3>1, <3>2, <3>3 DEF Pushing
  <2>2. PICK own \in Chains : own = Own(r)
    <3>1. r.kind # "setq" => r.frame \in Frames
      BY DEF Entering, TypeOK
    <3>2. r.kind = "setq" => Own(r) = <<>>
      BY DEF Own
    <3>3. <<>> \in Chains /\ \A f \in Frames : <<f>> \in Chains
      BY DEF Chains
    <3> QED BY <3>1, <3>2, <3>3 DEF Own
  <2>3. r.chain = (r.before \o calling) \o own
    BY <2>1, <2>2 DEF Entering
  <2>4. r.before \o calling \in Chains /\ Rooted(r.before \o calling)
    BY <1>3, RootedConcat
  <2> QED BY <2>3, <2>4, RootedConcat
<1>5. Bottom'
  BY <1>1, <1>2, <1>3, <1>4 DEF Macro, Bottom
<1>6. Once'
  <2> SUFFICES ASSUME NEW k \in 1..(n+1), stack'[k].kind = "macro"
               PROVE  /\ stack'[k].env \in MacroNames
                      /\ \A j \in 1..(n+1) : j < k => stack'[j].env # stack'[k].env
    BY <1>1 DEF Once
  <2>1. CASE k = n + 1
    <3>1. r.env \in MacroNames /\ \A j \in 1..n : stack[j].env # r.env
      BY <2>1, <1>n, <1>1 DEF Busy
    <3> QED BY <2>1, <3>1, <1>1
  <2>2. CASE k # n + 1
    BY <2>2, <1>1 DEF Macro, Once
  <2> QED BY <2>1, <2>2
<1> QED BY <1>5, <1>6 DEF Macro

LEMMA LeavingMacro ==
  ASSUME IInv(MacroNames), Macro, NEW left, Leaving(left), Leftover(MacroNames, left)
  PROVE  Macro'
<1>0. MacroNames \in SUBSET Closures
  BY MacrosAssumption
<1>n. PICK n \in Nat : n = Len(stack) /\ n > 0
  BY <1>0, EmptyStack DEF Leaving
<1>1. /\ \A k \in 1..(n-1) : stack'[k] = stack[k]
      /\ Depth = 1..n /\ Depth' = 1..(n-1) /\ stack[n] = Top
  BY <1>0, <1>n, StackFacts DEF Leaving, Depth, Top
<1>2. Rooted(Top.before) /\ Top.before \in Chains
  BY <1>0, <1>1, StackFacts DEF Leaving, Macro, Bottom, Activation, Chains
<1>3. Rooted(left)
  <2>1. left = Top.before \/ \E t \in Frames \cup {Main} : left = Append(Top.before, t)
    BY DEF Leftover
  <2> QED BY <1>2, <2>1, RootedAppend
<1>4. Bottom'
  <2>1. \A e \in made \cup {Main} : envs'[e] = IF e = Top.env THEN left ELSE envs[e]
    BY <1>0, UsedMade DEF Leaving, IInv, TypeOK
  <2> QED BY <2>1, <1>1, <1>3 DEF Macro, Bottom, Leaving
<1>5. Once'
  BY <1>1 DEF Macro, Once
<1> QED BY <1>4, <1>5 DEF Macro

LEMMA AmendingMacro ==
  ASSUME IInv(MacroNames), Macro,
         NEW r, Amending(r), Around([envs EXCEPT ![r.env] = r.chain]),
         \A e \in made' \ made : Rooted(envs'[e]),
         r.chain \in {Top.chain, Append(Top.chain, Top.frame)},
         r.kind # "setq"
  PROVE  Macro'
<1>0. MacroNames \in SUBSET Closures
  BY MacrosAssumption
<1>n. PICK n \in Nat : n = Len(stack) /\ n > 0
  BY <1>0, EmptyStack DEF Amending
<1>1. /\ stack'[n] = r /\ \A k \in 1..n : k # n => stack'[k] = stack[k]
      /\ Depth = 1..n /\ Depth' = 1..n /\ stack[n] = Top
  <2>1. stack \in Seq(Activation) /\ r \in Activation /\ n \in 1..Len(stack)
        /\ stack' = [stack EXCEPT ![n] = r]
    BY <1>n DEF Amending, IInv, TypeOK
  <2>2. /\ Len(stack') = Len(stack)
        /\ \A k \in 1..Len(stack) : stack'[k] = IF k = n THEN r ELSE stack[k]
    BY ONLY <2>1, ExceptSeq
  <2> QED BY <1>n, <2>2 DEF Depth, Top
<1>2. /\ Top.env \in made \cup {Main} /\ Top.frame \in Frames
      /\ Top.chain \in Chains /\ Top.chain = envs[Top.env]
  BY <1>0, TopView DEF Amending, FormOK, IInv, TypeOK
<1>3. Rooted(r.chain)
  BY <1>2, RootedAppend DEF Macro, Bottom
<1>4. Bottom'
  <2>1. \A e \in made \cup {Main} : envs'[e] = IF e = Top.env THEN r.chain ELSE envs[e]
    BY <1>0, UsedMade DEF Amending, Around, IInv, TypeOK
  <2>2. \A k \in 1..n : stack'[k].before = stack[k].before
    BY <1>1 DEF Amending
  <2>3. \A e \in made' \cup {Main} : Rooted(envs'[e])
    BY <2>1, <1>3 DEF Macro, Bottom
  <2> QED BY <2>2, <2>3, <1>1 DEF Macro, Bottom
<1>5. Once'
  <2>1. \A k \in 1..n : stack'[k].kind = stack[k].kind /\ stack'[k].env = stack[k].env
    BY <1>1 DEF Amending
  <2> QED BY <2>1, <1>1 DEF Macro, Once
<1> QED BY <1>4, <1>5 DEF Macro

LEMMA RebuiltMacro ==
  ASSUME IInv(MacroNames), Macro, NEW c, NEW chain, Rebuilt(c, chain),
         made' \subseteq made \cup {c}, c \in made' => Rooted(chain)
  PROVE  Macro'
<1>1. stack' = stack /\ Depth' = Depth
  BY DEF Rebuilt, Depth
<1>2. \A e \in made' \cup {Main} :
        e \in Envs /\ envs'[e] = IF e = c THEN chain ELSE envs[e]
  BY DEF Rebuilt, IInv, TypeOK, Envs
<1>3. c # Main
  BY ScopingAssumption DEF Rebuilt
<1>4. Bottom'
  BY <1>1, <1>2, <1>3 DEF Macro, Bottom
<1>5. Once'
  BY <1>1 DEF Macro, Once
<1> QED BY <1>4, <1>5 DEF Macro

(* The forms and closures of Scoping.                                      *)
LEMMA NextMacro ==
  ASSUME IInv(MacroNames), Macro, [Next]_vars
  PROVE  Macro'
<1>0. MacroNames \in SUBSET Closures
  BY MacrosAssumption
<1>i. IInv(MacroNames)'
  BY <1>0, StepInv
<1>t. TypeOK'
  BY <1>i DEF IInv
<1>e. ASSUME NEW r, Entered(r), r.kind # "macro" PROVE Macro'
  <2>1. /\ Entering(r) /\ Around([envs EXCEPT ![r.env] = r.chain]) /\ made' = made
    BY <1>e DEF Entered, Around
  <2> QED BY <1>t, <1>e, <2>1, EnteringMacro
<1>l. ASSUME Left PROVE Macro'
  <2>1. PICK left : left = Top.before
    OBVIOUS
  <2>2. Leaving(left) /\ Leftover(MacroNames, left)
    BY <1>l, <2>1 DEF Left, Leftover
  <2> QED BY <2>2, LeavingMacro
<1>a. ASSUME NEW r, Amended(r), r.chain \in {Top.chain, Append(Top.chain, Top.frame)},
             Top.kind # "setq"
      PROVE  Macro'
  <2>1. /\ Amending(r) /\ Around([envs EXCEPT ![r.env] = r.chain]) /\ made' = made
        /\ r.kind # "setq"
    BY <1>a DEF Amended, Amending, Around
  <2> QED BY <1>a, <2>1, AmendingMacro
<1>1. ASSUME NEW n \in Names, SetqFind(n) PROVE Macro'
  BY <1>0, <1>1, <1>e, SetqFindInv
<1>2. ASSUME NEW v \in Values, SetqStore(v) PROVE Macro'
  BY <1>0, <1>2, <1>l, SetqStoreInv
<1>3. ASSUME NEW kind \in {"let", "let*"}, NEW f \in Frames, LetEnter(kind, f)
      PROVE  Macro'
  BY <1>0, <1>3, <1>e, LetEnterInv
<1>4. ASSUME NEW n \in Names, LetLabel(n) PROVE Macro'
  BY <1>0, <1>4, <1>a, LetLabelInv DEF LetLabel, Binding
<1>5. ASSUME NEW v \in Values, LetValue(v) PROVE Macro'
  BY <1>0, <1>5, <1>a, LetValueInv DEF LetValue, Binding
<1>6. CASE LetBody
  BY <1>0, <1>6, <1>a, LetBodyInv DEF LetBody, Binding
<1>7. CASE LetExit
  BY <1>0, <1>7, <1>l, LetExitInv
<1>8. ASSUME NEW c \in Closures, MakeClosure(c) PROVE Macro'
  <2>1. PICK chain : chain = envs[Running]
    OBVIOUS
  <2>2. Rebuilt(c, chain) /\ Rooted(chain)
    BY <1>0, <1>8, <2>1, MakeClosureInv, RunningType DEF Macro, Bottom
  <2> QED BY <1>8, <2>2, RebuiltMacro DEF MakeClosure
<1>9. ASSUME NEW c \in Closures, DropClosure(c) PROVE Macro'
  BY <1>0, <1>9, DropClosureInv, RebuiltMacro DEF DropClosure
<1>10. ASSUME NEW c \in Closures, NEW f \in Frames, Call(c, f) PROVE Macro'
  BY <1>0, <1>10, <1>e, CallInv
<1>11. ASSUME UNCHANGED <<envs, made, stack>> PROVE Macro'
  <2>1. Depth' = Depth
    BY <1>11 DEF Depth
  <2> QED BY <1>11, <2>1 DEF Macro, Bottom, Once
<1>12. ASSUME NEW n \in Names, NEW v \in Values \cup {Null}, CallArg(n, v) PROVE Macro'
  BY <1>11, <1>12 DEF CallArg
<1>13. CASE CallBody
  BY <1>0, <1>13, <1>a, CallBodyInv DEF CallBody, InArgs
<1>14. CASE CallReturn
  BY <1>0, <1>14, <1>l, CallReturnInv
<1>15. ASSUME NEW c \in Closures, NEW f \in Frames, NEW g \in Frames,
              NEW bound \in [Names -> Values \cup {Unbound}], CallFromCompiled(c, f, g, bound)
       PROVE  Macro'
  BY <1>0, <1>15, <1>e, CallFromCompiledInv
<1>16. CASE UNCHANGED vars
  BY <1>11, <1>16 DEF vars
<1> QED BY <1>1, <1>2, <1>3, <1>4, <1>5, <1>6, <1>7, <1>8, <1>9, <1>10, <1>12,
           <1>13, <1>14, <1>15, <1>16 DEF Next

-----------------------------------------------------------------------------
(* What duplicating the name of a function adds: a closure with a chain    *)
(* that another one has, of global tables only.                            *)
LEMMA DuplicatedFacts ==
  ASSUME IInv(MacroNames), Plain, NEW now \in [Envs -> Chains], Duplicated(now),
         \A e \in made : Rooted(now[e])
  PROVE  /\ made' \subseteq Closures /\ stale' \subseteq made'
         /\ envs' \in [Envs -> Chains] /\ base' \in [Envs -> Chains]
         /\ Around(now) /\ Sparing
         /\ \A e \in made' \ made : Rooted(envs'[e])
<1>1. /\ base \in [Envs -> Chains] /\ made \subseteq Closures /\ stale \subseteq made
      /\ Main \notin Closures /\ Closures \subseteq Envs
  BY ScopingAssumption DEF IInv, TypeOK, Chains, Envs
<1>2. ASSUME NEW c \in Closures, NEW d \in Closures, Duplicate(now, c, d)
      PROVE  /\ made' \subseteq Closures /\ stale' \subseteq made'
             /\ envs' \in [Envs -> Chains] /\ base' \in [Envs -> Chains]
             /\ Around(now) /\ Sparing
             /\ \A e \in made' \ made : Rooted(envs'[e])
  <2>1. /\ c \in made /\ d \in Closures \ made /\ made' = made \cup {d}
        /\ envs' = [now EXCEPT ![d] = now[c]] /\ base' = [base EXCEPT ![d] = now[c]]
        /\ stale \subseteq stale' /\ stale' \subseteq stale \cup {d}
        /\ Bare(now[c])
    BY <1>2 DEF Duplicate, Global, Bare
  <2>2. \A e \in Envs : /\ envs'[e] = IF e = d THEN now[c] ELSE now[e]
                        /\ base'[e] = IF e = d THEN now[c] ELSE base[e]
    BY <1>1, <2>1
  <2>3. now[c] \in Chains
    BY <1>1, <2>1
  <2>4. Around(now)
    BY <1>1, <2>1, <2>2 DEF Around
  <2>5. Sparing
    BY <1>1, <2>1, <2>2 DEF Sparing
  <2> QED BY <1>1, <2>1, <2>2, <2>3, <2>4, <2>5
<1>3. CASE envs' = now /\ UNCHANGED <<made, base, stale>>
  BY <1>1, <1>3 DEF Around, Sparing
<1> QED BY <1>2, <1>3 DEF Duplicated

LEMMA MacroCallInv ==
  ASSUME IInv(MacroNames), Macro, Plain, NEW m \in Closures, NEW f \in Frames,
         NEW bound \in [Names -> Values \cup {Unbound}], MacroCall(m, f, bound)
  PROVE  IInv(MacroNames)' /\ Macro' /\ (~Escaping /\ Alive => Alive')
<1>0. MacroNames \in SUBSET Closures
  BY MacrosAssumption
<1>1. /\ m \in made /\ m \in MacroNames /\ ~Busy(m) /\ f \notin live
      /\ live' = live \cup {f}
      /\ tables' = [tables EXCEPT ![f] = bound]
  BY DEF MacroCall
<1>2. m # Running
  <2>1. CASE stack = <<>>
    BY <2>1, ScopingAssumption DEF Running
  <2>2. CASE stack # <<>>
    BY <1>0, <1>1, <2>2, StackFacts DEF Running, Top, Busy, Depth
  <2> QED BY <2>1, <2>2
<1>3. PICK own \in Chains, calling \in Chains :
        own = envs[m] /\ calling = envs[Running] /\ Rooted(own)
  <2>1. envs[m] \in Chains /\ envs[Running] \in Chains /\ Rooted(envs[m])
    BY <1>0, <1>1, RunningType DEF IInv, TypeOK, Chains, Envs, Macro, Bottom
  <2> QED BY <2>1
<1>4. PICK pushed \in Chains : pushed = own \o calling /\ Rooted(pushed)
  BY <1>3, RootedConcat
<1>5. PICK chain \in Chains : chain = Append(pushed, f) /\ Rooted(chain)
  BY <1>4, RootedAppend
<1>6. chain = (own \o calling) \o <<f>>
  <2>1. Append(pushed, f) = pushed \o <<f>>
    BY AppendIsConcat DEF Chains
  <2> QED BY <1>4, <1>5, <2>1
<1> DEFINE r == [kind |-> "macro", env |-> m, caller |-> Running, frame |-> f,
                 empty |-> None, body |-> FALSE, name |-> None, target |-> None,
                 before |-> own, chain |-> chain]
<1>7. stack' = Append(stack, r) /\ Duplicated([envs EXCEPT ![m] = chain])
  BY <1>2, <1>3, <1>4, <1>5 DEF MacroCall, AddEnvMaps, AddEnvMap
<1>8. r \in Activation
  BY <1>0, <1>3, <1>5, RunningType DEF Activation, Kinds, Chains, Envs
<1>9. PICK now \in [Envs -> Chains] : now = [envs EXCEPT ![m] = chain]
  BY <1>5 DEF IInv, TypeOK, Chains
<1>10. \A e \in made : Rooted(now[e])
  BY <1>5, <1>9 DEF Macro, Bottom, IInv, TypeOK, Envs
<1>11. /\ made' \subseteq Closures /\ stale' \subseteq made'
       /\ envs' \in [Envs -> Chains] /\ base' \in [Envs -> Chains]
       /\ Around(now) /\ Sparing
       /\ \A e \in made' \ made : Rooted(envs'[e])
  BY <1>1, <1>7, <1>9, <1>10, DuplicatedFacts
<1>12. Entering(r)
  <2>1. {f} = Locals(r) /\ Running # None
    BY <1>0, RunningType, ScopingAssumption DEF Envs, Locals
  <2>2. Pushing(r) = calling /\ Own(r) = <<f>>
    BY <1>2, <1>3, <2>1 DEF Own, Pushing
  <2> QED BY <1>1, <1>3, <1>6, <1>7, <1>8, <2>1, <2>2 DEF Entering, CallerIs
<1>13. TypeOK'
  <2>1. stack' \in Seq(Activation)
    BY <1>7, <1>8, AppendProperties DEF IInv, TypeOK
  <2>2. tables' \in [Tables -> [Names -> Slot]]
    BY <1>1 DEF IInv, TypeOK, Slot
  <2> QED BY <1>1, <1>11, <2>1, <2>2 DEF IInv, TypeOK, Chains
<1>14. /\ r.env = m /\ r.chain = chain /\ Puts(r, f) /\ r.kind = "macro"
       /\ now = [envs EXCEPT ![r.env] = r.chain]
  BY <1>9 DEF Puts, Pushed
<1> HIDE DEF r
<1>15. Around([envs EXCEPT ![r.env] = r.chain])
  BY <1>11, <1>14
<1>16. IInv(MacroNames)'
  BY <1>0, <1>12, <1>13, <1>15, EnteringStep DEF IInv
<1>17. Macro'
  BY <1>1, <1>11, <1>12, <1>13, <1>14, <1>15, EnteringMacro
<1>18. ASSUME ~Escaping, Alive PROVE Alive'
  <2>1. Within(own, Len(stack))
    BY <1>0, <1>1, <1>3, <1>18, EnvWithin DEF MacroCall, Envs
  <2>2. Within(calling, Len(stack))
    BY <1>0, <1>3, <1>18, RunningWithin
  <2>3. Within(pushed, Len(stack))
    BY <1>4, <2>1, <2>2, WithinConcat
  <2>4. Adds(r, pushed, chain)
    BY <1>5, <1>14, AddsNone, AddsOne
  <2> QED BY <1>0, <1>11, <1>12, <1>14, <1>18, <2>3, <2>4, EnteringAlive
<1> QED BY <1>16, <1>17, <1>18

LEMMA MacroCallFromCompiledInv ==
  ASSUME IInv(MacroNames), Macro, Plain, NEW m \in Closures, NEW f \in Frames, NEW g \in Frames,
         MacroCallFromCompiled(m, f, g)
  PROVE  IInv(MacroNames)' /\ Macro' /\ (~Escaping /\ Alive => Alive')
<1>0. MacroNames \in SUBSET Closures
  BY MacrosAssumption
<1>1. /\ m \in made /\ m \in MacroNames /\ ~Busy(m)
      /\ f \notin live /\ g \notin live
      /\ live' = live \cup {f, g}
      /\ tables' = [tables EXCEPT ![f] = EmptyTable, ![g] = EmptyTable]
  BY DEF MacroCallFromCompiled
<1>3. PICK own \in Chains : own = envs[m] /\ Rooted(own)
  <2>1. envs[m] \in Chains /\ Rooted(envs[m])
    BY <1>1 DEF IInv, TypeOK, Chains, Envs, Macro, Bottom
  <2> QED BY <2>1
<1>4. PICK pushed \in Chains : pushed = Append(own, g) /\ Rooted(pushed)
  BY <1>3, RootedAppend
<1>5. PICK chain \in Chains : chain = Append(pushed, f) /\ Rooted(chain)
  BY <1>4, RootedAppend
<1>6. own \o <<g>> = pushed /\ chain = (own \o <<g>>) \o <<f>>
  <2>1. Append(pushed, f) = pushed \o <<f>>
    BY <1>4, AppendIsConcat DEF Chains
  <2>2. Append(own, g) = own \o <<g>>
    BY <1>3, AppendIsConcat DEF Chains
  <2> QED BY <1>4, <1>5, <2>1, <2>2
<1> DEFINE r == [kind |-> "macro", env |-> m, caller |-> None, frame |-> f,
                 empty |-> g, body |-> FALSE, name |-> None, target |-> None,
                 before |-> own, chain |-> chain]
<1>7. stack' = Append(stack, r) /\ Duplicated([envs EXCEPT ![m] = chain])
  BY <1>3, <1>5, <1>6 DEF MacroCallFromCompiled, AddEnvMaps, AddEnvMap
<1>8. r \in Activation
  BY <1>0, <1>3, <1>5 DEF Activation, Kinds, Chains, Envs
<1>9. PICK now \in [Envs -> Chains] : now = [envs EXCEPT ![m] = chain]
  BY <1>5 DEF IInv, TypeOK, Chains
<1>10. \A e \in made : Rooted(now[e])
  BY <1>5, <1>9 DEF Macro, Bottom, IInv, TypeOK, Envs
<1>11. /\ made' \subseteq Closures /\ stale' \subseteq made'
       /\ envs' \in [Envs -> Chains] /\ base' \in [Envs -> Chains]
       /\ Around(now) /\ Sparing
       /\ \A e \in made' \ made : Rooted(envs'[e])
  BY <1>7, <1>9, <1>10, DuplicatedFacts
<1>12. Entering(r)
  <2>1. {f, g} = Locals(r) /\ m # None
    BY <1>0, ScopingAssumption DEF Envs, Locals
  <2>2. Pushing(r) = <<g>> /\ Own(r) = <<f>>
    BY <2>1 DEF Own, Pushing
  <2> QED BY <1>1, <1>3, <1>6, <1>7, <1>8, <2>1, <2>2, ScopingAssumption DEF Entering, CallerIs
<1>13. TypeOK'
  <2>1. stack' \in Seq(Activation)
    BY <1>7, <1>8, AppendProperties DEF IInv, TypeOK
  <2>2. tables' \in [Tables -> [Names -> Slot]]
    BY <1>1 DEF IInv, TypeOK, EmptyTable, Slot
  <2> QED BY <1>1, <1>11, <2>1, <2>2 DEF IInv, TypeOK, Chains
<1>14. /\ r.env = m /\ r.chain = chain /\ Puts(r, f) /\ Puts(r, g) /\ r.kind = "macro"
       /\ now = [envs EXCEPT ![r.env] = r.chain]
  BY <1>9 DEF Puts, Pushed
<1> HIDE DEF r
<1>15. Around([envs EXCEPT ![r.env] = r.chain])
  BY <1>11, <1>14
<1>16. IInv(MacroNames)'
  BY <1>0, <1>12, <1>13, <1>15, EnteringStep DEF IInv
<1>17. Macro'
  BY <1>1, <1>11, <1>12, <1>13, <1>14, <1>15, EnteringMacro
<1>18. ASSUME ~Escaping, Alive PROVE Alive'
  <2>1. Within(own, Len(stack))
    BY <1>0, <1>1, <1>3, <1>18, EnvWithin DEF MacroCallFromCompiled, Envs
  <2>2. Adds(r, own, chain)
    BY <1>4, <1>5, <1>14, AddsBoth
  <2> QED BY <1>0, <1>11, <1>12, <1>14, <1>18, <2>1, <2>2, EnteringAlive
<1> QED BY <1>16, <1>17, <1>18

LEMMA MacroExpandInv ==
  ASSUME IInv(MacroNames), Macro, Plain, MacroExpand
  PROVE  IInv(MacroNames)' /\ Macro' /\ (~Escaping /\ Alive => Alive')
<1>0. MacroNames \in SUBSET Closures
  BY MacrosAssumption
<1> DEFINE r == [Top EXCEPT !.body = TRUE]
<1>1. /\ stack # <<>> /\ Top.kind = "macro" /\ Duplicated(envs)
      /\ UNCHANGED <<tables, live>>
  BY DEF MacroExpand
<1>2. /\ Top \in Activation /\ FormOK(Len(stack)) /\ stack[Len(stack)] = Top
      /\ Top.chain = envs[Top.env] /\ Top.chain \in Chains /\ Top.env \in Envs
  BY <1>0, <1>1, TopView
<1>3. r \in Activation /\ Own(r) = Own(Top)
  BY <1>1, <1>2 DEF Activation, Own
<1>4. stack' = [stack EXCEPT ![Len(stack)] = r]
  BY <1>0, <1>1, StackFacts, TopView DEF MacroExpand, IInv, TypeOK
<1>5. Amending(r)
  BY <1>1, <1>2, <1>3, <1>4 DEF Amending, FormOK, Activation
<1>6. PICK now \in [Envs -> Chains] : now = envs
  BY DEF IInv, TypeOK, Chains
<1>7. /\ made' \subseteq Closures /\ stale' \subseteq made'
      /\ envs' \in [Envs -> Chains] /\ base' \in [Envs -> Chains]
      /\ Around(now) /\ Sparing
      /\ \A e \in made' \ made : Rooted(envs'[e])
  BY <1>1, <1>6, DuplicatedFacts DEF Macro, Bottom
<1>8. /\ r.chain = Top.chain /\ r.env = Top.env /\ r.kind = "macro" /\ r.body
  BY <1>1, <1>2 DEF Activation
<1>9. now = [envs EXCEPT ![r.env] = r.chain]
  BY <1>2, <1>6, <1>8
<1> HIDE DEF r
<1>10. Around([envs EXCEPT ![r.env] = r.chain])
  BY <1>7, <1>9
<1>11. TypeOK'
  <2>1. stack' \in Seq(Activation)
    BY <1>0, <1>1, <1>3, <1>4, StackFacts, ExceptSeq DEF IInv, TypeOK, Depth
  <2> QED BY <1>1, <1>7, <2>1 DEF IInv, TypeOK, Chains
<1>12. IInv(MacroNames)'
  BY <1>0, <1>5, <1>10, <1>11, AmendingStep DEF IInv
<1>13. Macro'
  BY <1>5, <1>7, <1>8, <1>10, AmendingMacro
<1>14. ASSUME Alive PROVE Alive'
  BY <1>0, <1>5, <1>7, <1>8, <1>14, AmendingAlive
<1> QED BY <1>12, <1>13, <1>14

(* What a macro call leaves on the macro's environment: one table of its   *)
(* caller, the first, which is global, or the empty one of a call from     *)
(* compiled code.                                                          *)
LEMMA MacroLeft ==
  ASSUME IInv(MacroNames), Macro, stack # <<>>, Top.kind = "macro"
  PROVE  \E t \in Frames \cup {Main} :
           /\ RemoveEnvs(envs[Top.env], MacroPopped(Top)) = Append(Top.before, t)
           /\ t = Main \/ Top.empty # None
<1>0. MacroNames \in SUBSET Closures
  BY MacrosAssumption
<1>2. /\ Top.frame \in Frames /\ Top.before \in Chains /\ Own(Top) = <<Top.frame>>
      /\ Top.env \in MacroNames /\ Top.env # None /\ CallerIs(Top, Outer(Len(stack)))
      /\ Top.empty \in Frames \cup {None}
      /\ \A k \in Depth : k < Len(stack) => stack[k].env # Top.env
      /\ envs[Top.env] = (Top.before \o Calling(Len(stack))) \o <<Top.frame>>
  <2>1. /\ FormOK(Len(stack)) /\ stack[Len(stack)] = Top /\ Top \in Activation
        /\ Top.chain = envs[Top.env] /\ Top.before \in Chains /\ Top.env \in Envs
    BY <1>0, TopView
  <2>2. /\ Top.env \in MacroNames
        /\ \A k \in Depth : k < Len(stack) => stack[k].env # Top.env
    BY <1>0, <2>1, StackFacts DEF Macro, Once
  <2>3. /\ Own(Top) = <<Top.frame>> /\ CallerIs(Top, Outer(Len(stack)))
        /\ Top.chain = (Top.before \o Calling(Len(stack))) \o Own(Top)
    BY <2>1 DEF FormOK, Own
  <2>4. Top.frame \in Frames /\ Top.empty \in Frames \cup {None}
    <3>1. Top.frame \in live /\ live \subseteq Frames
      BY <2>1 DEF FormOK, IInv, TypeOK
    <3> QED BY <2>1, <3>1 DEF Activation
  <2>5. Top.env # None
    BY <1>0, <2>2, ScopingAssumption
  <2> QED BY <2>1, <2>2, <2>3, <2>4, <2>5
<1>1. Top.caller # Top.env
  <2>n. PICK n \in Nat : n = Len(stack) /\ n > 0
    BY <1>0, EmptyStack
  <2>1. Top.caller \in {None, Outer(n)}
    BY <1>2, <2>n DEF CallerIs
  <2>2. CASE n = 1
    BY <1>0, <1>2, <2>1, <2>2, ScopingAssumption DEF Outer
  <2>3. CASE n # 1
    <3>1. n - 1 \in Depth /\ n - 1 < n
      BY <2>n, <2>3 DEF Depth
    <3> QED BY <1>0, <1>2, <2>n, <2>1, <2>3, <3>1 DEF Outer
  <2> QED BY <2>2, <2>3
<1>3. CASE Top.caller # None
  <2>1. Top.caller \in made \cup {Main}
    <3>n. PICK n \in Nat : n = Len(stack) /\ n > 0
      BY <1>0, EmptyStack
    <3>1. Top.caller = Outer(n)
      BY <1>2, <1>3, <3>n DEF CallerIs
    <3>2. n # 1 => n - 1 \in Depth
      BY <3>n DEF Depth
    <3> QED BY <1>0, <3>1, <3>2, UsedMade DEF Outer
  <2>2. PICK calling \in Chains : calling = envs[Top.caller] /\ calling = Calling(Len(stack))
                                  /\ Rooted(calling)
    BY <1>0, <1>1, <1>3, <2>1, CallerView DEF Macro, Bottom
  <2>3. MacroPopped(Top) = Len(calling)
    BY <1>1, <1>3, <2>2 DEF MacroPopped, CallersTables
  <2>4. RemoveEnvs((Top.before \o calling) \o <<Top.frame>>, Len(calling))
          = Append(Top.before, Main)
    BY <1>2, <2>2, RemoveButOne DEF Rooted, Chains
  <2> QED BY <1>2, <2>2, <2>3, <2>4
<1>4. CASE Top.caller = None
  <2>1. PICK g \in Frames : g = Top.empty
    BY <1>2, <1>4 DEF CallerIs
  <2>2. <<g>> \in Chains /\ <<g>> # <<>> /\ <<g>>[1] = g /\ Len(<<g>>) = 1
    BY DEF Chains
  <2>3. MacroPopped(Top) = 1 /\ Calling(Len(stack)) = <<g>>
    BY <1>0, <1>1, <1>4, <2>1, TopView DEF MacroPopped, CallersTables, Calling
  <2>4. RemoveEnvs((Top.before \o <<g>>) \o <<Top.frame>>, 1) = Append(Top.before, g)
    <3>1. Top.before \in Chains /\ Top.frame \in Frames
      BY <1>2
    <3>2. \A b \in Chains : b # <<>> =>
            RemoveEnvs((Top.before \o b) \o <<Top.frame>>, Len(b)) = Append(Top.before, b[1])
      BY <3>1, RemoveButOne DEF Chains
    <3> QED BY <2>2, <3>2
  <2>5. g # None
    BY ScopingAssumption
  <2> QED BY <1>2, <2>1, <2>3, <2>4, <2>5
<1> QED BY <1>3, <1>4

LEMMA MacroReturnInv ==
  ASSUME IInv(MacroNames), Macro, MacroReturn
  PROVE  IInv(MacroNames)' /\ Macro' /\ (Alive => Alive')
<1>0. MacroNames \in SUBSET Closures
  BY MacrosAssumption
<1>1. stack # <<>> /\ Top.kind = "macro"
  BY DEF MacroReturn
<1>2. /\ Top.before \in Chains /\ Top.env \in MacroNames
      /\ Top.env \in made
      /\ \A k \in Depth : k < Len(stack) => stack[k].env # Top.env
  <2>1. Top.env \in MacroNames /\ \A k \in Depth : k < Len(stack) => stack[k].env # Top.env
    BY <1>0, <1>1, StackFacts DEF Macro, Once, Top
  <2>2. Top.env \in made \cup {Main}
    BY <1>0, <1>1, TopView DEF FormOK
  <2> QED BY <1>0, <1>1, <2>1, <2>2, TopView, ScopingAssumption
<1>3. PICK t \in Frames \cup {Main} :
        /\ RemoveEnvs(envs[Top.env], MacroPopped(Top)) = Append(Top.before, t)
        /\ t = Main \/ Top.empty # None
  BY <1>1, MacroLeft
<1>4. Top.empty # None => Top.env \in stale'
  BY DEF MacroReturn, Dangling
<1>5. PICK left \in Chains : left = Append(Top.before, t)
  <2>1. Append(Top.before, t) \in Chains
    BY <1>2, AppendProperties DEF Chains
  <2> QED BY <2>1
<1>7. Leaving(left) /\ Leftover(MacroNames, left)
  <2>1. Leaving(left)
    BY <1>0, <1>1, <1>2, <1>3, <1>5, TopView
       DEF Leaving, MacroReturn, Destroy, IInv, TypeOK
  <2> QED BY <2>1, <1>2, <1>3, <1>4, <1>5 DEF Leftover
<1>8. TypeOK'
  <2>1. Top.env \in Envs /\ left \in Chains
    BY <1>2, <1>5, <1>0 DEF Envs
  <2>2. tables' \in [Tables -> [Names -> Slot]] /\ stale' \subseteq made
    BY <1>2 DEF MacroReturn, Destroy, Holding, Dangling, IInv, TypeOK, EmptyTable, Slot
  <2>3. stack' \in Seq(Activation)
    BY <1>0, <1>1, StackFacts DEF MacroReturn
  <2> QED BY <1>7, <2>1, <2>2, <2>3 DEF Leaving, IInv, TypeOK, Chains
<1>9. IInv(MacroNames)'
  BY <1>0, <1>7, <1>8, LeavingStep DEF IInv
<1>10. Macro'
  BY <1>7, LeavingMacro
<1>11. ASSUME Alive PROVE Alive'
  BY <1>0, <1>7, <1>11, LeavingAlive DEF MacroReturn, Holding
<1> QED BY <1>9, <1>10, <1>11

LEMMA MacroNextInv ==
  ASSUME IInv(MacroNames), Macro, Plain, [MacroNext]_vars
  PROVE  IInv(MacroNames)' /\ Macro' /\ (~Escaping /\ Alive => Alive')
<1>0. MacroNames \in SUBSET Closures
  BY MacrosAssumption
<1>1. CASE [Next]_vars
  BY <1>0, <1>1, StepInv, NextMacro, NextAlive
<1>2. ASSUME NEW m \in Closures, NEW f \in Frames,
             NEW bound \in [Names -> Values \cup {Unbound}], MacroCall(m, f, bound)
      PROVE  IInv(MacroNames)' /\ Macro' /\ (~Escaping /\ Alive => Alive')
  BY <1>2, MacroCallInv
<1>5. ASSUME NEW m \in Closures, NEW f \in Frames, NEW g \in Frames,
             MacroCallFromCompiled(m, f, g)
      PROVE  IInv(MacroNames)' /\ Macro' /\ (~Escaping /\ Alive => Alive')
  BY <1>5, MacroCallFromCompiledInv
<1>3. CASE MacroExpand
  BY <1>3, MacroExpandInv
<1>4. CASE MacroReturn
  BY <1>4, MacroReturnInv
<1> QED BY <1>1, <1>2, <1>3, <1>4, <1>5 DEF MacroNext

LEMMA MacroInit == Init => IInv(MacroNames) /\ Macro /\ Alive
<1> SUFFICES ASSUME Init PROVE IInv(MacroNames) /\ Macro /\ Alive
  OBVIOUS
<1>1. IInv(MacroNames) /\ Alive
  BY MacrosAssumption, InitInv, InitAlive
<1>2. Depth = {} /\ Rooted(envs[Main])
  BY DEF Init, Depth, Rooted, Envs
<1>3. Macro
  BY <1>2 DEF Macro, Bottom, Once, Init
<1> QED BY <1>1, <1>3

(* A macro call pushes one table more than it pops (functional.cpp:128-146), *)
(* and what is popped depends on the environment of the caller: in a program *)
(* that calls no macro while a call of it is in progress, what interpreted   *)
(* calls leave behind on the macro's environment is nevertheless always the  *)
(* global table, above what defmacro captured.  Nothing is said of a macro   *)
(* that is stale: one that compiled code has called (compiler.cpp:30) keeps  *)
(* the empty table of that call, and one may have captured a table since     *)
(* destroyed.  The environments of functions are what they were when         *)
(* captured, whatever else was called.                                       *)
THEOREM GlobalLeft == Plain => (MacroSpec => []OnlyGlobalLeft)
<1> SUFFICES ASSUME Plain PROVE MacroSpec => []OnlyGlobalLeft
  OBVIOUS
<1>1. Init => IInv(MacroNames) /\ Macro
  BY MacroInit
<1>2. IInv(MacroNames) /\ Macro /\ [MacroNext]_vars => IInv(MacroNames)' /\ Macro'
  BY MacroNextInv
<1>3. IInv(MacroNames) => OnlyGlobalLeft
  <2> SUFFICES ASSUME IInv(MacroNames), NEW e \in made \cup {Main}, ~Busy(e)
               PROVE  IF e \notin MacroNames THEN envs[e] = base[e]
                      ELSE e \notin stale =>
                        LET n == Len(base[e])
                        IN  /\ Len(envs[e]) >= n
                            /\ \A i \in 1..Len(envs[e]) :
                                 envs[e][i] = IF i <= n THEN base[e][i] ELSE Main
    BY DEF OnlyGlobalLeft
  <2>1. AsBuilt(MacroNames, e, envs[e])
    BY DEF IInv, TypeOK, Shape, Idle, Envs
  <2> QED BY <2>1 DEF AsBuilt, Grown
<1> QED BY <1>1, <1>2, <1>3, PTL DEF MacroSpec

(* In such a program no form, no macro body and no expansion is evaluated  *)
(* with a pointer to a destroyed table on its search path, unless it calls *)
(* a function or a macro that outlived a table on its environment: one it  *)
(* captured, or, for a macro, the one of an earlier call from compiled     *)
(* code.  What other macro calls leave behind and what duplicates copy     *)
(* never dangles.                                                          *)
THEOREM MacroScopesLive == Plain /\ ~Escaping => (MacroSpec => []ScopeLive)
<1> SUFFICES ASSUME Plain, ~Escaping PROVE MacroSpec => []ScopeLive
  OBVIOUS
<1>1. Init => IInv(MacroNames) /\ Macro /\ Alive
  BY MacroInit
<1>2. IInv(MacroNames) /\ Macro /\ Alive /\ [MacroNext]_vars
        => IInv(MacroNames)' /\ Macro' /\ Alive'
  BY MacroNextInv
<1>3. IInv(MacroNames) /\ Alive => ScopeLive
  BY MacrosAssumption, AliveLive
<1> QED BY <1>1, <1>2, <1>3, PTL DEF MacroSpec
=============================================================================
