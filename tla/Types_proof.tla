----------------------------- MODULE Types_proof -----------------------------
(***************************************************************************)
(* What holds of Types for any code, functions and definitions.            *)
(***************************************************************************)
EXTENDS Types, Positions, FiniteSetTheorems

(***************************************************************************)
(* Cells of code.                                                          *)
(***************************************************************************)

(* What is known of every cell: its arguments are cells that come before   *)
(* it, and only forms have arguments.                                      *)
LEMMA CellFacts ==
  ASSUME NEW c \in Cells
  PROVE  /\ c \in Nat
         /\ Len(Code[c].args) \in Nat
         /\ Code[c].args \in Seq(Cells)
         /\ \A i \in 1..Len(Code[c].args) :
              Code[c].args[i] \in Cells /\ Code[c].args[i] < c /\ IsForm(c)
         /\ IsForm(c) \/ Code[c] = Number \/ Code[c] = Text
              \/ (\E x \in Names : Code[c] = Var(x))
         /\ IsForm(c) => Code[c].name \in Names
         /\ IsForm(c) /\ Code[c].name = "<"     => Len(Code[c].args) = 2
         /\ IsForm(c) /\ Code[c].name = "if"    => Len(Code[c].args) = 3
         /\ IsForm(c) /\ Code[c].name = "when"  => Len(Code[c].args) = 2
         /\ IsForm(c) /\ Code[c].name = "progn" => Len(Code[c].args) > 0
<1> DEFINE Forms == [kind : {"form"}, name : Names, args : Seq(Cells)]
<1>1. Code[c] \in Atoms \cup Forms /\ c \in Nat
  <2>1. Code \in Seq(Atoms \cup Forms)
    BY CodeAssumption
  <2>2. c \in 1..Len(Code)
    BY DEF Cells
  <2> HIDE DEF Forms
  <2> QED BY ONLY <2>1, <2>2, ElementOfSeq
<1>2. /\ \A i \in 1..Len(Code[c].args) : Code[c].args[i] < c
      /\ IsForm(c) /\ Code[c].name = "<"     => Len(Code[c].args) = 2
      /\ IsForm(c) /\ Code[c].name = "if"    => Len(Code[c].args) = 3
      /\ IsForm(c) /\ Code[c].name = "when"  => Len(Code[c].args) = 2
      /\ IsForm(c) /\ Code[c].name = "progn" => Len(Code[c].args) > 0
  BY CodeAssumption
<1>3. CASE Code[c] \in Atoms
  <2>1. Code[c].args = <<>> /\ Code[c].kind # "form"
    <3>1. Code[c] = Number \/ Code[c] = Text \/ \E x \in Names : Code[c] = Var(x)
      BY <1>3 DEF Atoms
    <3>2. ASSUME NEW x, Code[c] = Var(x) PROVE Code[c].args = <<>> /\ Code[c].kind # "form"
      BY <3>2 DEF Var
    <3>3. CASE Code[c] \in {Number, Text}
      BY <3>3 DEF Number, Text
    <3> QED BY <3>1, <3>2, <3>3
  <2>2. <<>> \in Seq(Cells) /\ Len(<<>>) = 0
    OBVIOUS
  <2>3. Code[c] = Number \/ Code[c] = Text \/ (\E x \in Names : Code[c] = Var(x))
    BY <1>3 DEF Atoms
  <2> QED BY <1>1, <1>2, <2>1, <2>2, <2>3 DEF IsForm
<1>4. CASE Code[c] \in Forms
  <2>1. Code[c].args \in Seq(Cells) /\ IsForm(c) /\ Code[c].name \in Names
    BY <1>4 DEF IsForm
  <2>2. Len(Code[c].args) \in Nat /\ \A i \in 1..Len(Code[c].args) : Code[c].args[i] \in Cells
    BY <2>1
  <2> QED BY <1>1, <1>2, <2>1, <2>2
<1> QED BY <1>1, <1>3, <1>4

(* A number that every set of positions has which is not empty.            *)
LEMMA MinIs ==
  ASSUME NEW T \in SUBSET Nat, T # {}
  PROVE  Min(T) \in T /\ \A i \in T : Min(T) <= i
<1>1. \E m \in T : \A i \in T : m <= i
  BY LeastOf
<1> QED BY <1>1 DEF Min

LEMMA TypesAreLetters ==
  /\ \A p, i : ArgType(p, i) \in Letters
  /\ \A p : ReturnType(p) \in Letters
BY DEF ArgType, ReturnType, Convert, Letters

(***************************************************************************)
(* inferType.                                                              *)
(***************************************************************************)

LEMMA ToldLetter ==
  ASSUME NEW c \in Cells, NEW x, NEW now, NEW f,
         \A a \in Cells : a < c => f[a] \in Letters
  PROVE  Told(c, x, now, f) \in Letters
<1> DEFINE args     == Code[c].args
           Here(i)  == Code[args[i]] = Var(x)
           Found(i) == IF Here(i) THEN ArgType(now[Code[c].name], i)
                       ELSE IF IsForm(args[i]) THEN f[args[i]] ELSE "u"
           Tells    == {i \in 1..Len(args) : Here(i) \/ Found(i) # "u"}
<1>1. \A i \in 1..Len(args) : Found(i) \in Letters
  BY CellFacts, TypesAreLetters DEF Letters
<1>2. Tells # {} => Min(Tells) \in 1..Len(args)
  <2>1. Tells \subseteq 1..Len(args) /\ Tells \in SUBSET Nat
    OBVIOUS
  <2> HIDE DEF Tells
  <2> QED BY <2>1, MinIs
<1>3. Told(c, x, now, f) = IF Tells = {} THEN "u" ELSE Found(Min(Tells))
  BY DEF Told
<1> HIDE DEF Found, Tells
<1> QED BY <1>1, <1>2, <1>3 DEF Letters

LEMMA ToldLocal ==
  ASSUME NEW c \in Cells, NEW x, NEW now, NEW f, NEW g,
         \A a \in Cells : a < c => f[a] = g[a]
  PROVE  Told(c, x, now, f) = Told(c, x, now, g)
<1> DEFINE args     == Code[c].args
           Here(i)  == Code[args[i]] = Var(x)
           Found(h, i) == IF Here(i) THEN ArgType(now[Code[c].name], i)
                          ELSE IF IsForm(args[i]) THEN h[args[i]] ELSE "u"
           Tells(h) == {i \in 1..Len(args) : Here(i) \/ Found(h, i) # "u"}
<1>1. \A i \in 1..Len(args) : Found(f, i) = Found(g, i)
  BY CellFacts
<1>2. Tells(f) = Tells(g)
  <2> HIDE DEF Found
  <2> QED BY <1>1
<1>3. Tells(f) # {} => Min(Tells(f)) \in 1..Len(args)
  <2>1. Tells(f) \subseteq 1..Len(args) /\ Tells(f) \in SUBSET Nat
    OBVIOUS
  <2> HIDE DEF Tells
  <2> QED BY <2>1, MinIs
<1>4. \A h : Told(c, x, now, h) = IF Tells(h) = {} THEN "u" ELSE Found(h, Min(Tells(h)))
  BY DEF Told
<1> HIDE DEF Found, Tells
<1> QED BY <1>1, <1>2, <1>3, <1>4

(* inferType is what its definition says, and a letter. *)
LEMMA InferTypeIs ==
  ASSUME NEW x, NEW now
  PROVE  \E f \in [Cells -> Letters] : \A e \in Cells :
           f[e] = Told(e, x, now, f) /\ InferType(e, x, now) = f[e]
<1> DEFINE Fs == [Cells -> Letters]
           F  == [c \in Cells |-> [g \in Fs |-> Told(c, x, now, g)]]
<1>1. F \in [Cells -> [Fs -> Letters]]
  BY ToldLetter
<1>2. \A s \in Cells : \A g, h \in Fs :
        (\A t \in Cells : t < s => g[t] = h[t]) => F[s][g] = F[s][h]
  BY ToldLocal
<1>3. \E f \in Fs : \A s \in Cells : f[s] = F[s][f]
  <2>1. Cells \in SUBSET Nat /\ Letters # {}
    BY CellFacts DEF Letters
  <2>2. Inductive(Cells, Letters, F)
    <3> HIDE DEF F
    <3> QED BY <1>1, <1>2, <2>1 DEF Inductive
  <2> HIDE DEF F
  <2> QED BY <2>2, RecursiveFunction
<1>4. PICK f \in Fs : f = [c \in Cells |-> Told(c, x, now, f)]
  BY <1>3
<1>5. PICK g : g = [c \in Cells |-> Told(c, x, now, g)] /\ \A e : InferType(e, x, now) = g[e]
  BY <1>4 DEF InferType
<1>6. \A c \in Cells : g[c] \in Letters
  <2> DEFINE T == {c \in Cells : g[c] \notin Letters}
  <2> SUFFICES ASSUME T # {} PROVE FALSE
    OBVIOUS
  <2>1. PICK c \in T : \A a \in T : c <= a
    <3>1. T \in SUBSET Nat
      BY CellFacts
    <3> HIDE DEF T
    <3> QED BY <3>1, LeastOf
  <2>2. c \in Cells /\ \A a \in Cells : a < c => g[a] \in Letters
    BY <2>1 DEF Cells
  <2> QED BY <1>5, <2>1, <2>2, ToldLetter
<1> QED BY <1>5, <1>6

(***************************************************************************)
(* evalType.                                                               *)
(***************************************************************************)

(* The argument that an evalType reads is there. *)
LEMMA ReadArguments ==
  ASSUME NEW c \in Cells, IsForm(c)
  PROVE  /\ Code[c].name = "if" =>
              /\ Code[c].args[2] \in Cells /\ Code[c].args[2] < c
              /\ Code[c].args[3] \in Cells /\ Code[c].args[3] < c
         /\ Code[c].name = "when" => Code[c].args[2] \in Cells /\ Code[c].args[2] < c
         /\ Code[c].name = "progn" =>
              /\ Code[c].args[Len(Code[c].args)] \in Cells
              /\ Code[c].args[Len(Code[c].args)] < c
<1> DEFINE args == Code[c].args
<1>1. /\ Len(args) \in Nat
      /\ \A i \in 1..Len(args) : args[i] \in Cells /\ args[i] < c
      /\ Code[c].name = "if"    => Len(args) = 3
      /\ Code[c].name = "when"  => Len(args) = 2
      /\ Code[c].name = "progn" => Len(args) > 0
  BY CellFacts
<1> HIDE DEF args
<1>2. /\ Code[c].name = "if" => args[2] \in Cells /\ args[2] < c /\ args[3] \in Cells /\ args[3] < c
      /\ Code[c].name = "when" => args[2] \in Cells /\ args[2] < c
      /\ Code[c].name = "progn" => args[Len(args)] \in Cells /\ args[Len(args)] < c
  BY <1>1
<1> QED BY <1>2 DEF args

LEMMA ValuedLetter ==
  ASSUME NEW c \in Cells, NEW now, NEW known, NEW f,
         \A a \in Cells : a < c => f[a] \in Letters
  PROVE  Valued(c, now, known, f) \in Letters
<1>1. CASE IsForm(c)
  BY <1>1, ReadArguments, TypesAreLetters DEF Valued, IsForm, Letters
<1>2. CASE ~IsForm(c)
  <2>1. Code[c].kind \in {"number", "string", "symbol"}
    <3>1. Code[c] \in {Number, Text} \/ \E x \in Names : Code[c] = Var(x)
      BY <1>2, CellFacts
    <3>2. ASSUME NEW x, Code[c] = Var(x) PROVE Code[c].kind = "symbol"
      BY <3>2 DEF Var
    <3>3. CASE Code[c] \in {Number, Text}
      BY <3>3 DEF Number, Text
    <3> QED BY <3>1, <3>2, <3>3
  <2> QED BY <1>2, <2>1, TypesAreLetters DEF Valued, Letters
<1> QED BY <1>1, <1>2

LEMMA ValuedLocal ==
  ASSUME NEW c \in Cells, NEW now, NEW known, NEW f, NEW g,
         \A a \in Cells : a < c => f[a] = g[a]
  PROVE  Valued(c, now, known, f) = Valued(c, now, known, g)
<1>1. CASE IsForm(c)
  BY <1>1, ReadArguments DEF Valued, IsForm
<1>2. CASE ~IsForm(c)
  BY <1>2 DEF Valued
<1> QED BY <1>1, <1>2

(* evalType is what its definition says, and a letter. *)
LEMMA EvalTypeIs ==
  ASSUME NEW now, NEW known
  PROVE  \E f \in [Cells -> Letters] : \A e \in Cells :
           f[e] = Valued(e, now, known, f) /\ EvalType(e, now, known) = f[e]
<1> DEFINE Fs == [Cells -> Letters]
           F  == [c \in Cells |-> [g \in Fs |-> Valued(c, now, known, g)]]
<1>1. F \in [Cells -> [Fs -> Letters]]
  BY ValuedLetter
<1>2. \A s \in Cells : \A g, h \in Fs :
        (\A t \in Cells : t < s => g[t] = h[t]) => F[s][g] = F[s][h]
  BY ValuedLocal
<1>3. Inductive(Cells, Letters, F)
  <2>1. Cells \in SUBSET Nat /\ Letters # {}
    BY CellFacts DEF Letters
  <2> HIDE DEF F
  <2> QED BY <1>1, <1>2, <2>1 DEF Inductive
<1>4. PICK f \in Fs : f = [c \in Cells |-> Valued(c, now, known, f)]
  <2>1. PICK f \in Fs : \A s \in Cells : f[s] = F[s][f]
    <3> HIDE DEF F
    <3> QED BY <1>3, RecursiveFunction
  <2> QED BY <2>1
<1>5. PICK g : /\ g = [c \in Cells |-> Valued(c, now, known, g)]
               /\ \A e : EvalType(e, now, known) = g[e]
  BY <1>4 DEF EvalType
<1>6. \A c \in Cells : g[c] \in Letters
  <2> DEFINE T == {c \in Cells : g[c] \notin Letters}
  <2> SUFFICES ASSUME T # {} PROVE FALSE
    OBVIOUS
  <2>1. PICK c \in T : \A a \in T : c <= a
    <3>1. T \in SUBSET Nat
      BY CellFacts
    <3> HIDE DEF T
    <3> QED BY <3>1, LeastOf
  <2>2. c \in Cells /\ \A a \in Cells : a < c => g[a] \in Letters
    BY <2>1, CellFacts
  <2> QED BY <1>5, <2>1, <2>2, ValuedLetter
<1> QED BY <1>5, <1>6

(***************************************************************************)
(* What defun does to the prototypes.                                      *)
(***************************************************************************)
Protos == [Names -> Seq(Letters \cup {"*"})]

(* Only parameters of d have other prototypes in p than they have now. *)
OnlyParams(p, d, now) ==
  /\ p \in Protos
  /\ \A x \in Names : (\A k \in 1..Len(d.params) : d.params[k] # x) => p[x] = now[x]

LEMMA DefinitionFacts ==
  ASSUME NEW d \in Definitions
  PROVE  /\ Len(d.params) \in Nat /\ d.body \in Cells /\ IsForm(d.body)
         /\ \A k \in 1..Len(d.params) : d.params[k] \in Params /\ d.params[k] \in Names
         /\ \A j, k \in 1..Len(d.params) : d.params[j] = d.params[k] => j = k
<1>1. d.params \in Seq(Params) /\ d.body \in Cells /\ IsForm(d.body)
  BY CodeAssumption
<1>2. DOMAIN d.params = 1..Len(d.params) /\ Len(d.params) \in Nat
  BY <1>1
<1>3. \A k \in 1..Len(d.params) : d.params[k] \in Params
  BY <1>1, ElementOfSeq
<1>4. IsInjective(d.params)
  BY TypesAssumption
<1> QED BY <1>1, <1>2, <1>3, <1>4 DEF IsInjective, Names

(* Each parameter has the type that was inferred when the parameters before *)
(* it had theirs; no other name has another prototype.                     *)
LEMMA InferredIs ==
  ASSUME NEW d \in Definitions, NEW now \in Protos
  PROVE  /\ OnlyParams(Inferred(d, now), d, now)
         /\ \A k \in 1..Len(d.params) : \E p \in Protos :
              /\ OnlyParams(p, d, now)
              /\ Inferred(d, now)[d.params[k]] = <<InferType(d.body, d.params[k], p)>>
<1> DEFINE n == Len(d.params)
           Step(k, g) == IF k = 0 THEN now
                         ELSE LET p == g[k-1]
                                  x == d.params[k]
                              IN  [p EXCEPT ![x] = <<InferType(d.body, x, p)>>]
           S  == 0..n
           Fs == [S -> Protos]
           F  == [k \in S |-> [g \in Fs |-> Step(k, g)]]
<1>1. ASSUME NEW p \in Protos, NEW x
      PROVE  [p EXCEPT ![x] = <<InferType(d.body, x, p)>>] \in Protos
  <2>1. InferType(d.body, x, p) \in Letters
    BY InferTypeIs, DefinitionFacts
  <2>2. <<InferType(d.body, x, p)>> \in Seq(Letters \cup {"*"})
    BY <2>1
  <2> QED BY <2>2 DEF Protos
<1>2. n \in Nat /\ \A k \in S : k \in Nat /\ (k # 0 => k - 1 \in S /\ k - 1 < k /\ k \in 1..n)
  BY DefinitionFacts
<1> HIDE DEF n, S
<1>3. \A k \in S : \A g \in Fs : Step(k, g) \in Protos
  BY <1>1, <1>2
<1>4. \A k \in S : \A g, h \in Fs :
        (\A j \in S : j < k => g[j] = h[j]) => Step(k, g) = Step(k, h)
  BY <1>2
<1>5. Inductive(S, Protos, F)
  <2>1. S \in SUBSET Nat /\ Protos # {}
    BY <1>2
  <2>2. F \in [S -> [Fs -> Protos]]
    <3> HIDE DEF Step
    <3> QED BY <1>3
  <2>3. \A k \in S : \A g, h \in Fs :
          (\A j \in S : j < k => g[j] = h[j]) => F[k][g] = F[k][h]
    <3> HIDE DEF Step
    <3> QED BY <1>4
  <2> HIDE DEF F
  <2> QED BY <2>1, <2>2, <2>3 DEF Inductive
<1>6. PICK f \in Fs : f = [k \in S |-> Step(k, f)]
  <2>1. PICK f \in Fs : \A k \in S : f[k] = F[k][f]
    <3> HIDE DEF F
    <3> QED BY <1>5, RecursiveFunction
  <2> HIDE DEF Step
  <2> QED BY <2>1
<1>7. PICK after : after = [k \in S |-> Step(k, after)] /\ Inferred(d, now) = after[n]
  BY <1>6 DEF Inferred, n, S
<1> DEFINE Right(k) ==
             /\ OnlyParams(after[k], d, now)
             /\ \A j \in 1..n : j <= k =>
                  \E p \in Protos : /\ OnlyParams(p, d, now)
                                    /\ after[k][d.params[j]] = <<InferType(d.body, d.params[j], p)>>
<1>8. \A k \in S : Right(k)
  <2> DEFINE T == {k \in S : ~Right(k)}
  <2> SUFFICES ASSUME T # {} PROVE FALSE
    OBVIOUS
  <2>1. PICK k \in T : \A j \in T : k <= j
    <3>1. T \in SUBSET Nat
      BY <1>2
    <3> HIDE DEF T
    <3> QED BY <3>1, LeastOf
  <2>2. CASE k = 0
    <3>1. after[k] = now
      BY <1>7, <2>1, <2>2
    <3>2. Right(k)
      BY <3>1, <2>2 DEF OnlyParams
    <3> QED BY <2>1, <3>2
  <2>3. CASE k # 0
    <3> DEFINE p == after[k-1]
               x == d.params[k]
    <3>1. k \in 1..n /\ k - 1 \in S /\ k - 1 < k /\ k \in Nat
      BY <1>2, <2>1, <2>3
    <3>2. Right(k-1)
      BY <2>1, <3>1
    <3>3. after[k] = [p EXCEPT ![x] = <<InferType(d.body, x, p)>>]
      BY <1>7, <2>1, <2>3
    <3>4. x \in Names /\ \A j \in 1..n : j # k => d.params[j] # x
      BY <3>1, DefinitionFacts DEF n
    <3>5. p \in Protos
      BY <3>2 DEF OnlyParams
    <3>6. /\ after[k] \in Protos
          /\ after[k][x] = <<InferType(d.body, x, p)>>
          /\ \A y \in Names : y # x => after[k][y] = p[y]
      <4>1. [p EXCEPT ![x] = <<InferType(d.body, x, p)>>] \in Protos
        BY <1>1, <3>5
      <4> HIDE DEF p, x
      <4> QED BY <3>3, <3>4, <3>5, <4>1 DEF Protos
    <3>7. OnlyParams(after[k], d, now)
      BY <3>1, <3>2, <3>6 DEF OnlyParams, n
    <3>8. ASSUME NEW j \in 1..n, j <= k
          PROVE  \E q \in Protos : /\ OnlyParams(q, d, now)
                                  /\ after[k][d.params[j]] = <<InferType(d.body, d.params[j], q)>>
      <4>1. CASE j = k
        BY <4>1, <3>2, <3>5, <3>6
      <4>2. CASE j # k
        <5>1. j <= k - 1 /\ d.params[j] \in Names /\ d.params[j] # x
          BY <3>1, <3>4, <3>8, <4>2, DefinitionFacts DEF n
        <5> QED BY <3>2, <3>6, <5>1
      <4> QED BY <4>1, <4>2
    <3> QED BY <2>1, <3>7, <3>8
  <2> QED BY <2>2, <2>3
<1>9. n \in S /\ \A j \in 1..n : j <= n
  BY <1>2 DEF S
<1>10. Right(n)
  <2> HIDE DEF Right
  <2> QED BY <1>8, <1>9
<1> QED BY <1>7, <1>9, <1>10 DEF n

(***************************************************************************)
(* The first use of a parameter tells its type.                            *)
(***************************************************************************)
UsedIn(c, x, f) ==
  {i \in 1..Len(Code[c].args) : Code[Code[c].args[i]] = Var(x) \/ f[Code[c].args[i]] # 0}

LEMMA FirstCell ==
  ASSUME NEW c \in Cells, NEW x, NEW f,
         \A a \in Cells : a < c => f[a] \in Cells \cup {0}
  PROVE  First(c, x, f) \in Cells \cup {0}
<1> DEFINE Uses == UsedIn(c, x, f)
<1>1. Uses # {} => Min(Uses) \in 1..Len(Code[c].args)
  <2>1. Uses \subseteq 1..Len(Code[c].args) /\ Uses \in SUBSET Nat
    BY DEF UsedIn
  <2> HIDE DEF Uses
  <2> QED BY <2>1, MinIs
<1> QED BY <1>1, CellFacts DEF First, UsedIn

LEMMA FirstLocal ==
  ASSUME NEW c \in Cells, NEW x, NEW f, NEW g,
         \A a \in Cells : a < c => f[a] = g[a]
  PROVE  First(c, x, f) = First(c, x, g)
<1>1. UsedIn(c, x, f) = UsedIn(c, x, g)
  BY CellFacts DEF UsedIn
<1> DEFINE Uses == UsedIn(c, x, f)
<1>2. Uses # {} => Min(Uses) \in 1..Len(Code[c].args)
  <2>1. Uses \subseteq 1..Len(Code[c].args) /\ Uses \in SUBSET Nat
    BY DEF UsedIn
  <2> HIDE DEF Uses
  <2> QED BY <2>1, MinIs
<1> QED BY <1>1, <1>2, CellFacts DEF First, UsedIn

LEMMA FirstUseIs ==
  ASSUME NEW x
  PROVE  \E f \in [Cells -> Cells \cup {0}] : \A e \in Cells :
           f[e] = First(e, x, f) /\ FirstUse(e, x) = f[e]
<1> DEFINE V  == Cells \cup {0}
           Fs == [Cells -> V]
           F  == [c \in Cells |-> [g \in Fs |-> First(c, x, g)]]
<1>1. F \in [Cells -> [Fs -> V]]
  BY FirstCell
<1>2. \A s \in Cells : \A g, h \in Fs :
        (\A t \in Cells : t < s => g[t] = h[t]) => F[s][g] = F[s][h]
  BY FirstLocal
<1>3. Inductive(Cells, V, F)
  <2>1. Cells \in SUBSET Nat /\ V # {}
    BY CellFacts
  <2> HIDE DEF F, V
  <2> QED BY <1>1, <1>2, <2>1 DEF Inductive
<1>4. PICK f \in Fs : f = [c \in Cells |-> First(c, x, f)]
  <2>1. PICK f \in Fs : \A s \in Cells : f[s] = F[s][f]
    <3> HIDE DEF F, V
    <3> QED BY <1>3, RecursiveFunction
  <2> QED BY <2>1
<1>5. PICK g : g = [c \in Cells |-> First(c, x, g)] /\ \A e : FirstUse(e, x) = g[e]
  BY <1>4 DEF FirstUse
<1>6. \A c \in Cells : g[c] \in V
  <2> DEFINE T == {c \in Cells : g[c] \notin V}
  <2> SUFFICES ASSUME T # {} PROVE FALSE
    OBVIOUS
  <2>1. PICK c \in T : \A a \in T : c <= a
    <3>1. T \in SUBSET Nat
      BY CellFacts
    <3> HIDE DEF T
    <3> QED BY <3>1, LeastOf
  <2>2. c \in Cells /\ \A a \in Cells : a < c => g[a] \in V
    BY <2>1, CellFacts
  <2> QED BY <1>5, <2>1, <2>2, FirstCell
<1> QED BY <1>5, <1>6

(* A parameter that is not used has an unknown type, and one that is first *)
(* used as an operand is a number, whatever the other prototypes are.      *)
LEMMA FirstUseTells ==
  ASSUME NEW x, NEW now, \A n \in Arithmetic : now[n] = Builtin[n], NEW e \in Cells
  PROVE  /\ FirstUse(e, x) = 0 => InferType(e, x, now) = "u"
         /\ FirstUse(e, x) # 0 /\ Code[FirstUse(e, x)].name \in Arithmetic
              => InferType(e, x, now) = "f"
<1>1. PICK f \in [Cells -> Cells \cup {0}] : \A c \in Cells :
         f[c] = First(c, x, f) /\ FirstUse(c, x) = f[c]
  BY FirstUseIs
<1>2. PICK t \in [Cells -> Letters] : \A c \in Cells :
         t[c] = Told(c, x, now, t) /\ InferType(c, x, now) = t[c]
  BY InferTypeIs
<1> DEFINE Right(c) == /\ f[c] = 0 => t[c] = "u"
                       /\ f[c] # 0 /\ Code[f[c]].name \in Arithmetic => t[c] = "f"
<1>3. \A c \in Cells : Right(c)
  <2> DEFINE T == {c \in Cells : ~Right(c)}
  <2> SUFFICES ASSUME T # {} PROVE FALSE
    OBVIOUS
  <2>1. PICK c \in T : \A a \in T : c <= a
    <3>1. T \in SUBSET Nat
      BY CellFacts
    <3> HIDE DEF T
    <3> QED BY <3>1, LeastOf
  <2>2. c \in Cells /\ \A a \in Cells : a < c => Right(a)
    BY <2>1, CellFacts
  <2> DEFINE args     == Code[c].args
             Here(i)  == Code[args[i]] = Var(x)
             Uses     == UsedIn(c, x, f)
             Found(i) == IF Here(i) THEN ArgType(now[Code[c].name], i)
                         ELSE IF IsForm(args[i]) THEN t[args[i]] ELSE "u"
             Tells    == {i \in 1..Len(args) : Here(i) \/ Found(i) # "u"}
  <2>3. /\ f[c] = IF Uses = {} THEN 0 ELSE IF Here(Min(Uses)) THEN c ELSE f[args[Min(Uses)]]
        /\ t[c] = IF Tells = {} THEN "u" ELSE Found(Min(Tells))
    BY <1>1, <1>2, <2>2 DEF First, Told, UsedIn
  <2>4. /\ Uses = {i \in 1..Len(args) : Here(i) \/ f[args[i]] # 0}
        /\ Uses \in SUBSET Nat /\ Tells \in SUBSET Nat
    BY DEF UsedIn
  <2>5. \A i \in 1..Len(args) : args[i] \in Cells /\ args[i] < c /\ Right(args[i])
    BY <2>2, CellFacts
  <2>6. Tells \subseteq Uses
    BY <2>4, <2>5
  <2>7. CASE Uses = {}
    BY <2>1, <2>3, <2>6, <2>7
  <2>8. CASE Uses # {} /\ (f[c] = 0 \/ Code[f[c]].name \notin Arithmetic)
    <3>1. Min(Uses) \in Uses
      BY <2>4, <2>8, MinIs
    <3>2. f[c] # 0
      <4>1. c \in Cells /\ c # 0
        BY <2>2 DEF Cells
      <4> QED BY <2>3, <2>4, <2>8, <3>1, <4>1
    <3> QED BY <2>1, <2>8, <3>2
  <2>9. CASE Uses # {} /\ f[c] # 0 /\ Code[f[c]].name \in Arithmetic
    <3> DEFINE m == Min(Uses)
    <3>1. m \in Uses /\ \A i \in Uses : m <= i
      BY <2>4, <2>9, MinIs
    <3>2. m \in Nat /\ m \in 1..Len(args) /\ (Here(m) \/ f[args[m]] # 0)
      BY <2>4, <3>1
    <3>3. Found(m) = "f"
      <4>1. CASE Here(m)
        <5>1. f[c] = c
          BY <2>3, <2>9, <4>1
        <5>2. Code[c].name \in Arithmetic /\ (Code[c].name = "<" => Len(args) = 2)
          BY <2>2, <2>9, <3>2, <5>1, CellFacts
        <5>3. ArgType(now[Code[c].name], m) = "f"
          <6>1. m \in Nat /\ m > 0 /\ (Code[c].name = "<" => m < 3)
            BY <3>2, <5>2
          <6>2. CASE Code[c].name = "+"
            <7>1. now[Code[c].name] = <<"f", "f", "*">>
              BY <5>2, <6>2 DEF Builtin, Arithmetic
            <7> QED BY <7>1 DEF ArgType, Convert, Letters
          <6>3. CASE Code[c].name = "<"
            <7>1. now[Code[c].name] = <<"f", "f", "f">>
              BY <5>2, <6>3 DEF Builtin, Arithmetic
            <7>2. m = 1 \/ m = 2
              BY <6>1, <6>3
            <7> QED BY <7>1, <7>2 DEF ArgType, Convert, Letters
          <6> QED BY <5>2, <6>2, <6>3 DEF Arithmetic
        <5> QED BY <4>1, <5>3
      <4>2. CASE ~Here(m)
        <5>1. f[c] = f[args[m]] /\ f[args[m]] # 0
          BY <2>3, <2>9, <3>2, <4>2
        <5>2. t[args[m]] = "f"
          BY <2>5, <2>9, <3>2, <5>1
        <5>3. IsForm(args[m])
          <6>1. UsedIn(args[m], x, f) # {}
            BY <1>1, <2>5, <3>2, <5>1 DEF First, UsedIn
          <6> QED BY <2>5, <3>2, <6>1, CellFacts DEF UsedIn
        <5> QED BY <4>2, <5>2, <5>3
      <4> QED BY <4>1, <4>2
    <3>4. m \in Tells /\ \A i \in Tells : m <= i
      BY <2>6, <3>1, <3>2, <3>3
    <3>5. Min(Tells) = m
      <4>1. Min(Tells) \in Tells /\ \A i \in Tells : Min(Tells) <= i
        BY <2>4, <3>4, MinIs
      <4>2. Min(Tells) \in Nat /\ Min(Tells) <= m /\ m <= Min(Tells)
        BY <2>4, <3>4, <4>1
      <4> HIDE DEF Tells, m
      <4> QED BY <3>2, <4>2
    <3>6. t[c] = "f"
      BY <2>3, <3>3, <3>4, <3>5
    <3> QED BY <2>1, <2>9, <3>6
  <2> QED BY <2>7, <2>8, <2>9
<1> QED BY <1>1, <1>2, <1>3

(***************************************************************************)
(* What compile makes of a body.                                           *)
(***************************************************************************)

(* The format string has a letter for each argument that is a number.      *)
LEMMA FormatIs ==
  ASSUME NEW p, NEW n \in Nat
  PROVE  /\ Format(p, n) \in Seq({"f", "s"})
         /\ (\A i \in 1..n : ArgType(p, i) = "f") =>
              Len(Format(p, n)) = n /\ \A i \in 1..n : Format(p, n)[i] = "f"
<1> DEFINE V  == Seq({"f", "s"})
           S  == 0..n
           Fs == [S -> V]
           Step(i, g) == IF i = 0 THEN <<>>
                         ELSE IF ArgType(p, i) \in {"f", "s"} THEN Append(g[i-1], ArgType(p, i))
                         ELSE g[i-1]
           F  == [i \in S |-> [g \in Fs |-> Step(i, g)]]
<1>1. \A i \in S : i \in Nat /\ (i # 0 => i - 1 \in S /\ i - 1 < i /\ i \in 1..n)
  OBVIOUS
<1>2. n \in S /\ S \in SUBSET Nat /\ <<>> \in V
  OBVIOUS
<1> HIDE DEF S
<1>3. \A i \in S : \A g \in Fs : Step(i, g) \in V
  <2> SUFFICES ASSUME NEW i \in S, NEW g \in Fs PROVE Step(i, g) \in V
    OBVIOUS
  <2>1. CASE i = 0
    BY <1>2, <2>1
  <2>2. CASE i # 0
    <3>1. g[i-1] \in V
      BY <1>1, <2>2
    <3>2. ArgType(p, i) \in {"f", "s"} => Append(g[i-1], ArgType(p, i)) \in V
      BY <3>1
    <3> QED BY <2>2, <3>1, <3>2
  <2> QED BY <2>1, <2>2
<1>4. \A i \in S : \A g, h \in Fs :
        (\A j \in S : j < i => g[j] = h[j]) => Step(i, g) = Step(i, h)
  BY <1>1
<1>5. Inductive(S, V, F)
  <2>1. F \in [S -> [Fs -> V]]
    <3> HIDE DEF Step
    <3> QED BY <1>3
  <2>2. \A i \in S : \A g, h \in Fs :
          (\A j \in S : j < i => g[j] = h[j]) => F[i][g] = F[i][h]
    <3> HIDE DEF Step
    <3> QED BY <1>4
  <2> HIDE DEF F, V
  <2> QED BY <1>2, <2>1, <2>2 DEF Inductive
<1>6. PICK f \in Fs : f = [i \in S |-> Step(i, f)]
  <2>1. PICK f \in Fs : \A i \in S : f[i] = F[i][f]
    <3> HIDE DEF F, V
    <3> QED BY <1>5, RecursiveFunction
  <2> HIDE DEF Step
  <2> QED BY <2>1
<1>7. PICK format : format = [i \in S |-> Step(i, format)] /\ Format(p, n) = format[n]
  BY <1>6 DEF Format, S
<1> DEFINE Right(i) ==
             /\ format[i] \in V
             /\ (\A j \in 1..n : ArgType(p, j) = "f") =>
                  Len(format[i]) = i /\ \A j \in 1..i : format[i][j] = "f"
<1>8. \A i \in S : Right(i)
  <2> DEFINE T == {i \in S : ~Right(i)}
  <2> SUFFICES ASSUME T # {} PROVE FALSE
    OBVIOUS
  <2>1. PICK i \in T : \A j \in T : i <= j
    <3>1. T \in SUBSET Nat
      BY <1>2
    <3> HIDE DEF T
    <3> QED BY <3>1, LeastOf
  <2>2. i \in S /\ i \in Nat /\ ~Right(i) /\ format[i] = Step(i, format)
    BY <1>1, <1>7, <2>1
  <2>3. CASE i = 0
    <3>1. format[i] = <<>>
      BY <2>2, <2>3
    <3>2. Right(i)
      BY <3>1, <2>3
    <3> QED BY <2>2, <3>2
  <2>4. CASE i # 0
    <3>1. i - 1 \in S /\ i - 1 < i /\ i \in 1..n /\ i - 1 \in Nat
      BY <1>1, <2>2, <2>4
    <3>2. Right(i-1)
      BY <2>1, <2>2, <3>1
    <3> DEFINE g == format[i-1]
    <3>3. CASE ArgType(p, i) \in {"f", "s"}
      <4>1. format[i] = Append(g, ArgType(p, i)) /\ g \in V
        BY <2>2, <2>4, <3>2, <3>3
      <4>2. /\ format[i] \in V /\ Len(format[i]) = Len(g) + 1 /\ Len(g) \in Nat
            /\ format[i][Len(g) + 1] = ArgType(p, i)
            /\ \A j \in 1..Len(g) : format[i][j] = g[j]
        <5> HIDE DEF g
        <5> QED BY <3>3, <4>1
      <4>3. ASSUME \A j \in 1..n : ArgType(p, j) = "f"
            PROVE  Len(format[i]) = i /\ \A j \in 1..i : format[i][j] = "f"
        <5>1. Len(g) = i - 1 /\ \A j \in 1..(i - 1) : g[j] = "f"
          BY <3>2, <4>3
        <5>2. ArgType(p, i) = "f"
          BY <3>1, <4>3
        <5> HIDE DEF g
        <5> QED BY <2>2, <4>2, <5>1, <5>2
      <4> QED BY <2>2, <4>2, <4>3
    <3>4. CASE ArgType(p, i) \notin {"f", "s"}
      <4>1. format[i] = g
        BY <2>2, <2>4, <3>4
      <4>2. ~(\A j \in 1..n : ArgType(p, j) = "f")
        BY <3>1, <3>4
      <4> QED BY <2>2, <3>2, <4>1, <4>2
    <3> QED BY <3>3, <3>4
  <2> QED BY <2>3, <2>4
<1>9. Right(n)
  <2> HIDE DEF Right
  <2> QED BY <1>2, <1>8
<1> QED BY <1>7, <1>9

LEMMA WithinCells ==
  ASSUME NEW e \in Cells
  PROVE  Within(e) \subseteq Cells
<1> DEFINE V  == SUBSET Cells
           Fs == [Cells -> V]
           Step(c, g) == {c} \cup UNION {g[Code[c].args[i]] : i \in 1..Len(Code[c].args)}
           F  == [c \in Cells |-> [g \in Fs |-> Step(c, g)]]
<1>1. \A c \in Cells : \A i \in 1..Len(Code[c].args) :
        Code[c].args[i] \in Cells /\ Code[c].args[i] < c
  BY CellFacts
<1>2. \A c \in Cells : \A g : (\A a \in Cells : a < c => g[a] \in V) => Step(c, g) \in V
  BY <1>1
<1>3. \A c \in Cells : \A g, h \in Fs :
        (\A a \in Cells : a < c => g[a] = h[a]) => Step(c, g) = Step(c, h)
  <2> SUFFICES ASSUME NEW c \in Cells, NEW g \in Fs, NEW h \in Fs,
                      \A a \in Cells : a < c => g[a] = h[a]
               PROVE  Step(c, g) = Step(c, h)
    OBVIOUS
  <2>1. \A i \in 1..Len(Code[c].args) : g[Code[c].args[i]] = h[Code[c].args[i]]
    BY <1>1
  <2>2. {g[Code[c].args[i]] : i \in 1..Len(Code[c].args)}
          = {h[Code[c].args[i]] : i \in 1..Len(Code[c].args)}
    BY <2>1
  <2> QED BY <2>2
<1>4. Inductive(Cells, V, F)
  <2>1. F \in [Cells -> [Fs -> V]]
    <3> HIDE DEF Step
    <3> QED BY <1>2
  <2>2. \A c \in Cells : \A g, h \in Fs :
          (\A a \in Cells : a < c => g[a] = h[a]) => F[c][g] = F[c][h]
    <3> HIDE DEF Step
    <3> QED BY <1>3
  <2>3. Cells \in SUBSET Nat /\ V # {}
    BY CellFacts
  <2> HIDE DEF F, V
  <2> QED BY <2>1, <2>2, <2>3 DEF Inductive
<1>5. PICK f \in Fs : f = [c \in Cells |-> Step(c, f)]
  <2>1. PICK f \in Fs : \A c \in Cells : f[c] = F[c][f]
    <3> HIDE DEF F, V
    <3> QED BY <1>4, RecursiveFunction
  <2> HIDE DEF Step
  <2> QED BY <2>1
<1>6. PICK g : g = [c \in Cells |-> Step(c, g)] /\ Within(e) = g[e]
  BY <1>5 DEF Within
<1>7. \A c \in Cells : g[c] \in V
  <2> DEFINE T == {c \in Cells : g[c] \notin V}
  <2> SUFFICES ASSUME T # {} PROVE FALSE
    OBVIOUS
  <2>1. PICK c \in T : \A a \in T : c <= a
    <3>1. T \in SUBSET Nat
      BY CellFacts
    <3> HIDE DEF T
    <3> QED BY <3>1, LeastOf
  <2>2. c \in Cells /\ \A a \in Cells : a < c => g[a] \in V
    BY <2>1, CellFacts
  <2>3. g[c] = Step(c, g)
    BY <1>6, <2>2
  <2> HIDE DEF Step, V
  <2> QED BY <1>2, <2>1, <2>2, <2>3
<1> QED BY <1>6, <1>7

(***************************************************************************)
(* The types of the variables.                                             *)
(***************************************************************************)

LEMMA BuiltinTyped ==
  \A n \in DOMAIN Builtin : Builtin[n] \in Seq(Letters \cup {"*"})
<1> SUFFICES ASSUME NEW n \in DOMAIN Builtin
             PROVE  Builtin[n] \in Seq(Letters \cup {"*"})
  OBVIOUS
<1>1. Builtin[n] \in {<<"f", "f", "*">>, <<"f", "f", "f">>, <<"s", "s", "*">>, <<"f", "u">>,
                       <<"l", "l", "*">>, <<>>}
  BY DEF Builtin
<1>2. \A p \in {<<"f", "f", "*">>, <<"f", "f", "f">>, <<"s", "s", "*">>, <<"f", "u">>,
                <<"l", "l", "*">>, <<>>} : p \in Seq(Letters \cup {"*"})
  <2> DEFINE L == Letters \cup {"*"}
  <2>1. \A a, b, c \in L : <<a, b, c>> \in Seq(L)
    <3> HIDE DEF L
    <3> QED OBVIOUS
  <2>2. \A a, b \in L : <<a, b>> \in Seq(L)
    <3> HIDE DEF L
    <3> QED OBVIOUS
  <2>3. <<>> \in Seq(L)
    OBVIOUS
  <2>4. {"f", "s", "l", "u", "*"} \subseteq L
    BY DEF Letters
  <2> HIDE DEF L
  <2>5. <<"f", "f", "*">> \in Seq(L) /\ <<"f", "f", "f">> \in Seq(L) /\ <<"s", "s", "*">> \in Seq(L)
        /\ <<"f", "u">> \in Seq(L) /\ <<"l", "l", "*">> \in Seq(L)
    BY <2>1, <2>2, <2>4
  <2> QED BY <2>3, <2>5 DEF L
<1> HIDE DEF Builtin
<1> QED BY <1>1, <1>2

(* The prototype that defun gives to the function: the type of its value    *)
(* and then those of its parameters.                                       *)
LEMMA DefunInv ==
  ASSUME TypeOK, NEW f \in Functions, NEW d \in Definitions, Defun(f, d)
  PROVE  \E now \in Protos :
           /\ now = Inferred(d, proto)
           /\ OnlyParams(now, d, proto)
           /\ f \in Names
           /\ \A n \in Names : n # f => proto'[n] = now[n]
           /\ proto' \in Protos /\ proto'[f] \in Seq(Letters)
           /\ Len(proto'[f]) = 1 + Len(d.params)
           /\ proto'[f][1] = EvalType(d.body, now, Known)
           /\ \A k \in 1..Len(d.params) : \E p \in Protos :
                /\ OnlyParams(p, d, proto)
                /\ now[d.params[k]] = <<InferType(d.body, d.params[k], p)>>
                /\ proto'[f][k+1] = InferType(d.body, d.params[k], p)
                /\ InferType(d.body, d.params[k], p) \in Letters
<1> DEFINE now  == Inferred(d, proto)
           rest == [i \in 1..Len(d.params) |-> Head(now[d.params[i]])]
           type == ValueType(d, now)
<1>1. /\ OnlyParams(now, d, proto)
      /\ \A k \in 1..Len(d.params) : \E p \in Protos :
           OnlyParams(p, d, proto) /\ now[d.params[k]] = <<InferType(d.body, d.params[k], p)>>
  <2>1. proto \in Protos
    BY DEF TypeOK, Protos
  <2> QED BY <2>1, InferredIs
<1>2. \A x, p : InferType(d.body, x, p) \in Letters
  BY InferTypeIs, DefinitionFacts
<1>3. type = EvalType(d.body, now, Known) /\ type \in Letters
  BY EvalTypeIs, DefinitionFacts DEF ValueType
<1>4. proto' = [now EXCEPT ![f] = <<type>> \o rest]
  BY DEF Defun
<1>5. now \in Protos /\ f \in Names
  BY <1>1 DEF OnlyParams, Names
<1> HIDE DEF now, type
<1>6. \A k \in 1..Len(d.params) : \E p \in Protos :
         /\ OnlyParams(p, d, proto)
         /\ now[d.params[k]] = <<InferType(d.body, d.params[k], p)>>
         /\ rest[k] = InferType(d.body, d.params[k], p)
  <2> SUFFICES ASSUME NEW k \in 1..Len(d.params)
               PROVE  \E p \in Protos :
                        /\ OnlyParams(p, d, proto)
                        /\ now[d.params[k]] = <<InferType(d.body, d.params[k], p)>>
                        /\ rest[k] = InferType(d.body, d.params[k], p)
    OBVIOUS
  <2>1. PICK p \in Protos :
           OnlyParams(p, d, proto) /\ now[d.params[k]] = <<InferType(d.body, d.params[k], p)>>
    BY <1>1
  <2>2. rest[k] = InferType(d.body, d.params[k], p)
    BY <2>1
  <2> QED BY <2>1, <2>2
<1>7. rest \in Seq(Letters) /\ Len(rest) = Len(d.params)
  <2>1. rest \in [1..Len(d.params) -> Letters] /\ Len(d.params) \in Nat
    <3>1. \A k \in 1..Len(d.params) : rest[k] \in Letters
      <4> HIDE DEF rest
      <4> QED BY <1>2, <1>6
    <3>2. rest = [k \in 1..Len(d.params) |-> rest[k]]
      OBVIOUS
    <3> HIDE DEF rest
    <3> QED BY <3>1, <3>2, DefinitionFacts
  <2> HIDE DEF rest
  <2> QED BY <2>1, SequenceOfLength
<1>8. /\ <<type>> \o rest \in Seq(Letters) /\ Len(<<type>> \o rest) = 1 + Len(d.params)
      /\ (<<type>> \o rest)[1] = type
      /\ \A k \in 1..Len(d.params) : (<<type>> \o rest)[k+1] = rest[k]
  <2>1. <<type>> \in Seq(Letters) /\ Len(<<type>>) = 1 /\ <<type>>[1] = type
    BY <1>3
  <2>2. Len(d.params) \in Nat
    BY DefinitionFacts
  <2> HIDE DEF rest
  <2> QED BY <1>7, <2>1, <2>2, ConcatProperties
<1>9. <<type>> \o rest \in Seq(Letters \cup {"*"})
  BY <1>8
<1> DEFINE new == <<type>> \o rest
<1> HIDE DEF new, rest
<1>10. /\ proto'[f] = new
       /\ \A n \in Names : n # f => proto'[n] = now[n]
       /\ proto' \in Protos
  BY <1>4, <1>5, <1>9 DEF Protos, new
<1>11. /\ Len(new) = 1 + Len(d.params) /\ new \in Seq(Letters) /\ new[1] = type
       /\ \A k \in 1..Len(d.params) : new[k+1] = rest[k]
  BY <1>8 DEF new
<1>12. \A k \in 1..Len(d.params) : \E p \in Protos :
         /\ OnlyParams(p, d, proto)
         /\ now[d.params[k]] = <<InferType(d.body, d.params[k], p)>>
         /\ proto'[f][k+1] = InferType(d.body, d.params[k], p)
         /\ InferType(d.body, d.params[k], p) \in Letters
  <2> SUFFICES ASSUME NEW k \in 1..Len(d.params)
               PROVE  \E p \in Protos :
                        /\ OnlyParams(p, d, proto)
                        /\ now[d.params[k]] = <<InferType(d.body, d.params[k], p)>>
                        /\ proto'[f][k+1] = InferType(d.body, d.params[k], p)
                        /\ InferType(d.body, d.params[k], p) \in Letters
    OBVIOUS
  <2>1. PICK p \in Protos :
           /\ OnlyParams(p, d, proto)
           /\ now[d.params[k]] = <<InferType(d.body, d.params[k], p)>>
           /\ rest[k] = InferType(d.body, d.params[k], p)
    BY <1>6
  <2>2. proto'[f][k+1] = rest[k]
    BY <1>10, <1>11
  <2> QED BY <1>2, <2>1, <2>2
<1>13. now = Inferred(d, proto)
  BY DEF now
<1> QED BY <1>1, <1>3, <1>5, <1>10, <1>11, <1>12, <1>13

(* The calls in a body that is compiled, each with what was known of the    *)
(* function that is called.                                                *)
LEMMA EmittedIs ==
  ASSUME TypeOK, NEW e \in Cells, NEW done, NEW s \in Emitted(e, done)
  PROVE  s \in Site /\ \E g \in Functions :
           s.callee = def[g] /\ s.given \in Nat /\ s.fmt = Format(proto[g], s.given)
<1> DEFINE Calls == {c \in Within(e) : IsForm(c) /\ Code[c].name \in Functions \ done}
           SiteOf(c) == [callee |-> def[Code[c].name], given |-> Len(Code[c].args),
                         fmt |-> Format(proto[Code[c].name], Len(Code[c].args))]
<1>1. PICK c \in Calls : s = SiteOf(c)
  BY DEF Emitted
<1>2. c \in Cells /\ Code[c].name \in Functions
  BY <1>1, WithinCells
<1>3. Len(Code[c].args) \in Nat
  BY <1>2, CellFacts
<1>4. Format(proto[Code[c].name], Len(Code[c].args)) \in Seq({"f", "s"})
  BY <1>3, FormatIs
<1>5. def[Code[c].name] \in Definitions \cup {None}
  BY <1>2 DEF TypeOK
<1>6. s \in Site
  BY <1>1, <1>3, <1>4, <1>5 DEF Site
<1> QED BY <1>1, <1>2, <1>3, <1>6

LEMMA TypesInit == Init => TypeOK
<1> SUFFICES ASSUME Init PROVE TypeOK
  OBVIOUS
<1>1. proto \in [Names -> Seq(Letters \cup {"*"})]
  <2>1. <<>> \in Seq(Letters \cup {"*"})
    OBVIOUS
  <2>2. \A n \in Names :
          (IF n \in DOMAIN Builtin THEN Builtin[n] ELSE <<>>) \in Seq(Letters \cup {"*"})
    BY <2>1, BuiltinTyped
  <2> QED BY <2>2 DEF Init
<1> QED BY <1>1 DEF Init, TypeOK

LEMMA TypesNext == TypeOK /\ [Next]_vars => TypeOK'
<1> SUFFICES ASSUME TypeOK, [Next]_vars PROVE TypeOK'
  OBVIOUS
<1>1. ASSUME NEW f \in Functions, NEW d \in Definitions, Defun(f, d) PROVE TypeOK'
  <2>1. proto' \in Protos
    BY <1>1, DefunInv
  <2>2. def' = [def EXCEPT ![f] = d] /\ UNCHANGED <<compiled, sites>>
    BY <1>1 DEF Defun
  <2> QED BY <2>1, <2>2 DEF TypeOK, Protos
<1>2. ASSUME NEW f \in Functions, Compile(f) PROVE TypeOK'
  <2> DEFINE done == {g \in Functions : compiled[g] \/ g = f}
             new  == Emitted(def[f].body, done)
  <2>1. /\ def[f] # None /\ compiled' = [compiled EXCEPT ![f] = TRUE]
        /\ sites' = [sites EXCEPT ![f] = new] /\ UNCHANGED <<def, proto>>
    BY <1>2 DEF Compile, Known
  <2>2. def[f].body \in Cells
    BY <1>2, <2>1, DefinitionFacts DEF TypeOK
  <2>3. new \in SUBSET Site
    BY <2>2, EmittedIs
  <2> HIDE DEF new
  <2> QED BY <1>2, <2>1, <2>3 DEF TypeOK
<1>3. CASE UNCHANGED vars
  BY <1>3 DEF vars, TypeOK
<1> QED BY <1>1, <1>2, <1>3 DEF Next

(* The types of Types: prototypes consist of letters, and format strings of *)
(* those that make call_interpreted read an argument.  (Prototype, codegen.) *)
THEOREM PrototypesTyped == Spec => []TypeOK
<1>1. Init => TypeOK
  BY TypesInit
<1>2. TypeOK /\ [Next]_vars => TypeOK'
  BY TypesNext
<1> QED BY <1>1, <1>2, PTL DEF Spec

(***************************************************************************)
(* The arguments of interpreted functions that compiled code calls.        *)
(***************************************************************************)

(* A function that is no parameter has a prototype that fits its            *)
(* definition: a letter for the value and one for each argument.            *)
Fits(g) ==
  def[g] # None =>
    /\ proto[g] \in Seq(Letters) /\ Len(proto[g]) = 1 + Len(def[g].params)
    /\ Operands(def[g]) => \A k \in 1..Len(def[g].params) : proto[g][k+1] = "f"

IInv ==
  /\ TypeOK
  /\ \A n \in DOMAIN Builtin : proto[n] = Builtin[n]
  /\ \A g \in Functions : Fits(g)
  /\ ArgumentsArrive

(* The call of a function whose prototype fits passes every number on. *)
LEMMA FittingCall ==
  ASSUME NEW p \in Seq(Letters), NEW n \in Nat, Len(p) = 1 + n,
         \A k \in 1..n : p[k+1] = "f", NEW s, s.fmt = Format(p, n)
  PROVE  Arrived(s) = n
<1>1. \A i \in 1..n : ArgType(p, i) = "f"
  <2> SUFFICES ASSUME NEW i \in 1..n PROVE ArgType(p, i) = "f"
    OBVIOUS
  <2>1. ~(Len(p) = 3 /\ p[3] = "*")
    BY DEF Letters
  <2>2. i < Len(p) /\ p[i+1] = "f"
    OBVIOUS
  <2> QED BY <2>1, <2>2 DEF ArgType, Convert, Letters
<1>2. Len(s.fmt) = n /\ \A i \in 1..n : s.fmt[i] = "f"
  BY <1>1, FormatIs
<1>3. {i \in 1..Len(s.fmt) : s.fmt[i] = "f"} = 1..n
  BY <1>2
<1>4. Cardinality(1..n) = n
  BY FS_Interval
<1> QED BY <1>3, <1>4 DEF Arrived

LEMMA IInvInit == Init => IInv
<1> SUFFICES ASSUME Init PROVE IInv
  OBVIOUS
<1>1. \A n \in DOMAIN Builtin : n \in Names
  BY DEF Names
<1>2. \A n \in DOMAIN Builtin : proto[n] = Builtin[n]
  <2> HIDE DEF Builtin
  <2> QED BY <1>1 DEF Init
<1>3. \A g \in Functions : Fits(g)
  BY DEF Init, Fits
<1>4. ArgumentsArrive
  BY DEF Init, ArgumentsArrive
<1> QED BY <1>2, <1>3, <1>4, TypesInit DEF IInv

LEMMA IInvNext ==
  ASSUME Functions \cap Params = {}
  PROVE  IInv /\ [Next]_vars => IInv'
<1> SUFFICES ASSUME IInv, [Next]_vars PROVE IInv'
  OBVIOUS
<1>1. TypeOK /\ TypeOK'
  BY TypesNext DEF IInv
<1>2. ASSUME NEW f \in Functions, NEW d \in Definitions, Defun(f, d) PROVE IInv'
  <2>1. PICK now \in Protos :
           /\ OnlyParams(now, d, proto)
           /\ f \in Names
           /\ \A n \in Names : n # f => proto'[n] = now[n]
           /\ proto'[f] \in Seq(Letters)
           /\ Len(proto'[f]) = 1 + Len(d.params)
           /\ \A k \in 1..Len(d.params) : \E p \in Protos :
                /\ OnlyParams(p, d, proto)
                /\ proto'[f][k+1] = InferType(d.body, d.params[k], p)
    BY <1>1, <1>2, DefunInv
  <2>2. def' = [def EXCEPT ![f] = d] /\ UNCHANGED <<compiled, sites>>
    BY <1>2 DEF Defun
  <2>3. \A n \in DOMAIN Builtin \cup Functions : \A k \in 1..Len(d.params) : d.params[k] # n
    BY DefinitionFacts, TypesAssumption
  <2>4. ASSUME NEW p, OnlyParams(p, d, proto)
        PROVE  \A n \in DOMAIN Builtin \cup Functions : p[n] = proto[n]
    BY <2>3, <2>4 DEF OnlyParams, Names
  <2>5. \A n \in DOMAIN Builtin \cup Functions : n # f => proto'[n] = proto[n]
    BY <2>1, <2>4 DEF Names
  <2>6. \A n \in DOMAIN Builtin : proto'[n] = Builtin[n]
    BY <2>5, TypesAssumption DEF IInv
  <2>7. ASSUME Operands(d), NEW k \in 1..Len(d.params) PROVE proto'[f][k+1] = "f"
    <3>1. PICK p \in Protos : /\ OnlyParams(p, d, proto)
                              /\ proto'[f][k+1] = InferType(d.body, d.params[k], p)
      BY <2>1
    <3>2. \A n \in Arithmetic : p[n] = Builtin[n]
      <4>1. Arithmetic \subseteq DOMAIN Builtin
        BY DEF Arithmetic, Builtin
      <4> HIDE DEF Builtin
      <4> QED BY <2>4, <3>1, <4>1 DEF IInv
    <3>3. FirstUse(d.body, d.params[k]) # 0
          /\ Code[FirstUse(d.body, d.params[k])].name \in Arithmetic
      BY <2>7 DEF Operands
    <3>4. d.body \in Cells
      BY DefinitionFacts
    <3> QED BY <3>1, <3>2, <3>3, <3>4, FirstUseTells
  <2>8. \A g \in Functions : Fits(g)'
    <3> SUFFICES ASSUME NEW g \in Functions PROVE Fits(g)'
      OBVIOUS
    <3>1. CASE g = f
      <4>1. def'[f] = d
        BY <1>1, <2>2 DEF TypeOK
      <4> QED BY <2>1, <2>7, <3>1, <4>1 DEF Fits
    <3>2. CASE g # f
      <4>1. def'[g] = def[g] /\ proto'[g] = proto[g]
        BY <1>1, <2>2, <2>5, <3>2 DEF TypeOK
      <4> QED BY <4>1 DEF IInv, Fits
    <3> QED BY <3>1, <3>2
  <2>9. ArgumentsArrive'
    BY <2>2 DEF IInv, ArgumentsArrive
  <2> QED BY <1>1, <2>6, <2>8, <2>9 DEF IInv
<1>3. ASSUME NEW f \in Functions, Compile(f) PROVE IInv'
  <2> DEFINE done == {g \in Functions : compiled[g] \/ g = f}
             new  == Emitted(def[f].body, done)
  <2>1. def[f] # None /\ sites' = [sites EXCEPT ![f] = new] /\ UNCHANGED <<def, proto>>
    BY <1>3 DEF Compile, Known
  <2>2. def[f].body \in Cells
    BY <1>1, <2>1, DefinitionFacts DEF TypeOK
  <2>3. ASSUME NEW s \in new, s.callee # None, Len(s.callee.params) = s.given, Operands(s.callee)
        PROVE  Arrived(s) = s.given
    <3>1. PICK g \in Functions :
             s.callee = def[g] /\ s.given \in Nat /\ s.fmt = Format(proto[g], s.given)
      BY <1>1, <2>2, <2>3, EmittedIs
    <3>2. /\ proto[g] \in Seq(Letters) /\ Len(proto[g]) = 1 + s.given
          /\ \A k \in 1..s.given : proto[g][k+1] = "f"
      BY <2>3, <3>1 DEF IInv, Fits
    <3> QED BY <3>1, <3>2, FittingCall
  <2> HIDE DEF new
  <2>4. ArgumentsArrive'
    <3> SUFFICES ASSUME NEW g \in Functions, sites'[g] # None, NEW s \in sites'[g],
                        s.callee # None, Len(s.callee.params) = s.given, Operands(s.callee)
                 PROVE  Arrived(s) = s.given
      BY DEF ArgumentsArrive
    <3>1. CASE g = f
      <4>1. s \in new
        BY <1>1, <2>1, <3>1 DEF TypeOK
      <4> QED BY <2>3, <4>1
    <3>2. CASE g # f
      <4>1. sites'[g] = sites[g]
        BY <1>1, <2>1, <3>2 DEF TypeOK
      <4> QED BY <4>1 DEF IInv, ArgumentsArrive
    <3> QED BY <3>1, <3>2
  <2> QED BY <1>1, <2>1, <2>4 DEF IInv, Fits
<1>4. CASE UNCHANGED vars
  BY <1>1, <1>4 DEF vars, IInv, Fits, ArgumentsArrive
<1> QED BY <1>2, <1>3, <1>4 DEF Next

(* If no parameter is called like a function, whose prototype it would      *)
(* change, a function on numbers gets all its arguments from code that was  *)
(* compiled after it was defined, whatever else is defined, in whatever     *)
(* order, before and after.  (inferFunctionType, codegen, call_interpreted.) *)
THEOREM ArgumentsPassed ==
  Functions \cap Params = {} => (Spec => []ArgumentsArrive)
<1> SUFFICES ASSUME Functions \cap Params = {} PROVE Spec => []ArgumentsArrive
  OBVIOUS
<1>1. Init => IInv
  BY IInvInit
<1>2. IInv /\ [Next]_vars => IInv'
  BY IInvNext
<1>3. IInv => ArgumentsArrive
  BY DEF IInv
<1> QED BY <1>1, <1>2, <1>3, PTL DEF Spec

(***************************************************************************)
(* The type of the value.                                                  *)
(***************************************************************************)

(* The types of values that a function may return. *)
Possible(given) == SUBSET ({"f", "s", "a"} \cup {given[n] : n \in Names})

LEMMA CellKinds ==
  ASSUME NEW c \in Cells
  PROVE  \/ Code[c].kind = "number"
         \/ Code[c].kind = "string"
         \/ Code[c].kind = "symbol" /\ Code[c].name \in Names
         \/ IsForm(c) /\ Code[c].kind = "form" /\ Code[c].name \in Names
<1>1. CASE IsForm(c)
  BY <1>1, CellFacts DEF IsForm
<1>2. CASE ~IsForm(c)
  <2>1. Code[c] \in {Number, Text} \/ \E x \in Names : Code[c] = Var(x)
    BY <1>2, CellFacts
  <2>2. ASSUME NEW x \in Names, Code[c] = Var(x)
        PROVE  Code[c].kind = "symbol" /\ Code[c].name \in Names
    BY <2>2 DEF Var
  <2>3. CASE Code[c] \in {Number, Text}
    BY <2>3 DEF Number, Text
  <2> QED BY <2>1, <2>2, <2>3
<1> QED BY <1>1, <1>2

LEMMA ReturnedPossible ==
  ASSUME NEW c \in Cells, NEW given, NEW f,
         \A a \in Cells : a < c => f[a] \in Possible(given)
  PROVE  Returned(c, given, f) \in Possible(given)
<1>1. CASE IsForm(c)
  BY <1>1, CellKinds, ReadArguments DEF Returned, IsForm, Possible
<1>2. CASE ~IsForm(c)
  BY <1>2, CellKinds DEF Returned, Possible
<1> QED BY <1>1, <1>2

LEMMA ReturnedLocal ==
  ASSUME NEW c \in Cells, NEW given, NEW f, NEW g,
         \A a \in Cells : a < c => f[a] = g[a]
  PROVE  Returned(c, given, f) = Returned(c, given, g)
<1>1. CASE IsForm(c)
  BY <1>1, ReadArguments DEF Returned, IsForm
<1>2. CASE ~IsForm(c)
  BY <1>2 DEF Returned
<1> QED BY <1>1, <1>2

LEMMA ResultsIs ==
  ASSUME NEW given
  PROVE  \E f : \A e \in Cells : f[e] = Returned(e, given, f) /\ Results(e, given) = f[e]
<1> DEFINE V  == Possible(given)
           Fs == [Cells -> V]
           F  == [c \in Cells |-> [g \in Fs |-> Returned(c, given, g)]]
<1>1. F \in [Cells -> [Fs -> V]]
  <2> HIDE DEF V
  <2>1. \A c \in Cells : \A g \in Fs : Returned(c, given, g) \in V
    BY ReturnedPossible DEF V
  <2> QED BY <2>1
<1>2. \A s \in Cells : \A g, h \in Fs :
        (\A t \in Cells : t < s => g[t] = h[t]) => F[s][g] = F[s][h]
  <2> HIDE DEF V
  <2> QED BY ReturnedLocal
<1>3. Inductive(Cells, V, F)
  <2>1. Cells \in SUBSET Nat /\ V # {}
    BY CellFacts DEF Possible
  <2> HIDE DEF F, V
  <2> QED BY <1>1, <1>2, <2>1 DEF Inductive
<1>4. PICK f \in Fs : f = [c \in Cells |-> Returned(c, given, f)]
  <2>1. PICK f \in Fs : \A s \in Cells : f[s] = F[s][f]
    <3> HIDE DEF F, V
    <3> QED BY <1>3, RecursiveFunction
  <2> HIDE DEF V
  <2> QED BY <2>1
<1>5. PICK g : /\ g = [c \in Cells |-> Returned(c, given, g)]
               /\ \A e : Results(e, given) = g[e]
  BY <1>4 DEF Results
<1> QED BY <1>5

(* A cell whose type is a number or a string has no other value, if that is *)
(* so of the names in it.                                                  *)
LEMMA TypeIsRight ==
  ASSUME NEW now, NEW known, NEW given, NEW t \in {"f", "s"},
         \A n \in Names : ReturnType(now[n]) = t => given[n] = t,
         NEW e \in Cells, EvalType(e, now, known) = t
  PROVE  Results(e, given) \subseteq {t, "a"}
<1>1. PICK r : \A c \in Cells : r[c] = Returned(c, given, r) /\ Results(c, given) = r[c]
  BY ResultsIs
<1>2. PICK v \in [Cells -> Letters] : \A c \in Cells :
         v[c] = Valued(c, now, known, v) /\ EvalType(c, now, known) = v[c]
  BY EvalTypeIs
<1> DEFINE Right(c) == v[c] = t => r[c] \subseteq {t, "a"}
<1>3. \A c \in Cells : Right(c)
  <2> DEFINE T == {c \in Cells : ~Right(c)}
  <2> SUFFICES ASSUME T # {} PROVE FALSE
    OBVIOUS
  <2>1. PICK c \in T : \A a \in T : c <= a
    <3>1. T \in SUBSET Nat
      BY CellFacts
    <3> HIDE DEF T
    <3> QED BY <3>1, LeastOf
  <2>2. c \in Cells /\ v[c] = t /\ ~(r[c] \subseteq {t, "a"})
        /\ \A a \in Cells : a < c => Right(a)
    BY <2>1, CellFacts
  <2>3. v[c] = Valued(c, now, known, v) /\ r[c] = Returned(c, given, r)
    BY <1>1, <1>2, <2>2
  <2> DEFINE name == Code[c].name
             args == Code[c].args
  <2>4. CASE Code[c].kind \in {"number", "string"}
    BY <2>2, <2>3, <2>4 DEF Valued, Returned, IsForm
  <2>5. CASE Code[c].kind = "symbol"
    <3>1. ReturnType(now[name]) = t /\ r[c] = {given[name]}
      BY <2>2, <2>3, <2>5 DEF Valued, Returned, IsForm
    <3>2. name \in Names
      BY <2>2, <2>5, CellKinds DEF IsForm
    <3> QED BY <2>2, <3>1, <3>2
  <2>6. CASE IsForm(c) /\ name = "if"
    <3>1. /\ args[2] \in Cells /\ args[2] < c /\ args[3] \in Cells /\ args[3] < c
      BY <2>2, <2>6, ReadArguments
    <3>2. v[c] = IF v[args[2]] = v[args[3]] THEN v[args[2]] ELSE "u"
      BY <2>3, <2>6 DEF Valued, IsForm
    <3>3. r[c] = r[args[2]] \cup r[args[3]]
      BY <2>3, <2>6 DEF Returned, IsForm
    <3> QED BY <2>2, <3>1, <3>2, <3>3
  <2>7. CASE IsForm(c) /\ name = "when"
    <3>1. args[2] \in Cells /\ args[2] < c
      BY <2>2, <2>7, ReadArguments
    <3>2. v[c] = v[args[2]] /\ r[c] = r[args[2]] \cup {"a"}
      BY <2>3, <2>7 DEF Valued, Returned, IsForm
    <3> QED BY <2>2, <3>1, <3>2
  <2>8. CASE IsForm(c) /\ name = "progn"
    <3>1. args[Len(args)] \in Cells /\ args[Len(args)] < c
      BY <2>2, <2>8, ReadArguments
    <3>2. v[c] = v[args[Len(args)]] /\ r[c] = r[args[Len(args)]]
      BY <2>3, <2>8 DEF Valued, Returned, IsForm
    <3> QED BY <2>2, <3>1, <3>2
  <2>9. CASE IsForm(c) /\ name \notin {"if", "when", "progn"}
    <3>1. v[c] = (IF name \in known \cup DOMAIN Builtin THEN ReturnType(now[name]) ELSE "l")
      BY <2>3, <2>9 DEF Valued, IsForm
    <3>2. r[c] = {given[name]}
      BY <2>3, <2>9 DEF Returned, IsForm
    <3>3. name \in Names
      BY <2>2, <2>9, CellFacts
    <3> QED BY <2>2, <3>1, <3>2, <3>3
  <2> QED BY <2>2, <2>4, <2>5, <2>6, <2>7, <2>8, <2>9, CellKinds
<1> QED BY <1>1, <1>2, <1>3

LEMMA RightNext == TypeOK /\ [Next]_vars => [ValueRight]_vars
<1> SUFFICES ASSUME TypeOK, [Next]_vars, vars' # vars PROVE ValueRight
  OBVIOUS
<1>1. ASSUME NEW f \in Functions, NEW d \in Definitions, Defun(f, d) PROVE ValueRight
  <2>1. def' = [def EXCEPT ![f] = d]
    BY <1>1 DEF Defun
  <2> SUFFICES ASSUME proto'[f][1] \in {"f", "s"}
               PROVE  Results(d.body, Given(d, f)) \subseteq {proto'[f][1], "a"}
    BY <2>1 DEF TypeOK, ValueRight
  <2>2. PICK now \in Protos :
           /\ now = Inferred(d, proto)
           /\ OnlyParams(now, d, proto)
           /\ f \in Names
           /\ \A n \in Names : n # f => proto'[n] = now[n]
           /\ proto' \in Protos /\ proto'[f] \in Seq(Letters)
           /\ Len(proto'[f]) = 1 + Len(d.params)
           /\ proto'[f][1] = EvalType(d.body, now, Known)
           /\ \A k \in 1..Len(d.params) : \E p \in Protos :
                /\ OnlyParams(p, d, proto)
                /\ now[d.params[k]] = <<InferType(d.body, d.params[k], p)>>
                /\ proto'[f][k+1] = InferType(d.body, d.params[k], p)
                /\ InferType(d.body, d.params[k], p) \in Letters
    BY <1>1, DefunInv
  <2> DEFINE t == proto'[f][1]
  <2>3. ASSUME NEW n \in Names, ReturnType(now[n]) = t PROVE Given(d, f)[n] = t
    <3>1. CASE \E i \in 1..Len(d.params) : d.params[i] = n
      <4> DEFINE k == CHOOSE i \in 1..Len(d.params) : d.params[i] = n
      <4>1. k \in 1..Len(d.params) /\ d.params[k] = n
        BY <3>1
      <4>2. Given(d, f)[n] = proto'[f][1 + k]
        BY <3>1 DEF Given
      <4> HIDE DEF k
      <4>3. PICK p \in Protos :
               /\ now[n] = <<InferType(d.body, n, p)>>
               /\ proto'[f][k+1] = InferType(d.body, n, p)
               /\ InferType(d.body, n, p) \in Letters
        BY <2>2, <4>1
      <4>4. ReturnType(now[n]) = InferType(d.body, n, p)
        BY <4>3 DEF ReturnType, Convert
      <4>5. 1 + k = k + 1
        BY <4>1
      <4> QED BY <2>3, <4>2, <4>3, <4>4, <4>5
    <3>2. CASE ~\E i \in 1..Len(d.params) : d.params[i] = n
      <4>1. Given(d, f)[n] = ReturnType(proto'[n])
        BY <3>2 DEF Given
      <4>2. CASE n = f
        <5>1. proto'[f] # <<>> /\ t \in Letters
          <6>1. Len(d.params) \in Nat
            BY DefinitionFacts
          <6> QED BY <2>2, <6>1 DEF Letters
        <5> QED BY <4>1, <4>2, <5>1 DEF ReturnType, Convert
      <4>3. CASE n # f
        BY <2>2, <2>3, <4>1, <4>3
      <4> QED BY <4>2, <4>3
    <3> QED BY <3>1, <3>2
  <2>4. d.body \in Cells
    BY DefinitionFacts
  <2> HIDE DEF t
  <2>5. t \in {"f", "s"} /\ EvalType(d.body, now, Known) = t
    BY <2>2 DEF t
  <2>6. Results(d.body, Given(d, f)) \subseteq {t, "a"}
    BY <2>3, <2>4, <2>5, TypeIsRight
  <2> QED BY <2>6 DEF t
<1>2. ASSUME NEW f \in Functions, Compile(f) PROVE ValueRight
  BY <1>2 DEF Compile, ValueRight
<1> QED BY <1>1, <1>2 DEF Next

(* When a prototype says that a function returns a number or a string, no   *)
(* branch of its body gives anything else, given the types of the arguments *)
(* and of what it calls, but the nil of a `when'.  (inferFunctionType,      *)
(* evalType.)                                                              *)
THEOREM ValueTypes == Spec => ValueTypeRight
<1>1. Init => TypeOK
  BY TypesInit
<1>2. TypeOK /\ [Next]_vars => TypeOK'
  BY TypesNext
<1>3. TypeOK /\ [Next]_vars => [ValueRight]_vars
  BY RightNext
<1> QED BY <1>1, <1>2, <1>3, PTL DEF Spec, ValueTypeRight
=============================================================================
