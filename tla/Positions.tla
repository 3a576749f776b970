----------------------------- MODULE Positions -----------------------------
(* Facts about positions in a sequence, and about recursion over them, that *)
(* several proofs need.                                                    *)
EXTENDS Integers, SequenceTheorems, WellFoundedInduction, TLAPS

(* A function on the first n positions is a sequence of length n. *)
LEMMA SequenceOfLength ==
  ASSUME NEW S, NEW n \in Nat, NEW s \in [1..n -> S]
  PROVE  s \in Seq(S) /\ Len(s) = n
<1>1. s \in Seq(S)
  BY SeqDef
<1>2. DOMAIN s = 1..n
  OBVIOUS
<1>3. Len(s) \in Nat /\ DOMAIN s = 1..Len(s)
  BY <1>1, LenProperties
<1>4. Len(s) = n
  BY <1>2, <1>3
<1> QED BY <1>1, <1>4

(* A non-empty set of positions has a last one. *)
LEMMA LastPosition ==
  ASSUME NEW n \in Nat, NEW hits, hits \subseteq 1..n, hits # {}
  PROVE  \E i \in hits : \A j \in hits : j <= i
<1> DEFINE R == OpToRel(<, Nat)
           T == {k \in Nat : n - k \in hits}
<1>1. T \subseteq Nat /\ T # {}
  <2>1. PICK i \in hits : TRUE
    OBVIOUS
  <2>2. i \in 1..n /\ n - i \in Nat /\ n - (n - i) = i
    BY <2>1
  <2> QED BY <2>1, <2>2
<1>2. PICK d \in T : \A e \in T : ~(<<e, d>> \in R)
  <2> HIDE DEF R, T
  <2> QED BY <1>1, WFMin, NatLessThanWellFounded DEF R
<1>3. \A e \in T : d <= e
  <2> SUFFICES ASSUME NEW e \in T PROVE d <= e
    OBVIOUS
  <2>1. ~(<<e, d>> \in R) /\ e \in Nat /\ d \in Nat
    BY <1>1, <1>2
  <2> QED BY <2>1 DEF OpToRel
<1>4. ASSUME NEW j \in hits PROVE j <= n - d
  <2>1. j \in 1..n /\ n - j \in Nat /\ n - (n - j) = j
    BY <1>4
  <2>2. d <= n - j
    BY <1>3, <2>1, <1>4
  <2>3. d \in Nat
    BY <1>2
  <2> QED BY ONLY <2>1, <2>2, <2>3, n \in Nat
<1>5. n - d \in hits
  BY <1>2
<1>6. WITNESS n - d \in hits
<1> QED BY <1>4

(***************************************************************************)
(* Recursion over natural numbers.                                         *)
(***************************************************************************)

(* A non-empty set of natural numbers has a least element.                 *)
LEMMA LeastOf ==
  ASSUME NEW T \in SUBSET Nat, T # {}
  PROVE  \E m \in T : \A n \in T : m <= n
<1> DEFINE R == OpToRel(<, Nat)
<1>1. PICK m \in T : \A n \in T : ~(<<n, m>> \in R)
  <2> HIDE DEF R
  <2> QED BY WFMin, NatLessThanWellFounded DEF R
<1>2. ASSUME NEW n \in T PROVE m <= n
  <2>1. ~(<<n, m>> \in R) /\ n \in Nat /\ m \in Nat
    BY <1>1, <1>2
  <2> QED BY <2>1 DEF OpToRel
<1> QED BY <1>2

(* F says what the value of a function at s is, given the function: only   *)
(* its values at smaller numbers matter.                                   *)
Inductive(S, V, F) ==
  /\ S \in SUBSET Nat /\ V # {}
  /\ F \in [S -> [[S -> V] -> V]]
  /\ \A s \in S : \A g, h \in [S -> V] :
       (\A t \in S : t < s => g[t] = h[t]) => F[s][g] = F[s][h]

(* There is a function with these values. *)
LEMMA RecursiveFunction ==
  ASSUME NEW S, NEW V, NEW F, Inductive(S, V, F)
  PROVE  \E f \in [S -> V] : \A s \in S : f[s] = F[s][f]
<1> USE DEF Inductive
<1> DEFINE Upto(n) == {g \in [S -> V] : \A s \in S : s < n => g[s] = F[s][g]}
<1>1. ASSUME NEW m \in Nat, NEW n \in Nat, m <= n, NEW g \in Upto(m), NEW h \in Upto(n)
      PROVE  \A s \in S : s < m => g[s] = h[s]
  <2> DEFINE T == {s \in S : s < m /\ g[s] # h[s]}
  <2> SUFFICES ASSUME T # {} PROVE FALSE
    OBVIOUS
  <2>1. PICK s \in T : \A t \in T : s <= t
    BY LeastOf
  <2>2. \A t \in S : t < s => g[t] = h[t]
    BY <2>1
  <2>3. F[s][g] = F[s][h]
    <3>1. s \in S /\ g \in [S -> V] /\ h \in [S -> V]
      BY <1>1, <2>1
    <3> HIDE DEF Upto, T
    <3> QED BY <2>2, <3>1
  <2> QED BY <1>1, <2>1, <2>3
<1>2. \A n \in Nat : Upto(n) # {}
  <2> DEFINE T == {n \in Nat : Upto(n) = {}}
  <2> SUFFICES ASSUME T # {} PROVE FALSE
    BY ZenonT(30)
  <2>1. PICK n \in T : \A k \in T : n <= k
    BY LeastOf
  <2>2. n # 0
    <3>1. PICK v \in V : TRUE
      OBVIOUS
    <3>2. [s \in S |-> v] \in Upto(0)
      OBVIOUS
    <3> QED BY <2>1, <3>2
  <2>3. n - 1 \in Nat /\ Upto(n - 1) # {}
    <3>1. n \in Nat /\ n - 1 \in Nat /\ ~(n <= n - 1)
      BY <2>1, <2>2
    <3> HIDE DEF Upto
    <3> QED BY <2>1, <3>1
  <2>4. PICK g \in Upto(n - 1) : TRUE
    BY <2>3
  <2> DEFINE h == [s \in S |-> IF s = n - 1 THEN F[s][g] ELSE g[s]]
  <2>5. h \in [S -> V]
    BY <2>4
  <2>6. \A s \in S : s < n => F[s][h] = F[s][g]
    <3> SUFFICES ASSUME NEW s \in S, s < n PROVE F[s][h] = F[s][g]
      OBVIOUS
    <3>1. \A t \in S : t < s => h[t] = g[t]
      BY <2>1, <2>3
    <3>2. g \in [S -> V]
      BY <2>4
    <3> HIDE DEF h, T, Upto
    <3> QED BY <2>5, <3>1, <3>2
  <2>7. \A s \in S : s < n => h[s] = F[s][g]
    BY <2>1, <2>3, <2>4
  <2>8. h \in Upto(n)
    <3> HIDE DEF h
    <3> QED BY <2>5, <2>6, <2>7
  <2> QED BY <2>1, <2>8
<1> DEFINE G(s) == CHOOSE g : g \in Upto(s + 1)
           f    == [s \in S |-> G(s)[s]]
<1>3. \A s \in S : G(s) \in Upto(s + 1)
  <2> SUFFICES ASSUME NEW s \in S PROVE G(s) \in Upto(s + 1)
    OBVIOUS
  <2>1. \E g : g \in Upto(s + 1)
    <3>1. s + 1 \in Nat
      OBVIOUS
    <3> HIDE DEF Upto
    <3> QED BY <1>2, <3>1
  <2> HIDE DEF Upto
  <2> QED BY <2>1
<1>4. f \in [S -> V]
  BY <1>3
<1>5. \A s \in S : f[s] = F[s][f]
  <2> SUFFICES ASSUME NEW s \in S PROVE f[s] = F[s][f]
    OBVIOUS
  <2>1. \A t \in S : t < s => f[t] = G(s)[t]
    <3> SUFFICES ASSUME NEW t \in S, t < s PROVE f[t] = G(s)[t]
      OBVIOUS
    <3> HIDE DEF Upto, G
    <3>1. G(t) \in Upto(t + 1) /\ G(s) \in Upto(s + 1)
      BY <1>3
    <3>2. t + 1 \in Nat /\ s + 1 \in Nat /\ t + 1 <= s + 1 /\ t < t + 1
      OBVIOUS
    <3> QED BY <1>1, <3>1, <3>2
  <2>2. G(s) \in [S -> V] /\ G(s)[s] = F[s][G(s)]
    <3>1. G(s) \in Upto(s + 1)
      <4> HIDE DEF Upto, G
      <4> QED BY <1>3
    <3> HIDE DEF G
    <3> QED BY <3>1
  <2> HIDE DEF G
  <2>3. F[s][f] = F[s][G(s)]
    <3> HIDE DEF f
    <3> QED BY <1>4, <2>1, <2>2
  <2> QED BY <2>2, <2>3
<1> HIDE DEF f
<1> QED BY <1>4, <1>5
=============================================================================
