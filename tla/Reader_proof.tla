---------------------------- MODULE Reader_proof ----------------------------
(***************************************************************************)
(* The reader on any text, and on texts that are written by Notation.      *)
(***************************************************************************)
EXTENDS Notation, Positions

(***************************************************************************)
(* The stream.                                                             *)
(***************************************************************************)
LEMMA EndIs ==
  ASSUME NEW C, NEW t \in Seq(C)
  PROVE  Len(t) \in Nat /\ End(t) \in Nat /\ End(t) = Len(t) + 1 /\ End(t) >= 1
BY DEF End

LEMMA SkipIs ==
  ASSUME NEW C, NEW t \in Seq(C), NEW i \in 1..End(t)
  PROVE  /\ SkipBlanks(t, i) \in i..End(t)
         /\ SkipBlanks(t, i) = End(t) \/ t[SkipBlanks(t, i)] # Blank
         /\ \A k \in i..(SkipBlanks(t, i) - 1) : t[k] = Blank
         /\ \A j \in i..End(t) :
              (j = End(t) \/ t[j] # Blank) /\ (\A k \in i..(j - 1) : t[k] = Blank)
                => SkipBlanks(t, i) = j
<1> DEFINE T == {j \in i..End(t) : j = End(t) \/ t[j] # Blank}
           P(j) == (j = End(t) \/ t[j] # Blank) /\ \A k \in i..(j - 1) : t[k] = Blank
<1>e. Len(t) \in Nat /\ End(t) \in Nat
  BY EndIs
<1>1. PICK m \in T : \A j \in T : m <= j
  <2>1. T \in SUBSET Nat /\ T # {}
    BY <1>e
  <2> HIDE DEF T
  <2> QED BY <2>1, LeastOf
<1>2. m \in i..End(t) /\ P(m)
  BY <1>e, <1>1
<1>3. SkipBlanks(t, i) = CHOOSE j \in i..End(t) : P(j)
  BY DEF SkipBlanks
<1>4. SkipBlanks(t, i) \in i..End(t) /\ P(SkipBlanks(t, i))
  <2> HIDE DEF P
  <2> QED BY <1>2, <1>3
<1>5. ASSUME NEW j \in i..End(t), NEW k \in i..End(t), P(j), P(k) PROVE ~(j < k)
  BY <1>e, <1>5
<1>6. \A j \in i..End(t) : P(j) => SkipBlanks(t, i) = j
  <2> DEFINE s == SkipBlanks(t, i)
  <2> SUFFICES ASSUME NEW j \in i..End(t), P(j) PROVE s = j
    OBVIOUS
  <2>1. ~(j < s) /\ ~(s < j)
    <3> HIDE DEF P, s
    <3> QED BY <1>4, <1>5 DEF s
  <2>2. j \in Nat /\ s \in Nat
    BY <1>4, <1>e
  <2> HIDE DEF s
  <2> QED BY <2>1, <2>2
<1> QED BY <1>4, <1>6

LEMMA FindIs ==
  ASSUME NEW C, NEW t \in Seq(C), NEW i \in 1..End(t), NEW ch
  PROVE  /\ FindNext(t, i, ch) \in i..End(t)
         /\ FindNext(t, i, ch) = End(t) \/ t[FindNext(t, i, ch)] = ch
         /\ \A k \in i..(FindNext(t, i, ch) - 1) : t[k] # ch
         /\ \A j \in i..End(t) :
              (j = End(t) \/ t[j] = ch) /\ (\A k \in i..(j - 1) : t[k] # ch)
                => FindNext(t, i, ch) = j
<1> DEFINE T == {j \in i..End(t) : j = End(t) \/ t[j] = ch}
           P(j) == (j = End(t) \/ t[j] = ch) /\ \A k \in i..(j - 1) : t[k] # ch
<1>e. Len(t) \in Nat /\ End(t) \in Nat
  BY EndIs
<1>1. PICK m \in T : \A j \in T : m <= j
  <2>1. T \in SUBSET Nat /\ T # {}
    BY <1>e
  <2> HIDE DEF T
  <2> QED BY <2>1, LeastOf
<1>2. m \in i..End(t) /\ P(m)
  BY <1>e, <1>1
<1>3. FindNext(t, i, ch) = CHOOSE j \in i..End(t) : P(j)
  BY DEF FindNext
<1>4. FindNext(t, i, ch) \in i..End(t) /\ P(FindNext(t, i, ch))
  <2> HIDE DEF P
  <2> QED BY <1>2, <1>3
<1>5. ASSUME NEW j \in i..End(t), NEW k \in i..End(t), P(j), P(k) PROVE ~(j < k)
  BY <1>e, <1>5
<1>6. \A j \in i..End(t) : P(j) => FindNext(t, i, ch) = j
  <2> DEFINE s == FindNext(t, i, ch)
  <2> SUFFICES ASSUME NEW j \in i..End(t), P(j) PROVE s = j
    OBVIOUS
  <2>1. ~(j < s) /\ ~(s < j)
    <3> HIDE DEF P, s
    <3> QED BY <1>4, <1>5 DEF s
  <2>2. j \in Nat /\ s \in Nat
    BY <1>4, <1>e
  <2> HIDE DEF s
  <2> QED BY <2>1, <2>2
<1> QED BY <1>4, <1>6

(* What is read as an atom ends behind where it begins. *)
LEMMA AtomNext ==
  ASSUME NEW C, NEW t \in Seq(C), NEW j \in 1..Len(t), t[j] # Blank
  PROVE  ParseAtom(t, j).next \in (j+1)..End(t)
<1>e. /\ Len(t) \in Nat /\ End(t) = Len(t) + 1 /\ j \in Nat
      /\ j \in 1..End(t) /\ j + 1 \in 1..End(t) /\ j < End(t)
  BY EndIs
<1>1. CASE t[j] = "\""
  <2> DEFINE k == FindNext(t, j + 1, "\"")
  <2>1. k \in (j+1)..End(t)
    BY <1>e, FindIs
  <2>2. ParseAtom(t, j).next = IF k = End(t) THEN k ELSE k + 1
    BY <1>1, <1>e DEF ParseAtom, ParseString, Read
  <2> HIDE DEF k
  <2> QED BY <1>e, <2>1, <2>2
<1>2. CASE t[j] # "\""
  <2> DEFINE k == FindNext(t, j, Blank)
  <2>1. k \in j..End(t) /\ (k = End(t) \/ t[k] = Blank)
    BY <1>e, FindIs
  <2>2. ParseAtom(t, j).next = k
    BY <1>2 DEF ParseAtom, Read
  <2> HIDE DEF k
  <2> QED BY <1>e, <2>1, <2>2
<1> QED BY <1>1, <1>2

-----------------------------------------------------------------------------
(* Where the lists that begin behind i end. *)
Ends(t, g, i) == \A s \in 1..End(t) : s > i => g[s].next \in s..End(t)

LEMMA CellNext ==
  ASSUME NEW C, NEW t \in Seq(C), NEW i \in 1..End(t), NEW g, Ends(t, g, i),
         SkipBlanks(t, i) < End(t)
  PROVE  ParseCell(t, i, g).next \in (SkipBlanks(t, i) + 1)..End(t)
<1> DEFINE q == SkipBlanks(t, i)
           quoted == t[q] \in Quotes
           j == IF quoted THEN SkipBlanks(t, q + 1) ELSE q
           r == IF j < End(t) /\ t[j] = "(" THEN g[j + 1] ELSE ParseAtom(t, j)
<1>e. Len(t) \in Nat /\ End(t) = Len(t) + 1 /\ End(t) \in Nat
  BY EndIs
<1>1. q \in i..End(t) /\ q < End(t) /\ q + 1 \in 1..End(t) /\ q \in 1..Len(t)
  BY <1>e, SkipIs
<1>2. j \in q..End(t) /\ (quoted => j \in (q + 1)..End(t)) /\ (j = End(t) \/ t[j] # Blank)
  <2>1. CASE quoted
    <3>1. SkipBlanks(t, q + 1) \in (q+1)..End(t)
          /\ (SkipBlanks(t, q + 1) = End(t) \/ t[SkipBlanks(t, q + 1)] # Blank)
      <4> HIDE DEF q
      <4> QED BY <1>1, SkipIs
    <3> HIDE DEF q
    <3> QED BY <1>e, <1>1, <2>1, <3>1
  <2>2. CASE ~quoted
    BY <1>1, <2>2, SkipIs, <1>e
  <2> QED BY <2>1, <2>2
<1>3. ParseCell(t, i, g).next = r.next
  BY <1>1 DEF ParseCell, Read
<1> HIDE DEF q, quoted
<1>4. CASE j < End(t) /\ t[j] = "("
  <2>1. j + 1 \in 1..End(t) /\ j + 1 > i /\ j + 1 > q
    BY <1>1, <1>2, <1>4, <1>e
  <2>2. g[j + 1].next \in (j+1)..End(t)
    BY <2>1 DEF Ends
  <2> HIDE DEF j
  <2> QED BY <1>3, <1>4, <1>e, <1>1, <1>2, <2>1, <2>2 DEF q
<1>5. CASE j < End(t) /\ t[j] # "("
  <2>1. j \in 1..Len(t) /\ t[j] # Blank
    BY <1>1, <1>2, <1>5, <1>e
  <2>2. ParseAtom(t, j).next \in (j+1)..End(t)
    <3> HIDE DEF j
    <3> QED BY <2>1, AtomNext
  <2> HIDE DEF j
  <2> QED BY <1>3, <1>5, <1>e, <1>1, <1>2, <2>1, <2>2 DEF q
<1>6. CASE ~(j < End(t))
  <2>1. j = End(t) /\ quoted
    BY <1>1, <1>2, <1>6, <1>e
  <2>2. ParseAtom(t, End(t)).next = FindNext(t, End(t), Blank)
    <3>1. ~(End(t) < End(t))
      BY <1>e
    <3> QED BY <3>1 DEF ParseAtom, Read
  <2>3. FindNext(t, End(t), Blank) \in End(t)..End(t)
    BY <1>e, FindIs
  <2> HIDE DEF j
  <2> QED BY <1>3, <1>e, <1>1, <2>1, <2>2, <2>3 DEF q
<1> QED BY <1>4, <1>5, <1>6

LEMMA CellLocal ==
  ASSUME NEW C, NEW t \in Seq(C), NEW i \in 1..End(t), NEW g, NEW h,
         \A s \in 1..End(t) : s > i => g[s] = h[s]
  PROVE  ParseCell(t, i, g) = ParseCell(t, i, h)
<1> DEFINE q == SkipBlanks(t, i)
           quoted == q < End(t) /\ t[q] \in Quotes
           j == IF quoted THEN SkipBlanks(t, q + 1) ELSE q
<1>e. Len(t) \in Nat /\ End(t) = Len(t) + 1 /\ End(t) \in Nat
  BY EndIs
<1>1. q \in i..End(t)
  BY SkipIs
<1>2. j \in i..End(t)
  <2>1. CASE quoted
    <3>1. q + 1 \in 1..End(t)
      BY <1>e, <1>1, <2>1
    <3>2. SkipBlanks(t, q + 1) \in (q+1)..End(t)
      <4> HIDE DEF q
      <4> QED BY <3>1, SkipIs
    <3> HIDE DEF q
    <3> QED BY <1>e, <1>1, <2>1, <3>2
  <2>2. CASE ~quoted
    BY <1>1, <2>2
  <2> QED BY <2>1, <2>2
<1>3. j < End(t) => g[j + 1] = h[j + 1]
  <2> HIDE DEF j
  <2> QED BY <1>e, <1>2
<1> QED BY <1>3 DEF ParseCell

(***************************************************************************)
(* Lists.                                                                  *)
(***************************************************************************)
LEMMA RestNext ==
  ASSUME NEW C, NEW t \in Seq(C), NEW i \in 1..End(t), NEW g, Ends(t, g, i)
  PROVE  ParseRest(t, i, g).next \in i..End(t)
<1> DEFINE j == SkipBlanks(t, i)
           r == ParseCell(t, j, g)
<1>e. Len(t) \in Nat /\ End(t) = Len(t) + 1 /\ End(t) \in Nat
  BY EndIs
<1>1. j \in i..End(t) /\ (j = End(t) \/ t[j] # Blank)
  BY SkipIs
<1>2. CASE j = End(t)
  BY <1>e, <1>2 DEF ParseRest, Read
<1>3. CASE j # End(t) /\ t[j] = ")"
  <2>1. ParseRest(t, i, g).next = j + 1
    BY <1>3 DEF ParseRest, Read
  <2> HIDE DEF j
  <2> QED BY <1>e, <1>1, <1>3, <2>1
<1>4. CASE j # End(t) /\ t[j] # ")"
  <2>1. ParseRest(t, i, g).next = g[r.next].next
    BY <1>4 DEF ParseRest, Read
  <2>2. r.next \in (j + 1)..End(t)
    <3> HIDE DEF j
    <3>1. j \in 1..End(t) /\ j \in Nat /\ Ends(t, g, j) /\ j < End(t)
      BY <1>e, <1>1, <1>4 DEF Ends
    <3>2. SkipBlanks(t, j) = j
      BY <1>1, <1>e, <3>1, SkipIs
    <3> QED BY <3>1, <3>2, CellNext
  <2>3. r.next \in 1..End(t) /\ r.next > i
    <3> HIDE DEF j, r
    <3> QED BY <1>e, <1>1, <2>2
  <2>4. g[r.next].next \in r.next..End(t)
    <3> HIDE DEF j, r
    <3> QED BY <2>3 DEF Ends
  <2> HIDE DEF j, r
  <2> QED BY <1>e, <1>1, <2>1, <2>2, <2>4
<1> QED BY <1>2, <1>3, <1>4

LEMMA RestLocal ==
  ASSUME NEW C, NEW t \in Seq(C), NEW i \in 1..End(t), NEW g, NEW h, Ends(t, g, i),
         \A s \in 1..End(t) : s > i => g[s] = h[s]
  PROVE  ParseRest(t, i, g) = ParseRest(t, i, h)
<1> DEFINE j == SkipBlanks(t, i)
           r == ParseCell(t, j, g)
<1>e. Len(t) \in Nat /\ End(t) = Len(t) + 1 /\ End(t) \in Nat
  BY EndIs
<1>1. j \in i..End(t) /\ (j = End(t) \/ t[j] # Blank)
  BY SkipIs
<1>2. r = ParseCell(t, j, h)
  <2> HIDE DEF j
  <2>1. j \in 1..End(t) /\ \A s \in 1..End(t) : s > j => g[s] = h[s]
    BY <1>e, <1>1
  <2> QED BY <2>1, CellLocal
<1>3. ASSUME j # End(t) PROVE g[r.next] = h[r.next]
  <2>1. r.next \in (j + 1)..End(t)
    <3> HIDE DEF j
    <3>1. j \in 1..End(t) /\ j \in Nat /\ Ends(t, g, j) /\ j < End(t)
      BY <1>e, <1>1, <1>3 DEF Ends
    <3>2. SkipBlanks(t, j) = j
      BY <1>1, <1>e, <3>1, SkipIs
    <3> QED BY <3>1, <3>2, CellNext
  <2>2. r.next \in 1..End(t) /\ r.next > i
    <3> HIDE DEF j, r
    <3> QED BY <1>e, <1>1, <2>1
  <2> HIDE DEF j, r
  <2> QED BY <2>2
<1> QED BY <1>2, <1>3 DEF ParseRest

(* The recursive function that reads lists exists: it can be given its      *)
(* values from the end of the text on.                                     *)
LEMMA SexpExists ==
  ASSUME NEW C, NEW t \in Seq(C)
  PROVE  \E g : g = [i \in 1..End(t) |-> ParseRest(t, i, g)]
<1> DEFINE E == End(t)
           S == 1..E
           Good(g, n) == /\ g = [s \in S |-> g[s]]
                         /\ \A s \in S : s > n => /\ g[s] = ParseRest(t, s, g)
                                                  /\ g[s].next \in s..E
           T == {d \in 0..E : ~\E g : Good(g, E - d)}
<1>e. E \in Nat /\ E >= 1
  BY EndIs
<1> HIDE DEF E
<1>1. T = {}
  <2> SUFFICES ASSUME T # {} PROVE FALSE
    OBVIOUS
  <2>1. PICK d \in T : \A e \in T : d <= e
    <3>1. T \in SUBSET Nat
      BY <1>e
    <3> HIDE DEF T
    <3> QED BY <3>1, LeastOf
  <2>2. d # 0
    <3> DEFINE g == [s \in S |-> Null]
    <3>1. Good(g, E - 0)
      BY <1>e
    <3> QED BY <2>1, <3>1
  <2> DEFINE n == E - d + 1
  <2>3. n \in S /\ d - 1 \in 0..E /\ E - (d - 1) = n /\ n - 1 = E - d /\ ~(d <= d - 1) /\ n \in Nat
    BY <1>e, <2>1, <2>2
  <2>4. PICK g : Good(g, n)
    <3>1. d - 1 \notin T
      <4> HIDE DEF T
      <4> QED BY <2>1, <2>3
    <3> HIDE DEF Good
    <3> QED BY <2>3, <3>1
  <2> HIDE DEF n
  <2> DEFINE v == ParseRest(t, n, g)
             h == [s \in S |-> IF s = n THEN v ELSE g[s]]
  <2>5. \A s \in S : s > n => h[s] = g[s]
    BY <2>3
  <2>6. v.next \in n..E
    <3>1. n \in 1..End(t) /\ Ends(t, g, n)
      BY <2>3, <2>4 DEF E, Ends
    <3> QED BY <3>1, RestNext DEF E
  <2>7. \A s \in S : s >= n => ParseRest(t, s, h) = ParseRest(t, s, g)
    <3> SUFFICES ASSUME NEW s \in S, s >= n PROVE ParseRest(t, s, h) = ParseRest(t, s, g)
      OBVIOUS
    <3>1. \A r \in S : r > s => r > n
      BY <2>3, <1>e
    <3> HIDE DEF h
    <3>2. Ends(t, g, s) /\ \A r \in S : r > s => g[r] = h[r]
      BY <2>4, <2>5, <3>1 DEF E, Ends
    <3> QED BY <3>2, RestLocal DEF E
  <2>8. Good(h, n - 1)
    <3>1. h = [s \in S |-> h[s]]
      OBVIOUS
    <3>2. ASSUME NEW s \in S, s > n - 1
          PROVE  h[s] = ParseRest(t, s, h) /\ h[s].next \in s..E
      <4>1. CASE s = n
        BY <2>3, <2>6, <2>7, <4>1
      <4>2. CASE s # n
        <5>1. s > n
          BY <2>3, <3>2, <4>2, <1>e
        <5>2. h[s] = g[s] /\ g[s] = ParseRest(t, s, g) /\ g[s].next \in s..E
          BY <2>4, <2>5, <5>1
        <5> HIDE DEF h
        <5> QED BY <2>3, <2>7, <5>1, <5>2
      <4> QED BY <4>1, <4>2
    <3> HIDE DEF h
    <3> QED BY <3>1, <3>2
  <2> HIDE DEF Good
  <2> QED BY <2>1, <2>3, <2>8
<1>2. PICK g : Good(g, 0)
  <2>1. E \notin T /\ E \in 0..E /\ E - E = 0
    BY <1>1, <1>e
  <2> HIDE DEF Good
  <2> QED BY <2>1
<1>3. \A s \in S : s > 0
  BY <1>e
<1> QED BY <1>2, <1>3 DEF E

(* ParseSexp is what its definition says; a list that is open goes to the   *)
(* end of the text.                                                        *)
LEMMA SexpIs ==
  ASSUME NEW C, NEW t \in Seq(C)
  PROVE  \A i \in 1..End(t) :
           /\ ParseSexp(t)[i] = ParseRest(t, i, ParseSexp(t))
           /\ ParseSexp(t)[i].next \in i..End(t)
           /\ ParseSexp(t)[i].cell = Null => ParseSexp(t)[i].next = End(t)
<1> DEFINE g == ParseSexp(t)
           Right(i) == g[i].next \in i..End(t) /\ (g[i].cell = Null => g[i].next = End(t))
           T == {i \in 1..End(t) : ~Right(i)}
<1>e. Len(t) \in Nat /\ End(t) = Len(t) + 1 /\ End(t) \in Nat
  BY EndIs
<1>1. g = [i \in 1..End(t) |-> ParseRest(t, i, g)]
  BY SexpExists DEF ParseSexp
<1> HIDE DEF g
<1>2. T = {}
  <2> SUFFICES ASSUME T # {} PROVE FALSE
    OBVIOUS
  <2>1. PICK i \in T : \A s \in T : s <= i
    <3>1. T \subseteq 1..End(t)
      OBVIOUS
    <3> HIDE DEF T
    <3> QED BY <1>e, <3>1, LastPosition
  <2>2. i \in 1..End(t) /\ ~Right(i) /\ \A s \in 1..End(t) : s > i => Right(s)
    BY <2>1, <1>e
  <2>3. g[i] = ParseRest(t, i, g)
    BY <1>1, <2>2
  <2>4. Ends(t, g, i)
    BY <2>2 DEF Ends
  <2>5. g[i].next \in i..End(t)
    BY <2>2, <2>3, <2>4, RestNext
  <2> DEFINE j == SkipBlanks(t, i)
             r == ParseCell(t, j, g)
  <2>6. j \in i..End(t) /\ (j = End(t) \/ t[j] # Blank)
    BY <2>2, SkipIs
  <2>7. CASE j = End(t)
    <3>1. g[i] = Read(Null, End(t))
      BY <2>3, <2>7 DEF ParseRest
    <3> QED BY <2>2, <2>5, <3>1 DEF Read
  <2>8. CASE j # End(t) /\ t[j] = ")"
    <3>1. g[i].cell = List(<<>>)
      BY <2>3, <2>8 DEF ParseRest, Read
    <3> QED BY <2>2, <2>5, <3>1 DEF List, Null
  <2>9. CASE j # End(t) /\ t[j] # ")"
    <3>1. r.next \in (j + 1)..End(t)
      <4> HIDE DEF j
      <4>1. j \in 1..End(t) /\ j \in Nat /\ Ends(t, g, j) /\ j < End(t)
        BY <1>e, <2>2, <2>4, <2>6, <2>9 DEF Ends
      <4>2. SkipBlanks(t, j) = j
        BY <2>6, <1>e, <4>1, SkipIs
      <4> QED BY <4>1, <4>2, CellNext
    <3>2. r.next \in 1..End(t) /\ r.next > i
      <4> HIDE DEF j, r
      <4> QED BY <1>e, <2>2, <2>6, <3>1
    <3> DEFINE rest == g[r.next]
    <3>3. Right(r.next)
      <4> HIDE DEF r
      <4> QED BY <2>2, <3>2
    <3>4. CASE rest.cell = Null
      <4>1. g[i] = rest
        BY <2>3, <2>9, <3>4 DEF ParseRest
      <4> HIDE DEF r
      <4> QED BY <2>2, <2>5, <3>3, <3>4, <4>1
    <3>5. CASE rest.cell # Null
      <4>1. g[i].cell = List(<<r.cell>> \o rest.cell.cells)
        BY <2>3, <2>9, <3>5 DEF ParseRest, Read
      <4> HIDE DEF r, rest
      <4> QED BY <2>2, <2>5, <4>1 DEF List, Null
    <3> QED BY <3>4, <3>5
  <2> QED BY <2>7, <2>8, <2>9
<1>3. \A i \in 1..End(t) : Right(i)
  BY <1>2
<1> QED BY <1>1, <1>3 DEF g

(* What is read behind i ends behind i, and a cell that is open at the end. *)
LEMMA CellIs ==
  ASSUME NEW C, NEW t \in Seq(C), NEW i \in 1..End(t)
  PROVE  /\ Ends(t, ParseSexp(t), i)
         /\ SkipBlanks(t, i) < End(t) =>
              ParseCell(t, i, ParseSexp(t)).next \in (SkipBlanks(t, i) + 1)..End(t)
         /\ ParseCell(t, i, ParseSexp(t)).cell = Null =>
              ParseCell(t, i, ParseSexp(t)).next = End(t)
<1> DEFINE q == SkipBlanks(t, i)
           g == ParseSexp(t)
           quoted == q < End(t) /\ t[q] \in Quotes
           r == IF q < End(t) /\ t[q] = "(" THEN g[q + 1] ELSE ParseAtom(t, q)
<1>e. Len(t) \in Nat /\ End(t) = Len(t) + 1 /\ End(t) \in Nat
  BY EndIs
<1>1. Ends(t, g, i)
  BY SexpIs DEF Ends
<1>2. q < End(t) => ParseCell(t, i, g).next \in (q + 1)..End(t)
  <2> HIDE DEF g
  <2> QED BY <1>1, CellNext
<1>3. ASSUME ParseCell(t, i, g).cell = Null PROVE ParseCell(t, i, g).next = End(t)
  <2>1. ~quoted
    <3> SUFFICES ASSUME quoted PROVE FALSE
      OBVIOUS
    <3>1. \E c : ParseCell(t, i, g).cell = List(c)
      <4> HIDE DEF g
      <4> QED BY DEF ParseCell, Read
    <3> HIDE DEF g
    <3> QED BY <1>3, <3>1 DEF List, Null
  <2>2. ParseCell(t, i, g) = r
    <3> HIDE DEF g
    <3> QED BY <2>1 DEF ParseCell
  <2>3. q < End(t) /\ t[q] = "("
    <3> SUFFICES ASSUME ~(q < End(t) /\ t[q] = "(") PROVE FALSE
      OBVIOUS
    <3>1. ParseAtom(t, q).cell.kind \in {"string", "symbol", "real"}
      BY DEF ParseAtom, ParseString, Read, String, ComputeType
    <3>2. ParseAtom(t, q).cell = Null
      <4> HIDE DEF g, q
      <4> QED BY <1>3, <2>2
    <3> HIDE DEF q
    <3> QED BY <3>1, <3>2 DEF Null
  <2>4. q + 1 \in 1..End(t)
    <3>1. q \in i..End(t)
      BY SkipIs
    <3> HIDE DEF q
    <3> QED BY <1>e, <2>3, <3>1
  <2>5. r = g[q + 1]
    BY <2>3
  <2> HIDE DEF q
  <2> QED BY <1>3, <2>2, <2>4, <2>5, SexpIs
<1> QED BY <1>1, <1>2, <1>3

(***************************************************************************)
(* The cells of a text.                                                    *)
(***************************************************************************)

(* The cells that are read from i on, for every i; what may be among them.  *)
Tops(t)    == CHOOSE cells : cells = [i \in 1..End(t) |-> CellsFrom(t, i, ParseSexp(t), cells)]
CellsOf(t) == {ParseCell(t, i, ParseSexp(t)).cell : i \in 1..End(t)}

LEMMA TopsExist ==
  ASSUME NEW C, NEW t \in Seq(C)
  PROVE  \E f : f = [i \in 1..End(t) |-> CellsFrom(t, i, ParseSexp(t), f)]
<1> DEFINE E == End(t)
           S == 1..E
           G == ParseSexp(t)
           Good(f, n) == /\ f = [s \in S |-> f[s]]
                         /\ \A s \in S : s > n => f[s] = CellsFrom(t, s, G, f)
           T == {d \in 0..E : ~\E f : Good(f, E - d)}
<1>e. E \in Nat /\ E >= 1
  BY EndIs
<1>0. ASSUME NEW s \in S, NEW f, NEW h, \A k \in S : k > s => f[k] = h[k]
      PROVE  CellsFrom(t, s, G, f) = CellsFrom(t, s, G, h)
  <2> DEFINE r == ParseCell(t, s, G)
  <2>1. CASE SkipBlanks(t, s) = End(t)
    BY <2>1 DEF CellsFrom
  <2>2. CASE SkipBlanks(t, s) # End(t)
    <3>1. SkipBlanks(t, s) \in s..E
      BY SkipIs
    <3>2. r.next \in (SkipBlanks(t, s) + 1)..E
      <4>1. SkipBlanks(t, s) < End(t)
        BY <1>e, <2>2, <3>1
      <4> QED BY <4>1, CellIs
    <3>3. r.next \in S /\ r.next > s
      <4> HIDE DEF r, E
      <4> QED BY <1>e, <3>1, <3>2
    <3>4. f[r.next] = h[r.next]
      <4> HIDE DEF r, S
      <4> QED BY <1>0, <3>3
    <3> QED BY <2>2, <3>4 DEF CellsFrom
  <2> QED BY <2>1, <2>2
<1> HIDE DEF E, G
<1>1. T = {}
  <2> SUFFICES ASSUME T # {} PROVE FALSE
    OBVIOUS
  <2>1. PICK d \in T : \A e \in T : d <= e
    <3>1. T \in SUBSET Nat
      BY <1>e
    <3> HIDE DEF T
    <3> QED BY <3>1, LeastOf
  <2>2. d # 0
    <3> DEFINE f == [s \in S |-> Null]
    <3>1. Good(f, E - 0)
      BY <1>e
    <3> QED BY <2>1, <3>1
  <2> DEFINE n == E - d + 1
  <2>3. n \in S /\ d - 1 \in 0..E /\ E - (d - 1) = n /\ n - 1 = E - d /\ ~(d <= d - 1) /\ n \in Nat
    BY <1>e, <2>1, <2>2
  <2>4. PICK f : Good(f, n)
    <3>1. d - 1 \notin T
      <4> HIDE DEF T
      <4> QED BY <2>1, <2>3
    <3> HIDE DEF Good
    <3> QED BY <2>3, <3>1
  <2> HIDE DEF n
  <2> DEFINE h == [s \in S |-> IF s = n THEN CellsFrom(t, n, G, f) ELSE f[s]]
  <2>5. \A s \in S : s > n => h[s] = f[s]
    BY <2>3
  <2>6. Good(h, n - 1)
    <3>1. h = [s \in S |-> h[s]]
      OBVIOUS
    <3>2. ASSUME NEW s \in S, s > n - 1 PROVE h[s] = CellsFrom(t, s, G, h)
      <4>1. \A k \in S : k > s => k > n
        BY <1>e, <2>3, <3>2
      <4>2. CellsFrom(t, s, G, f) = CellsFrom(t, s, G, h)
        <5>1. \A k \in S : k > s => f[k] = h[k]
          BY <2>5, <4>1
        <5> HIDE DEF h, S
        <5> QED BY <1>0, <5>1
      <4>3. CASE s = n
        <5>1. h[s] = CellsFrom(t, s, G, f)
          BY <4>3
        <5> HIDE DEF h
        <5> QED BY <4>2, <5>1
      <4>4. CASE s # n
        <5>1. s > n
          BY <1>e, <2>3, <3>2, <4>4
        <5>2. h[s] = f[s] /\ f[s] = CellsFrom(t, s, G, f)
          BY <2>4, <2>5, <5>1
        <5> HIDE DEF h
        <5> QED BY <4>2, <5>2
      <4> QED BY <4>3, <4>4
    <3> HIDE DEF h
    <3> QED BY <3>1, <3>2
  <2> HIDE DEF Good
  <2> QED BY <2>1, <2>3, <2>6
<1>2. PICK f : Good(f, 0)
  <2>1. E \notin T /\ E \in 0..E /\ E - E = 0
    BY <1>1, <1>e
  <2> HIDE DEF Good
  <2> QED BY <2>1
<1>3. \A s \in S : s > 0
  BY <1>e
<1> QED BY <1>2, <1>3 DEF E, G

LEMMA TopsAre ==
  ASSUME NEW C, NEW t \in Seq(C)
  PROVE  /\ ParseCells(t) = Tops(t)[1]
         /\ \A i \in 1..End(t) : /\ Tops(t)[i] = CellsFrom(t, i, ParseSexp(t), Tops(t))
                                 /\ Tops(t)[i] \in Seq(CellsOf(t))
<1> DEFINE f == Tops(t)
           T == {i \in 1..End(t) : f[i] \notin Seq(CellsOf(t))}
<1>e. Len(t) \in Nat /\ End(t) = Len(t) + 1 /\ End(t) \in Nat
  BY EndIs
<1>1. f = [i \in 1..End(t) |-> CellsFrom(t, i, ParseSexp(t), f)]
  BY TopsExist DEF Tops
<1>2. ParseCells(t) = f[1]
  BY DEF ParseCells, Tops
<1> HIDE DEF f
<1>3. T = {}
  <2> SUFFICES ASSUME T # {} PROVE FALSE
    OBVIOUS
  <2>1. PICK i \in T : \A s \in T : s <= i
    <3>1. T \subseteq 1..End(t)
      OBVIOUS
    <3> HIDE DEF T
    <3> QED BY <1>e, <3>1, LastPosition
  <2>2. /\ i \in 1..End(t) /\ f[i] \notin Seq(CellsOf(t))
        /\ \A s \in 1..End(t) : s > i => f[s] \in Seq(CellsOf(t))
    BY <2>1, <1>e
  <2> DEFINE r == ParseCell(t, i, ParseSexp(t))
  <2>3. CASE SkipBlanks(t, i) = End(t)
    <3>1. f[i] = <<>>
      BY <1>1, <2>2, <2>3 DEF CellsFrom
    <3> QED BY <2>2, <3>1
  <2>4. CASE SkipBlanks(t, i) # End(t)
    <3>1. f[i] = <<r.cell>> \o f[r.next]
      BY <1>1, <2>2, <2>4 DEF CellsFrom
    <3>2. SkipBlanks(t, i) \in i..End(t) /\ SkipBlanks(t, i) < End(t)
      BY <1>e, <2>2, <2>4, SkipIs
    <3>3. r.next \in (SkipBlanks(t, i) + 1)..End(t)
      BY <2>2, <3>2, CellIs
    <3>4. r.next \in 1..End(t) /\ r.next > i
      <4> HIDE DEF r
      <4> QED BY <1>e, <2>2, <3>2, <3>3
    <3>5. f[r.next] \in Seq(CellsOf(t))
      <4> HIDE DEF r
      <4> QED BY <2>2, <3>4
    <3>6. r.cell \in CellsOf(t)
      BY <2>2 DEF CellsOf
    <3> HIDE DEF r
    <3> QED BY <2>2, <3>1, <3>5, <3>6
  <2> QED BY <2>3, <2>4
<1> QED BY <1>1, <1>2, <1>3 DEF f

(***************************************************************************)
(* Two texts of which one begins with the other: what has been read of the *)
(* shorter one to its end is read of the longer one too.                   *)
(***************************************************************************)
Begins(t, u) == Len(t) <= Len(u) /\ \A k \in 1..Len(t) : u[k] = t[k]

Marks == Quotes \cup {"\""}

(* No word, string or quote form reaches over the end of t. *)
Joins(t, u) ==
  /\ Len(t) < Len(u) /\ u[End(t)] = Blank
  /\ \A k \in 1..Len(t) : t[k] \notin Marks

Firm(t, u, r) == r.next < End(t) \/ (Joins(t, u) /\ r.cell # Null)

LEMMA SkipSame ==
  ASSUME NEW C, NEW t \in Seq(C), NEW u \in Seq(C), Begins(t, u), NEW i \in 1..End(t)
  PROVE  /\ SkipBlanks(t, i) < End(t) => SkipBlanks(u, i) = SkipBlanks(t, i)
         /\ SkipBlanks(t, i) = End(t) => SkipBlanks(u, i) = SkipBlanks(u, End(t))
<1> DEFINE q == SkipBlanks(t, i)
           p == SkipBlanks(u, End(t))
<1>e. /\ Len(t) \in Nat /\ End(t) = Len(t) + 1 /\ Len(u) \in Nat /\ End(u) = Len(u) + 1
      /\ Len(t) <= Len(u) /\ i \in 1..End(u) /\ End(t) \in 1..End(u)
  BY EndIs DEF Begins
<1>1. /\ q \in i..End(t) /\ (q = End(t) \/ t[q] # Blank)
      /\ \A k \in i..(q - 1) : t[k] = Blank
  BY SkipIs
<1>2. \A j \in i..End(u) :
        (j = End(u) \/ u[j] # Blank) /\ (\A k \in i..(j - 1) : u[k] = Blank)
          => SkipBlanks(u, i) = j
  BY <1>e, SkipIs
<1>d. End(t) \in 1..End(u)
  BY <1>e
<1>3. /\ p \in End(t)..End(u) /\ (p = End(u) \/ u[p] # Blank)
      /\ \A k \in End(t)..(p - 1) : u[k] = Blank
  BY <1>d, SkipIs
<1> HIDE DEF q, p
<1>4. ASSUME q < End(t) PROVE SkipBlanks(u, i) = q
  <2>1. q \in i..End(u) /\ u[q] # Blank /\ \A k \in i..(q - 1) : u[k] = Blank
    BY Z3T(30), <1>e, <1>1, <1>4 DEF Begins
  <2> QED BY <1>2, <2>1
<1>5. ASSUME q = End(t) PROVE SkipBlanks(u, i) = p
  <2>1. p \in i..End(u)
    BY <1>e, <1>3
  <2>2. ASSUME NEW k \in i..(p - 1) PROVE u[k] = Blank
    <3>1. CASE k < End(t)
      <4>1. k \in 1..Len(t) /\ k \in i..(q - 1)
        BY <1>e, <1>1, <1>5, <2>2, <3>1
      <4> QED BY <1>1, <4>1 DEF Begins
    <3>2. CASE k >= End(t)
      <4>1. k \in End(t)..(p - 1)
        BY <1>e, <1>3, <2>2, <3>2
      <4> QED BY <1>3, <4>1
    <3> QED BY <1>e, <2>2, <3>1, <3>2
  <2> QED BY <1>2, <1>3, <2>1, <2>2
<1> QED BY <1>4, <1>5 DEF q, p

LEMMA FindSame ==
  ASSUME NEW C, NEW t \in Seq(C), NEW u \in Seq(C), Begins(t, u), NEW i \in 1..End(t), NEW ch
  PROVE  /\ FindNext(t, i, ch) < End(t) => FindNext(u, i, ch) = FindNext(t, i, ch)
         /\ FindNext(t, i, ch) = End(t) /\ Len(t) < Len(u) /\ u[End(t)] = ch
              => FindNext(u, i, ch) = End(t)
<1> DEFINE q == FindNext(t, i, ch)
<1>e. /\ Len(t) \in Nat /\ End(t) = Len(t) + 1 /\ Len(u) \in Nat /\ End(u) = Len(u) + 1
      /\ Len(t) <= Len(u) /\ i \in 1..End(u) /\ End(t) \in 1..End(u)
  BY EndIs DEF Begins
<1>1. /\ q \in i..End(t) /\ (q = End(t) \/ t[q] = ch)
      /\ \A k \in i..(q - 1) : t[k] # ch
  BY FindIs
<1>2. \A j \in i..End(u) :
        (j = End(u) \/ u[j] = ch) /\ (\A k \in i..(j - 1) : u[k] # ch)
          => FindNext(u, i, ch) = j
  BY <1>e, FindIs
<1> HIDE DEF q
<1>3. q \in i..End(u) /\ \A k \in i..(q - 1) : u[k] # ch
  BY Z3T(30), <1>e, <1>1 DEF Begins
<1>4. ASSUME q < End(t) PROVE FindNext(u, i, ch) = q
  <2>1. u[q] = ch
    BY <1>e, <1>1, <1>4 DEF Begins
  <2> QED BY <1>2, <1>3, <2>1
<1>5. ASSUME q = End(t), u[End(t)] = ch PROVE FindNext(u, i, ch) = q
  BY <1>2, <1>3, <1>5
<1> QED BY <1>4, <1>5 DEF q

LEMMA SubSame ==
  ASSUME NEW C, NEW t \in Seq(C), NEW u \in Seq(C), Begins(t, u),
         NEW i \in 1..End(t), NEW j \in 0..Len(t)
  PROVE  SubSeq(u, i, j) = SubSeq(t, i, j)
<1>e. /\ Len(t) \in Nat /\ End(t) = Len(t) + 1 /\ Len(u) \in Nat /\ Len(t) <= Len(u)
  BY EndIs DEF Begins
<1>1. CASE i <= j
  <2>1. i \in 1..Len(t) /\ j \in i..Len(t) /\ i \in 1..Len(u) /\ j \in i..Len(u)
    BY <1>e, <1>1
  <2>2. /\ SubSeq(t, i, j) = [k \in 1..(j - i + 1) |-> t[i + k - 1]]
        /\ SubSeq(u, i, j) = [k \in 1..(j - i + 1) |-> u[i + k - 1]]
    OBVIOUS
  <2>3. \A k \in 1..(j - i + 1) : u[i + k - 1] = t[i + k - 1]
    BY <1>e, <2>1 DEF Begins
  <2> QED BY <2>2, <2>3
<1>2. CASE ~(i <= j)
  BY <1>2
<1> QED BY <1>1, <1>2

LEMMA AtomSame ==
  ASSUME NEW C, NEW t \in Seq(C), NEW u \in Seq(C), Begins(t, u),
         NEW j \in 1..Len(t), t[j] # Blank, Firm(t, u, ParseAtom(t, j))
  PROVE  ParseAtom(u, j) = ParseAtom(t, j)
<1>e. /\ Len(t) \in Nat /\ End(t) = Len(t) + 1 /\ Len(u) \in Nat /\ End(u) = Len(u) + 1
      /\ Len(t) <= Len(u) /\ j \in 1..End(t) /\ j + 1 \in 1..End(t) /\ j < End(t) /\ j < End(u)
      /\ u[j] = t[j]
  BY EndIs DEF Begins
<1>f. \A i \in 1..End(t) : \A ch :
        /\ FindNext(t, i, ch) < End(t) => FindNext(u, i, ch) = FindNext(t, i, ch)
        /\ FindNext(t, i, ch) = End(t) /\ Len(t) < Len(u) /\ u[End(t)] = ch
             => FindNext(u, i, ch) = End(t)
  BY FindSame
<1>1. CASE t[j] = "\""
  <2> DEFINE k == FindNext(t, j + 1, "\"")
             s == ParseString(t, j)
  <2>1. k \in (j+1)..End(t)
    BY <1>e, FindIs
  <2>2. ParseAtom(t, j) = s /\ ParseAtom(u, j) = ParseString(u, j)
    BY <1>1, <1>e DEF ParseAtom
  <2>3. s.next < End(t)
    BY <1>1, <2>2 DEF Firm, Joins, Marks
  <2>4. k < End(t)
    <3>1. s.next = IF k = End(t) THEN k ELSE k + 1
      BY DEF ParseString, Read
    <3> HIDE DEF k, s
    <3> QED BY <1>e, <2>1, <2>3, <3>1
  <2>5. FindNext(u, j + 1, "\"") = k
    BY <1>e, <2>4, <1>f
  <2>6. SubSeq(u, j + 1, k - 1) = SubSeq(t, j + 1, k - 1)
    <3>1. k - 1 \in 0..Len(t)
      <4> HIDE DEF k
      <4> QED BY <1>e, <2>1
    <3> HIDE DEF k
    <3> QED BY <1>e, <3>1, SubSame
  <2>7. k # End(u) /\ k # End(t)
    <3> HIDE DEF k
    <3> QED BY <1>e, <2>1, <2>4
  <2>8. ParseString(u, j) = s
    BY <2>5, <2>6, <2>7 DEF ParseString
  <2> QED BY <2>2, <2>8
<1>2. CASE t[j] # "\""
  <2> DEFINE k == FindNext(t, j, Blank)
  <2>1. k \in j..End(t) /\ ParseAtom(t, j).next = k
    BY <1>e, <1>2, FindIs DEF ParseAtom, Read
  <2>2. k < End(t) \/ (k = End(t) /\ Joins(t, u))
    <3> HIDE DEF k
    <3> QED BY <1>e, <2>1 DEF Firm
  <2>3. FindNext(u, j, Blank) = k
    BY <1>e, <2>2, <1>f DEF Joins
  <2>4. SubSeq(u, j, k - 1) = SubSeq(t, j, k - 1)
    <3>1. k - 1 \in 0..Len(t)
      <4> HIDE DEF k
      <4> QED BY <1>e, <2>1
    <3> HIDE DEF k
    <3> QED BY <1>e, <3>1, SubSame
  <2> QED BY <1>e, <1>2, <2>3, <2>4 DEF ParseAtom
<1> QED BY <1>1, <1>2

LEMMA CellSame ==
  ASSUME NEW C, NEW t \in Seq(C), NEW u \in Seq(C), Begins(t, u), NEW i \in 1..End(t),
         NEW g, NEW h, Ends(t, g, i), SkipBlanks(t, i) < End(t),
         \A s \in 1..End(t) : s > i /\ Firm(t, u, g[s]) => h[s] = g[s],
         Firm(t, u, ParseCell(t, i, g))
  PROVE  ParseCell(u, i, h) = ParseCell(t, i, g)
<1> DEFINE q == SkipBlanks(t, i)
           quoted == t[q] \in Quotes
           j == IF quoted THEN SkipBlanks(t, q + 1) ELSE q
           r == IF j < End(t) /\ t[j] = "(" THEN g[j + 1] ELSE ParseAtom(t, j)
<1>e. /\ Len(t) \in Nat /\ End(t) = Len(t) + 1 /\ Len(u) \in Nat /\ End(u) = Len(u) + 1
      /\ Len(t) <= Len(u)
  BY EndIs DEF Begins
<1>1. /\ q \in i..End(t) /\ q < End(t) /\ q + 1 \in 1..End(t) /\ q \in 1..Len(t)
      /\ t[q] # Blank /\ q < End(u) /\ u[q] = t[q]
  <2>1. q \in i..End(t) /\ (q = End(t) \/ t[q] # Blank)
    BY SkipIs
  <2> HIDE DEF q
  <2> QED BY <1>e, <2>1 DEF q, Begins
<1>2. SkipBlanks(u, i) = q
  BY <1>1, SkipSame
<1>3. ParseCell(t, i, g) =
        IF quoted THEN Read(List(<<Symbol(QuoteName(t[q])), r.cell>>), r.next) ELSE r
  <2> HIDE DEF q
  <2> QED BY <1>1 DEF ParseCell, q
<1>4. ParseCell(t, i, g).next = r.next
  <2> HIDE DEF q, r, quoted
  <2> QED BY <1>3 DEF Read
<1>5. /\ quoted => r.next < End(t)
      /\ Firm(t, u, r)
  <2>1. quoted => ~Joins(t, u)
    <3> HIDE DEF q
    <3> QED BY <1>1 DEF Joins, Marks
  <2> HIDE DEF q, r, quoted
  <2>2. Firm(t, u, ParseCell(t, i, g))
    OBVIOUS
  <2> QED BY <2>1, <2>2, <1>3, <1>4 DEF Firm
<1>6. /\ j \in q..End(t) /\ (j = End(t) \/ t[j] # Blank)
      /\ quoted => j \in (q + 1)..End(t)
  <2>1. CASE quoted
    <3>1. SkipBlanks(t, q + 1) \in (q+1)..End(t)
          /\ (SkipBlanks(t, q + 1) = End(t) \/ t[SkipBlanks(t, q + 1)] # Blank)
      <4> HIDE DEF q
      <4> QED BY <1>1, SkipIs
    <3> HIDE DEF q
    <3> QED BY <1>e, <1>1, <2>1, <3>1
  <2>2. CASE ~quoted
    <3> HIDE DEF q
    <3> QED BY <1>1, <2>2, <1>e
  <2> QED BY <2>1, <2>2
<1>7. j < End(t)
  <2> SUFFICES ASSUME j = End(t) PROVE FALSE
    <3> HIDE DEF j
    <3> QED BY <1>1, <1>6, <1>e
  <2>1. quoted
    <3> HIDE DEF q
    <3> QED BY <1>1
  <2>2. r.next = FindNext(t, End(t), Blank)
    <3>1. ~(End(t) < End(t))
      BY <1>e
    <3>2. r = ParseAtom(t, End(t))
      <4> HIDE DEF j
      <4> QED BY <3>1
    <3> HIDE DEF r
    <3> QED BY <3>1, <3>2 DEF ParseAtom, Read
  <2>3. FindNext(t, End(t), Blank) \in End(t)..End(t)
    BY <1>e, FindIs
  <2> HIDE DEF r, quoted
  <2> QED BY <1>5, <1>e, <2>1, <2>2, <2>3
<1>8. j \in 1..Len(t) /\ j < End(u) /\ u[j] = t[j] /\ t[j] # Blank /\ j + 1 \in 1..End(t) /\ j + 1 > i
  <2> HIDE DEF j, q
  <2> QED BY <1>e, <1>1, <1>6, <1>7 DEF Begins
<1>9. j = IF quoted THEN SkipBlanks(u, q + 1) ELSE q
  <2>1. quoted => SkipBlanks(u, q + 1) = SkipBlanks(t, q + 1)
    <3>1. quoted => SkipBlanks(t, q + 1) < End(t)
      <4> HIDE DEF q
      <4> QED BY <1>7
    <3> HIDE DEF q
    <3> QED BY <1>1, <3>1, SkipSame
  <2> HIDE DEF q
  <2> QED BY <2>1
<1>10. r = IF j < End(u) /\ u[j] = "(" THEN h[j + 1] ELSE ParseAtom(u, j)
  <2>1. CASE t[j] = "("
    <3>1. r = g[j + 1]
      <4> HIDE DEF j
      <4> QED BY <1>7, <2>1
    <3>2. h[j + 1] = g[j + 1]
      <4> HIDE DEF j, r
      <4> QED BY <1>5, <1>8, <3>1
    <3> HIDE DEF j, r
    <3> QED BY <1>8, <2>1, <3>1, <3>2
  <2>2. CASE t[j] # "("
    <3>1. r = ParseAtom(t, j)
      <4> HIDE DEF j
      <4> QED BY <2>2
    <3>2. ParseAtom(u, j) = ParseAtom(t, j)
      <4> HIDE DEF j, r
      <4> QED BY <1>5, <1>8, <3>1, AtomSame
    <3> HIDE DEF j, r
    <3> QED BY <1>8, <2>2, <3>1, <3>2
  <2> QED BY <2>1, <2>2
<1>11. ParseCell(u, i, h) =
         IF quoted THEN Read(List(<<Symbol(QuoteName(t[q])), r.cell>>), r.next) ELSE r
  <2>1. q < End(u) /\ u[q] \in Quotes <=> quoted
    <3> HIDE DEF q
    <3> QED BY <1>1
  <2> HIDE DEF q, quoted, j, r
  <2> QED BY <1>1, <1>2, <1>9, <1>10, <2>1 DEF ParseCell
<1> HIDE DEF q, quoted, j, r
<1> QED BY <1>3, <1>11

(* A list that ends within t is read the same in u. *)
LEMMA SexpSame ==
  ASSUME NEW C, NEW t \in Seq(C), NEW u \in Seq(C), Begins(t, u)
  PROVE  \A i \in 1..End(t) :
           Firm(t, u, ParseSexp(t)[i]) => ParseSexp(u)[i] = ParseSexp(t)[i]
<1> DEFINE g == ParseSexp(t)
           h == ParseSexp(u)
           Same(i) == Firm(t, u, g[i]) => h[i] = g[i]
           T == {i \in 1..End(t) : ~Same(i)}
<1>e. /\ Len(t) \in Nat /\ End(t) = Len(t) + 1 /\ Len(u) \in Nat /\ End(u) = Len(u) + 1
      /\ Len(t) <= Len(u)
  BY EndIs DEF Begins
<1>u. \A i \in 1..End(t) : i \in 1..End(u)
  BY <1>e
<1>1. \A i \in 1..End(t) : /\ g[i] = ParseRest(t, i, g) /\ h[i] = ParseRest(u, i, h)
                           /\ g[i].next \in i..End(t)
                           /\ g[i].cell = Null => g[i].next = End(t)
  BY <1>u, SexpIs
<1>2. \A i \in 1..End(t) : Ends(t, g, i)
  BY CellIs
<1>g. \A i \in 1..End(t) : SkipBlanks(t, i) < End(t) =>
        ParseCell(t, i, g).next \in (SkipBlanks(t, i) + 1)..End(t)
  BY CellIs
<1> HIDE DEF g, h
<1>3. T = {}
  <2> SUFFICES ASSUME T # {} PROVE FALSE
    OBVIOUS
  <2>1. PICK i \in T : \A s \in T : s <= i
    <3>1. T \subseteq 1..End(t)
      OBVIOUS
    <3>2. End(t) \in Nat
      BY <1>e
    <3> HIDE DEF T
    <3> QED BY ONLY T # {}, <3>1, <3>2, LastPosition
  <2>2. /\ i \in 1..End(t) /\ Firm(t, u, g[i]) /\ h[i] # g[i]
        /\ \A s \in 1..End(t) : s > i => Same(s)
    BY <2>1, <1>e
  <2> DEFINE j == SkipBlanks(t, i)
             r == ParseCell(t, j, g)
  <2>3. j \in i..End(t) /\ (j = End(t) \/ t[j] # Blank)
    BY <2>2, SkipIs
  <2>4. g[i].cell # Null
    BY <1>1, <2>2, <1>e DEF Firm
  <2>5. j < End(t)
    <3> SUFFICES ASSUME j = End(t) PROVE FALSE
      <4> HIDE DEF j
      <4> QED BY <1>e, <2>2, <2>3
    <3>1. ParseRest(t, i, g) = Read(Null, End(t))
      BY DEF ParseRest
    <3> QED BY <1>1, <2>2, <2>4, <3>1 DEF Read
  <2>6. SkipBlanks(u, i) = j /\ j # End(u) /\ u[j] = t[j] /\ j # End(t) /\ j \in 1..End(t)
    <3>1. SkipBlanks(u, i) = j
      BY <2>2, <2>5, SkipSame
    <3> HIDE DEF j
    <3> QED BY <1>e, <2>2, <2>3, <2>5, <3>1 DEF Begins
  <2>7. CASE t[j] = ")"
    <3>1. ParseRest(t, i, g) = Read(List(<<>>), j + 1)
      <4> HIDE DEF j
      <4> QED BY <2>6, <2>7 DEF ParseRest, j
    <3>2. ParseRest(u, i, h) = Read(List(<<>>), j + 1)
      <4> HIDE DEF j
      <4> QED BY <2>6, <2>7 DEF ParseRest
    <3> QED BY <1>1, <2>2, <3>1, <3>2
  <2>8. CASE t[j] # ")"
    <3> DEFINE rest == g[r.next]
    <3>1. SkipBlanks(t, j) = j
      <4> HIDE DEF j
      <4>1. j \in j..End(t) /\ j \in 1..End(t) /\ \A k \in j..(j - 1) : t[k] = Blank
        BY <1>e, <2>2, <2>3
      <4>2. \A k \in j..End(t) :
              (k = End(t) \/ t[k] # Blank) /\ (\A l \in j..(k - 1) : t[l] = Blank)
                => SkipBlanks(t, j) = k
        BY <4>1, SkipIs
      <4> QED BY <2>3, <4>1, <4>2
    <3>2. r.next \in (j + 1)..End(t)
      <4> HIDE DEF j
      <4> QED BY <1>g, <2>5, <2>6, <3>1
    <3>3. r.next \in 1..End(t) /\ r.next > i
      <4> HIDE DEF j, r
      <4> QED BY <1>e, <2>2, <2>3, <3>2
    <3>4. g[i] = IF rest.cell = Null THEN rest
                 ELSE Read(List(<<r.cell>> \o rest.cell.cells), rest.next)
      <4>1. ParseRest(t, i, g) = IF rest.cell = Null THEN rest
                 ELSE Read(List(<<r.cell>> \o rest.cell.cells), rest.next)
        BY <2>6, <2>8 DEF ParseRest
      <4> HIDE DEF rest, r, j
      <4> QED BY <1>1, <2>2, <4>1
    <3>5. rest.cell # Null
      <4> HIDE DEF rest, r
      <4> QED BY <2>4, <3>4
    <3>6. rest.next = g[i].next
      <4> HIDE DEF rest, r
      <4> QED BY <3>4, <3>5 DEF Read
    <3>7. h[r.next] = rest
      <4>1. Firm(t, u, rest)
        <5> HIDE DEF rest, r
        <5> QED BY <2>2, <3>5, <3>6 DEF Firm
      <4> HIDE DEF r
      <4> QED BY <2>2, <3>3, <4>1
    <3>8. r.next < End(t)
      <4> SUFFICES ASSUME r.next = End(t) PROVE FALSE
        <5> HIDE DEF r
        <5> QED BY <1>e, <3>3
      <4>1. End(t) \in 1..End(t)
        BY <1>e
      <4>2. SkipBlanks(t, End(t)) = End(t)
        <5>1. SkipBlanks(t, End(t)) \in End(t)..End(t)
          BY <4>1, SkipIs
        <5> QED BY <5>1, <1>e
      <4>3. g[End(t)] = Read(Null, End(t))
        <5>1. ParseRest(t, End(t), g) = Read(Null, End(t))
          BY <4>2 DEF ParseRest
        <5> QED BY <1>1, <4>1, <5>1
      <4> HIDE DEF r
      <4> QED BY <3>5, <4>3 DEF Read
    <3>9. ParseCell(u, j, h) = r
      <4>1. Firm(t, u, r)
        <5> HIDE DEF r
        <5> QED BY <3>8 DEF Firm
      <4>2. \A s \in 1..End(t) : s > j /\ Firm(t, u, g[s]) => h[s] = g[s]
        <5> HIDE DEF j
        <5> QED BY <1>e, <2>2, <2>3
      <4> HIDE DEF j
      <4> QED BY <1>2, <2>5, <2>6, <3>1, <4>1, <4>2, CellSame
    <3>10. ParseRest(u, i, h) = IF rest.cell = Null THEN rest
                 ELSE Read(List(<<r.cell>> \o rest.cell.cells), rest.next)
      <4> HIDE DEF j, r, rest
      <4> QED BY <2>6, <2>8, <3>7, <3>9 DEF ParseRest
    <3> HIDE DEF j, r, rest
    <3> QED BY <1>1, <2>2, <3>4, <3>10
  <2> QED BY <2>7, <2>8
<1> QED BY <1>3 DEF g, h


LEMMA TopIs ==
  ASSUME NEW C, NEW t \in Seq(C), NEW i \in 1..End(t)
  PROVE  /\ Tops(t)[i] \in Seq(CellsOf(t)) /\ ParseCell(t, i, ParseSexp(t)).cell \in CellsOf(t)
         /\ SkipBlanks(t, i) = End(t) => Tops(t)[i] = <<>>
         /\ SkipBlanks(t, i) < End(t) =>
              /\ ParseCell(t, i, ParseSexp(t)).next \in (i+1)..End(t)
              /\ Tops(t)[i] = <<ParseCell(t, i, ParseSexp(t)).cell>>
                                \o Tops(t)[ParseCell(t, i, ParseSexp(t)).next]
<1> DEFINE q == SkipBlanks(t, i)
           r == ParseCell(t, i, ParseSexp(t))
<1>e. Len(t) \in Nat /\ End(t) = Len(t) + 1 /\ End(t) \in Nat
  BY EndIs
<1>1. q \in i..End(t)
  BY SkipIs
<1>2. q < End(t) => r.next \in (q+1)..End(t)
  BY CellIs
<1>3. Tops(t)[i] = CellsFrom(t, i, ParseSexp(t), Tops(t)) /\ Tops(t)[i] \in Seq(CellsOf(t))
  BY TopsAre
<1>4. r.cell \in CellsOf(t)
  BY DEF CellsOf
<1>5. Tops(t)[i] = IF q = End(t) THEN <<>> ELSE <<r.cell>> \o Tops(t)[r.next]
  BY <1>3 DEF CellsFrom
<1> HIDE DEF q, r
<1>6. q < End(t) => q # End(t) /\ r.next \in (i+1)..End(t)
  BY <1>e, <1>1, <1>2
<1> QED BY <1>3, <1>4, <1>5, <1>6 DEF q, r

LEMMA TopEnd ==
  ASSUME NEW C, NEW t \in Seq(C)
  PROVE  Tops(t)[End(t)] = <<>>
<1>1. End(t) \in 1..End(t) /\ End(t) \in Nat
  BY EndIs
<1>2. SkipBlanks(t, End(t)) \in End(t)..End(t)
  BY <1>1, SkipIs
<1>3. SkipBlanks(t, End(t)) = End(t)
  BY <1>1, <1>2
<1> QED BY <1>1, <1>3, TopIs

-----------------------------------------------------------------------------
(* Texts one behind the other. *)

LEMMA FlattenIs ==
  ASSUME NEW C, NEW s \in Seq(Seq(C)), Len(s) # 0
  PROVE  \E f \in [1..Len(s) -> Seq(C)] :
           /\ FlattenSeq(s) = f[Len(s)]
           /\ \A i \in 1..Len(s) : f[i] = IF i = 1 THEN s[i] ELSE f[i-1] \o s[i]
<1> DEFINE n  == Len(s)
           Fs == [1..n -> Seq(C)]
           Step(i, g) == IF i = 1 THEN s[i] ELSE g[i-1] \o s[i]
           F  == [i \in 1..n |-> [g \in Fs |-> Step(i, g)]]
<1>e. n \in Nat /\ n # 0 /\ \A i \in 1..n : i # 1 => i - 1 \in 1..n /\ i - 1 < i
  OBVIOUS
<1>1. ASSUME NEW i \in 1..n, NEW g, i # 1 => g[i-1] \in Seq(C) PROVE Step(i, g) \in Seq(C)
  <2>1. s[i] \in Seq(C)
    OBVIOUS
  <2> QED BY <1>1, <2>1
<1>2. F \in [1..n -> [Fs -> Seq(C)]]
  <2>1. \A i \in 1..n : \A g \in Fs : Step(i, g) \in Seq(C)
    BY <1>1, <1>e
  <2> HIDE DEF Step
  <2> QED BY <2>1
<1>3. \A i \in 1..n : \A g, h \in Fs :
        (\A k \in 1..n : k < i => g[k] = h[k]) => F[i][g] = F[i][h]
  BY <1>e
<1>4. \E f \in Fs : \A i \in 1..n : f[i] = F[i][f]
  <2> DEFINE S == 1..n
             V == Seq(C)
  <2>1. S \in SUBSET Nat /\ V # {}
    BY <1>e
  <2>2. Inductive(S, V, F)
    <3> HIDE DEF F, n
    <3> QED BY <1>2, <1>3, <2>1 DEF Inductive
  <2>3. \E f \in [S -> V] : \A i \in S : f[i] = F[i][f]
    <3> HIDE DEF F, S, V
    <3> QED BY <2>2, RecursiveFunction
  <2> QED BY <2>3
<1>5. PICK f \in Fs : f = [i \in 1..n |-> Step(i, f)]
  BY <1>4
<1>6. PICK g : g = [i \in 1..n |-> Step(i, g)] /\ FlattenSeq(s) = g[n]
  BY <1>5 DEF FlattenSeq
<1> HIDE DEF Step, n
<1>7. \A i \in 1..n : g[i] \in Seq(C)
  <2> DEFINE T == {i \in 1..n : g[i] \notin Seq(C)}
  <2> SUFFICES ASSUME T # {} PROVE FALSE
    OBVIOUS
  <2>1. PICK i \in T : \A k \in T : i <= k
    <3>1. T \in SUBSET Nat
      BY <1>e
    <3> HIDE DEF T
    <3> QED BY <3>1, LeastOf
  <2>2. i \in 1..n /\ g[i] \notin Seq(C) /\ \A k \in 1..n : k < i => g[k] \in Seq(C)
    BY <1>e, <2>1
  <2>3. i # 1 => g[i - 1] \in Seq(C)
    BY <1>e, <2>2
  <2>4. g[i] = Step(i, g)
    BY <1>6, <2>2
  <2> QED BY <1>1, <2>2, <2>3, <2>4
<1>8. g \in [1..n -> Seq(C)]
  BY <1>6, <1>7
<1>9. \A i \in 1..n : g[i] = Step(i, g)
  BY <1>6
<1> QED BY <1>6, <1>8, <1>9 DEF Step, n

LEMMA FlattenAppend ==
  ASSUME NEW C, NEW s \in Seq(Seq(C)), NEW x \in Seq(C)
  PROVE  FlattenSeq(s) \in Seq(C) /\ FlattenSeq(Append(s, x)) = FlattenSeq(s) \o x
<1> DEFINE w == Append(s, x)
           n == Len(s)
<1>e. n \in Nat /\ w \in Seq(Seq(C)) /\ Len(w) = n + 1 /\ w[n + 1] = x /\ \A i \in 1..n : w[i] = s[i]
  OBVIOUS
<1> HIDE DEF w, n
<1>1. PICK h \in [1..(n+1) -> Seq(C)] :
        /\ FlattenSeq(w) = h[n + 1]
        /\ \A i \in 1..(n+1) : h[i] = IF i = 1 THEN w[i] ELSE h[i-1] \o w[i]
  <2>1. Len(w) # 0
    BY <1>e
  <2>2. \E h \in [1..Len(w) -> Seq(C)] :
          /\ FlattenSeq(w) = h[Len(w)]
          /\ \A i \in 1..Len(w) : h[i] = IF i = 1 THEN w[i] ELSE h[i-1] \o w[i]
    BY ZenonT(30), <1>e, <2>1, FlattenIs
  <2> QED BY <1>e, <2>2
<1>2. CASE n = 0
  <2>1. s = <<>> /\ FlattenSeq(s) = <<>>
    BY <1>2 DEF n, FlattenSeq
  <2>2. FlattenSeq(w) = x
    <3>1. n + 1 = 1 /\ 1 \in 1..(n+1)
      BY <1>2
    <3>2. h[1] = w[1]
      BY <1>1, <3>1
    <3> QED BY <1>e, <1>1, <3>1, <3>2
  <2>3. <<>> \in Seq(C) /\ <<>> \o x = x
    OBVIOUS
  <2> QED BY <2>1, <2>2, <2>3 DEF w
<1>3. CASE n # 0
  <2>1. PICK f \in [1..n -> Seq(C)] :
          /\ FlattenSeq(s) = f[n]
          /\ \A i \in 1..n : f[i] = IF i = 1 THEN s[i] ELSE f[i-1] \o s[i]
    BY <1>3, FlattenIs DEF n
  <2>2. \A i \in 1..n : h[i] = f[i]
    <3> DEFINE T == {i \in 1..n : h[i] # f[i]}
    <3> SUFFICES ASSUME T # {} PROVE FALSE
      OBVIOUS
    <3>1. PICK i \in T : \A k \in T : i <= k
      <4>1. T \in SUBSET Nat
        BY <1>e
      <4> HIDE DEF T
      <4> QED BY <4>1, LeastOf
    <3>2. i \in 1..n /\ h[i] # f[i] /\ \A k \in 1..n : k < i => h[k] = f[k]
      BY <1>e, <3>1
    <3>3. i \in 1..(n+1) /\ (i # 1 => i - 1 \in 1..n /\ i - 1 < i)
      BY <1>e, <3>2
    <3>4. i # 1 => h[i - 1] = f[i - 1]
      BY <3>2, <3>3
    <3>5. w[i] = s[i]
      BY <1>e, <3>2
    <3>6. f[i] = IF i = 1 THEN s[i] ELSE f[i-1] \o s[i]
      BY <2>1, <3>2
    <3>7. h[i] = IF i = 1 THEN w[i] ELSE h[i-1] \o w[i]
      BY <1>1, <3>3
    <3> QED BY <3>2, <3>4, <3>5, <3>6, <3>7
  <2>3. n \in 1..n /\ n + 1 \in 1..(n+1) /\ n + 1 # 1 /\ (n + 1) - 1 = n
    BY <1>e, <1>3
  <2>4. h[n + 1] = h[n] \o w[n + 1]
    BY <1>1, <2>3
  <2>5. h[n] = f[n] /\ f[n] \in Seq(C) /\ w[n + 1] = x
    BY <1>e, <2>1, <2>2, <2>3
  <2> QED BY <1>1, <2>1, <2>4, <2>5 DEF w
<1> QED BY <1>2, <1>3

LEMMA FlattenConcat ==
  ASSUME NEW C, NEW a \in Seq(Seq(C)), NEW b \in Seq(Seq(C))
  PROVE  FlattenSeq(a \o b) = FlattenSeq(a) \o FlattenSeq(b)
<1> DEFINE V == Seq(C)
           Wrong(c) == FlattenSeq(a \o c) # FlattenSeq(a) \o FlattenSeq(c)
           T == {n \in Nat : \E c \in Seq(V) : Len(c) = n /\ Wrong(c)}
<1>0. ASSUME NEW s \in Seq(Seq(C)), NEW x \in Seq(C)
      PROVE  FlattenSeq(s) \in Seq(C) /\ FlattenSeq(Append(s, x)) = FlattenSeq(s) \o x
  BY FlattenAppend
<1>1. \A s \in Seq(V) : FlattenSeq(s) \in V
                        /\ \A x \in V : FlattenSeq(Append(s, x)) = FlattenSeq(s) \o x
  <2>1. <<>> \in V
    OBVIOUS
  <2> QED BY <1>0, <2>1
<1>2. T = {}
  <2> SUFFICES ASSUME T # {} PROVE FALSE
    OBVIOUS
  <2>1. PICK n \in T : \A k \in T : n <= k
    <3>1. T \in SUBSET Nat
      OBVIOUS
    <3> HIDE DEF T
    <3> QED BY <3>1, LeastOf
  <2>2. PICK c \in Seq(V) : Len(c) = n /\ Wrong(c)
    BY <2>1
  <2>3. c # <<>>
    <3> SUFFICES ASSUME c = <<>> PROVE FALSE
      OBVIOUS
    <3>1. FlattenSeq(c) = <<>>
      BY DEF FlattenSeq
    <3>2. a \o c = a /\ FlattenSeq(a) \o <<>> = FlattenSeq(a)
      BY <1>1
    <3> QED BY <2>2, <3>1, <3>2
  <2>4. PICK d \in Seq(V), x \in V : c = Append(d, x)
    <3> HIDE DEF V
    <3> QED BY <2>3, SequenceEmptyOrAppend
  <2>5. Len(d) \in Nat /\ ~(n <= Len(d))
    <3>1. Len(c) = Len(d) + 1 /\ Len(d) \in Nat
      <4> HIDE DEF V
      <4> QED BY <2>4
    <3> QED BY <2>2, <3>1
  <2>6. ~Wrong(d)
    <3>1. Len(d) \notin T
      <4> HIDE DEF T
      <4> QED BY <2>1, <2>5
    <3> HIDE DEF Wrong, V
    <3> QED BY <2>5, <3>1
  <2>7. a \o c = Append(a \o d, x) /\ a \o d \in Seq(V)
    <3>1. a \in Seq(V)
      BY DEF V
    <3> HIDE DEF V, Wrong, T
    <3>2. Append(d, x) = d \o <<x>> /\ <<x>> \in Seq(V) /\ a \o d \in Seq(V)
      <4>1. Append(d, x) = d \o <<x>>
        BY <2>4, AppendIsConcat
      <4>2. a \o d \in Seq(V)
        BY <3>1, ConcatProperties
      <4> QED BY <2>4, <4>1, <4>2
    <3>3. Append(a \o d, x) = (a \o d) \o <<x>>
      BY <2>4, <3>2, AppendIsConcat
    <3>4. (a \o d) \o <<x>> = a \o (d \o <<x>>)
      BY SMTT(30), <2>4, <3>1, <3>2, ConcatAssociative
    <3> QED BY <2>4, <3>2, <3>3, <3>4
  <2>8. FlattenSeq(a \o c) = (FlattenSeq(a) \o FlattenSeq(d)) \o x
    BY <1>1, <2>6, <2>7
  <2>9. FlattenSeq(a) \o FlattenSeq(c) = FlattenSeq(a) \o (FlattenSeq(d) \o x)
    BY <1>1, <2>4
  <2>10. (FlattenSeq(a) \o FlattenSeq(d)) \o x = FlattenSeq(a) \o (FlattenSeq(d) \o x)
    <3>1. FlattenSeq(a) \in Seq(C) /\ FlattenSeq(d) \in Seq(C) /\ x \in Seq(C)
      BY <1>1
    <3> HIDE DEF V, Wrong, T
    <3> QED BY SMTT(30), <3>1, ConcatAssociative
  <2> QED BY <2>2, <2>8, <2>9, <2>10
<1>3. Len(b) \in Nat /\ b \in Seq(V)
  OBVIOUS
<1> HIDE DEF Wrong
<1>4. ~Wrong(b)
  BY <1>2, <1>3
<1> QED BY <1>4 DEF Wrong

LEMMA FormatConcat ==
  ASSUME NEW C, Blank \in C, NEW a \in Seq(C), NEW b \in Seq(C)
  PROVE  Format(a) \in Seq(C) /\ Format(a \o b) = Format(a) \o Format(b)
<1> DEFINE V == Seq(C)
           M(t) == [i \in 1..Len(t) |-> Spaced(t[i])]
<1>1. \A ch \in C : Spaced(ch) \in V
  BY DEF Spaced
<1>2. ASSUME NEW t \in Seq(C) PROVE M(t) \in Seq(V) /\ Len(M(t)) = Len(t)
  <2>1. M(t) \in [1..Len(t) -> V] /\ Len(t) \in Nat
    <3> HIDE DEF V
    <3> QED BY <1>1
  <2> HIDE DEF M, V
  <2> QED BY <2>1, SequenceOfLength
<1>3. M(a \o b) = M(a) \o M(b)
  <2> DEFINE w == a \o b
  <2>e. /\ w \in Seq(C) /\ Len(w) = Len(a) + Len(b) /\ Len(a) \in Nat /\ Len(b) \in Nat
        /\ \A i \in 1..Len(w) : w[i] = IF i <= Len(a) THEN a[i] ELSE b[i - Len(a)]
    BY ConcatProperties
  <2> HIDE DEF w
  <2>1. /\ M(w) \in Seq(V) /\ Len(M(w)) = Len(w)
        /\ M(a) \in Seq(V) /\ Len(M(a)) = Len(a)
        /\ M(b) \in Seq(V) /\ Len(M(b)) = Len(b)
    <3> HIDE DEF M, V
    <3> QED BY <1>2, <2>e
  <2> DEFINE v == M(a) \o M(b)
  <2>2. /\ v \in Seq(V) /\ Len(v) = Len(a) + Len(b)
        /\ \A i \in 1..(Len(a) + Len(b)) : v[i] = IF i <= Len(a) THEN M(a)[i] ELSE M(b)[i - Len(a)]
    <3> DEFINE x == M(a)
               y == M(b)
    <3>1. x \in Seq(V) /\ Len(x) = Len(a) /\ y \in Seq(V) /\ Len(y) = Len(b)
      BY <2>1
    <3> HIDE DEF V, x, y
    <3>2. /\ x \o y \in Seq(V) /\ Len(x \o y) = Len(x) + Len(y)
          /\ \A i \in 1..(Len(x) + Len(y)) : (x \o y)[i] = IF i <= Len(x) THEN x[i] ELSE y[i - Len(x)]
      BY <3>1, ConcatProperties
    <3> QED BY <3>1, <3>2 DEF x, y
  <2>3. ASSUME NEW i \in 1..Len(w) PROVE v[i] = M(w)[i]
    <3>1. M(w)[i] = Spaced(w[i])
      OBVIOUS
    <3>2. CASE i <= Len(a)
      <4>1. i \in 1..Len(a)
        BY <2>e, <2>3, <3>2
      <4>2. M(a)[i] = Spaced(a[i])
        BY <4>1
      <4> HIDE DEF M, v
      <4> QED BY <2>e, <2>2, <2>3, <3>1, <3>2, <4>2
    <3>3. CASE ~(i <= Len(a))
      <4>1. i - Len(a) \in 1..Len(b)
        BY <2>e, <2>3, <3>3
      <4>2. M(b)[i - Len(a)] = Spaced(b[i - Len(a)])
        BY <4>1
      <4> HIDE DEF M, v
      <4> QED BY <2>e, <2>2, <2>3, <3>1, <3>3, <4>2
    <3> QED BY <3>2, <3>3
  <2> HIDE DEF M, v, V
  <2>4. M(w) = v
    BY <2>e, <2>1, <2>2, <2>3, SeqEqual
  <2> QED BY <2>4 DEF v, w
<1>4. \A t : Format(t) = FlattenSeq(M(t))
  BY DEF Format
<1> HIDE DEF M
<1> QED BY <1>2, <1>3, <1>4, FlattenAppend, FlattenConcat

(* The characters of a line, and those that are added. *)
LEMMA CharsAre ==
  /\ Blank \in Chars /\ <<Blank>> \in Seq(Chars)
  /\ \A s \in Seq(STRING) : s \in Seq(Chars)
  /\ \A a, b \in Seq(Chars) : a \o <<Blank>> \o b = a \o (<<Blank>> \o b)
<1>1. Blank \in Chars /\ STRING \subseteq Chars
  BY DEF Chars
<1>2. <<Blank>> \in Seq(Chars)
  BY <1>1
<1>3. \A s \in Seq(STRING) : s \in Seq(Chars)
  BY <1>1, SeqMonotonic
<1> QED BY <1>1, <1>2, <1>3, ConcatAssociative

LEMMA FormatBlank == Format(<<Blank>>) = <<Blank>> /\ Format(<<>>) = <<>>
<1> DEFINE m == [i \in 1..Len(<<Blank>>) |-> Spaced(<<Blank>>[i])]
<1>1. Spaced(Blank) = <<Blank>>
  BY DEF Spaced, Blank
<1>2. m = <<<<Blank>>>>
  BY <1>1
<1>3. m = Append(<<>>, <<Blank>>) /\ <<>> \in Seq(Seq(Chars)) /\ <<Blank>> \in Seq(Chars)
  BY <1>2, CharsAre
<1> HIDE DEF m
<1>4. FlattenSeq(<<>>) = <<>>
  BY DEF FlattenSeq
<1>5. FlattenSeq(m) = <<Blank>>
  <2>1. FlattenSeq(Append(<<>>, <<Blank>>)) = FlattenSeq(<<>>) \o <<Blank>>
    BY <1>3, FlattenAppend
  <2>2. <<>> \o <<Blank>> = <<Blank>>
    BY <1>3
  <2> QED BY <1>3, <1>4, <2>1, <2>2
<1>6. Format(<<>>) = <<>>
  <2>1. [i \in 1..Len(<<>>) |-> Spaced(<<>>[i])] = <<>>
    OBVIOUS
  <2> QED BY <1>4, <2>1 DEF Format
<1> QED BY <1>5, <1>6 DEF Format, m

(***************************************************************************)
(* A text that is read behind another one.                                 *)
(***************************************************************************)
Behind(u, b, n) == Len(u) = n + Len(b) /\ \A k \in 1..Len(b) : u[n + k] = b[k]

Moved(n, r) == Read(r.cell, n + r.next)

LEMMA SkipShift ==
  ASSUME NEW C, NEW u \in Seq(C), NEW b \in Seq(C), NEW n \in Nat, Behind(u, b, n),
         NEW i \in 1..End(b)
  PROVE  SkipBlanks(u, n + i) = n + SkipBlanks(b, i)
<1> DEFINE q == SkipBlanks(b, i)
           m == n + q
<1>e. /\ Len(b) \in Nat /\ End(b) = Len(b) + 1 /\ Len(u) = n + Len(b) /\ End(u) = n + End(b)
      /\ n + i \in 1..End(u)
  BY EndIs DEF Behind, End
<1>1. q \in i..End(b) /\ (q = End(b) \/ b[q] # Blank) /\ \A k \in i..(q - 1) : b[k] = Blank
  BY SkipIs
<1>2. \A j \in (n+i)..End(u) :
        (j = End(u) \/ u[j] # Blank) /\ (\A k \in (n+i)..(j - 1) : u[k] = Blank)
          => SkipBlanks(u, n + i) = j
  BY <1>e, SkipIs
<1> HIDE DEF q
<1>3. m \in (n+i)..End(u) /\ (q = End(b) => m = End(u))
  BY <1>e, <1>1
<1>4. ASSUME q # End(b) PROVE u[m] # Blank
  <2>1. q \in 1..Len(b)
    BY <1>e, <1>1, <1>4
  <2> QED BY <1>1, <1>4, <2>1 DEF Behind
<1>5. ASSUME NEW k \in (n+i)..(m - 1) PROVE u[k] = Blank
  <2>1. k - n \in i..(q - 1) /\ k - n \in 1..Len(b) /\ n + (k - n) = k
    BY <1>e, <1>1, <1>5
  <2>2. u[n + (k - n)] = b[k - n]
    BY <2>1 DEF Behind
  <2> QED BY <1>1, <2>1, <2>2
<1> HIDE DEF m
<1>6. SkipBlanks(u, n + i) = m
  BY <1>2, <1>3, <1>4, <1>5, <1>1
<1> QED BY <1>6 DEF m, q

LEMMA FindShift ==
  ASSUME NEW C, NEW u \in Seq(C), NEW b \in Seq(C), NEW n \in Nat, Behind(u, b, n),
         NEW i \in 1..End(b), NEW ch
  PROVE  FindNext(u, n + i, ch) = n + FindNext(b, i, ch)
<1> DEFINE q == FindNext(b, i, ch)
           m == n + q
<1>e. /\ Len(b) \in Nat /\ End(b) = Len(b) + 1 /\ Len(u) = n + Len(b) /\ End(u) = n + End(b)
      /\ n + i \in 1..End(u)
  BY EndIs DEF Behind, End
<1>1. q \in i..End(b) /\ (q = End(b) \/ b[q] = ch) /\ \A k \in i..(q - 1) : b[k] # ch
  BY FindIs
<1>2. \A j \in (n+i)..End(u) :
        (j = End(u) \/ u[j] = ch) /\ (\A k \in (n+i)..(j - 1) : u[k] # ch)
          => FindNext(u, n + i, ch) = j
  BY <1>e, FindIs
<1> HIDE DEF q
<1>3. m \in (n+i)..End(u) /\ (q = End(b) => m = End(u))
  BY <1>e, <1>1
<1>4. ASSUME q # End(b) PROVE u[m] = ch
  <2>1. q \in 1..Len(b)
    BY <1>e, <1>1, <1>4
  <2> QED BY <1>1, <1>4, <2>1 DEF Behind
<1>5. ASSUME NEW k \in (n+i)..(m - 1) PROVE u[k] # ch
  <2>1. k - n \in i..(q - 1) /\ k - n \in 1..Len(b) /\ n + (k - n) = k
    BY <1>e, <1>1, <1>5
  <2>2. u[n + (k - n)] = b[k - n]
    BY <2>1 DEF Behind
  <2> QED BY <1>1, <2>1, <2>2
<1> HIDE DEF m
<1>6. FindNext(u, n + i, ch) = m
  BY <1>2, <1>3, <1>4, <1>5, <1>1
<1> QED BY <1>6 DEF m, q

LEMMA SubShift ==
  ASSUME NEW C, NEW u \in Seq(C), NEW b \in Seq(C), NEW n \in Nat, Behind(u, b, n),
         NEW i \in 1..End(b), NEW j \in 0..Len(b)
  PROVE  SubSeq(u, n + i, n + j) = SubSeq(b, i, j)
<1>e. Len(b) \in Nat /\ End(b) = Len(b) + 1 /\ Len(u) = n + Len(b)
  BY EndIs DEF Behind
<1>1. CASE i <= j
  <2>1. /\ i \in 1..Len(b) /\ j \in i..Len(b) /\ n + i \in 1..Len(u) /\ n + j \in (n+i)..Len(u)
        /\ (n + j) - (n + i) + 1 = j - i + 1
    BY <1>e, <1>1
  <2>2. SubSeq(b, i, j) = [k \in 1..(j - i + 1) |-> b[i + k - 1]]
    OBVIOUS
  <2>3. SubSeq(u, n + i, n + j) = [k \in 1..((n + j) - (n + i) + 1) |-> u[(n + i) + k - 1]]
    OBVIOUS
  <2>4. ASSUME NEW k \in 1..(j - i + 1) PROVE u[(n + i) + k - 1] = b[i + k - 1]
    <3>1. i + k - 1 \in 1..Len(b) /\ n + (i + k - 1) = (n + i) + k - 1
      BY <1>e, <2>1
    <3> QED BY <3>1 DEF Behind
  <2> QED BY <2>1, <2>2, <2>3, <2>4
<1>2. CASE ~(i <= j)
  <2>1. ~(n + i <= n + j)
    BY <1>e, <1>2
  <2> QED BY <1>2, <2>1
<1> QED BY <1>1, <1>2

LEMMA AtomShift ==
  ASSUME NEW C, NEW u \in Seq(C), NEW b \in Seq(C), NEW n \in Nat, Behind(u, b, n),
         NEW i \in 1..End(b)
  PROVE  ParseAtom(u, n + i) = Moved(n, ParseAtom(b, i))
<1>e. /\ Len(b) \in Nat /\ End(b) = Len(b) + 1 /\ Len(u) = n + Len(b) /\ End(u) = n + End(b)
      /\ i \in Nat /\ (n + i < End(u) <=> i < End(b))
      /\ i < End(b) => i + 1 \in 1..End(b) /\ i \in 1..Len(b)
  BY EndIs DEF Behind, End
<1>f. \A k \in 1..End(b) : \A ch : FindNext(u, n + k, ch) = n + FindNext(b, k, ch)
  BY FindShift
<1>u. i < End(b) => u[n + i] = b[i]
  BY <1>e DEF Behind
<1>1. CASE i < End(b) /\ b[i] = "\""
  <2> DEFINE k == FindNext(b, i + 1, "\"")
             w == SubSeq(b, i + 1, k - 1)
  <2>0. i < End(b)
    BY <1>1
  <2>1. k \in (i+1)..End(b)
    BY <1>e, <1>1, FindIs
  <2>2. FindNext(u, (n + i) + 1, "\"") = n + k
    <3>1. (n + i) + 1 = n + (i + 1)
      BY <1>e
    <3> QED BY <1>e, <1>1, <1>f, <3>1
  <2>3. SubSeq(u, (n + i) + 1, (n + k) - 1) = w
    <3> HIDE DEF k
    <3>1. (n + i) + 1 = n + (i + 1) /\ (n + k) - 1 = n + (k - 1) /\ k - 1 \in 0..Len(b)
      BY <1>e, <2>0, <2>1
    <3>2. i + 1 \in 1..End(b)
      BY <1>e, <2>0
    <3>3. SubSeq(u, n + (i + 1), n + (k - 1)) = SubSeq(b, i + 1, k - 1)
      BY SMTT(30), <3>1, <3>2, SubShift
    <3> QED BY <3>1, <3>3
  <2> HIDE DEF w
  <2>4. ParseString(b, i) = Read(String(w), IF k = End(b) THEN k ELSE k + 1)
    BY DEF ParseString, w
  <2>5. ParseString(u, n + i) = Read(String(w), IF n + k = End(u) THEN n + k ELSE (n + k) + 1)
    BY <2>2, <2>3 DEF ParseString
  <2> HIDE DEF k
  <2>6. (IF n + k = End(u) THEN n + k ELSE (n + k) + 1) = n + (IF k = End(b) THEN k ELSE k + 1)
    BY <1>e, <2>1
  <2>7. ParseAtom(b, i) = ParseString(b, i) /\ ParseAtom(u, n + i) = ParseString(u, n + i)
    BY <1>1, <1>e, <1>u DEF ParseAtom
  <2> QED BY <2>4, <2>5, <2>6, <2>7 DEF Moved, Read
<1>2. CASE ~(i < End(b) /\ b[i] = "\"")
  <2> DEFINE k == FindNext(b, i, Blank)
             w == SubSeq(b, i, k - 1)
  <2>1. k \in i..End(b)
    BY <1>e, FindIs
  <2>2. FindNext(u, n + i, Blank) = n + k
    BY <1>f
  <2>3. SubSeq(u, n + i, (n + k) - 1) = w
    <3> HIDE DEF k
    <3>1. (n + k) - 1 = n + (k - 1) /\ k - 1 \in 0..Len(b)
      BY <1>e, <2>1
    <3> QED BY <3>1, SubShift
  <2> HIDE DEF w
  <2>4. ParseAtom(b, i) = Read([kind |-> ComputeType(w), val |-> w], k)
    BY <1>2 DEF ParseAtom, w
  <2>5. ParseAtom(u, n + i) = Read([kind |-> ComputeType(w), val |-> w], n + k)
    BY <1>2, <1>e, <1>u, <2>2, <2>3 DEF ParseAtom
  <2> QED BY <2>4, <2>5 DEF Moved, Read
<1> QED BY <1>1, <1>2

LEMMA CellShift ==
  ASSUME NEW C, NEW u \in Seq(C), NEW b \in Seq(C), NEW n \in Nat, Behind(u, b, n),
         NEW i \in 1..End(b), NEW g, NEW h,
         \A s \in 1..End(b) : s > i => h[n + s] = Moved(n, g[s])
  PROVE  ParseCell(u, n + i, h) = Moved(n, ParseCell(b, i, g))
<1> DEFINE q == SkipBlanks(b, i)
           quoted == q < End(b) /\ b[q] \in Quotes
           j == IF quoted THEN SkipBlanks(b, q + 1) ELSE q
           r == IF j < End(b) /\ b[j] = "(" THEN g[j + 1] ELSE ParseAtom(b, j)
           x == IF n + j < End(u) /\ u[n + j] = "(" THEN h[(n + j) + 1] ELSE ParseAtom(u, n + j)
<1>e. /\ Len(b) \in Nat /\ End(b) = Len(b) + 1 /\ Len(u) = n + Len(b) /\ End(u) = n + End(b)
      /\ i \in Nat
  BY EndIs DEF Behind, End
<1>u. \A k \in 1..End(b) : (n + k < End(u) <=> k < End(b)) /\ (k < End(b) => u[n + k] = b[k])
  BY <1>e DEF Behind
<1>s. \A k \in 1..End(b) : SkipBlanks(u, n + k) = n + SkipBlanks(b, k)
  BY SkipShift
<1>1. q \in i..End(b) /\ q \in 1..End(b) /\ SkipBlanks(u, n + i) = n + q
  <2>1. q \in i..End(b)
    BY SkipIs
  <2>2. SkipBlanks(u, n + i) = n + q
    BY <1>s
  <2> HIDE DEF q
  <2> QED BY <1>e, <2>1, <2>2
<1>2. /\ j \in q..End(b) /\ j \in 1..End(b)
      /\ quoted => SkipBlanks(u, (n + q) + 1) = n + j
  <2>1. CASE quoted
    <3>1. q + 1 \in 1..End(b) /\ (n + q) + 1 = n + (q + 1)
      <4> HIDE DEF q
      <4> QED BY <1>e, <1>1, <2>1
    <3>2. SkipBlanks(b, q + 1) \in (q+1)..End(b)
      <4> HIDE DEF q
      <4> QED BY <3>1, SkipIs
    <3>3. SkipBlanks(u, n + (q + 1)) = n + SkipBlanks(b, q + 1)
      <4> HIDE DEF q
      <4> QED BY <1>s, <3>1
    <3> HIDE DEF q
    <3> QED BY <1>e, <1>1, <2>1, <3>1, <3>2, <3>3
  <2>2. CASE ~quoted
    <3> HIDE DEF q
    <3> QED BY <1>1, <2>2, <1>e
  <2> QED BY <2>1, <2>2
<1>3. ParseCell(b, i, g) =
        IF quoted THEN Read(List(<<Symbol(QuoteName(b[q])), r.cell>>), r.next) ELSE r
  BY DEF ParseCell
<1>4. ParseCell(u, n + i, h) =
        IF quoted THEN Read(List(<<Symbol(QuoteName(b[q])), x.cell>>), x.next) ELSE x
  <2> DEFINE marked == n + q < End(u) /\ u[n + q] \in Quotes
  <2>1. marked = quoted
    <3> HIDE DEF q
    <3> QED BY <1>u, <1>1
  <2>2. quoted => u[n + q] = b[q]
    <3> HIDE DEF q
    <3> QED BY <1>u, <1>1
  <2>3. n + j = IF quoted THEN SkipBlanks(u, (n + q) + 1) ELSE n + q
    <3> HIDE DEF q
    <3> QED BY <1>2
  <2>4. ParseCell(u, n + i, h) =
          IF marked THEN Read(List(<<Symbol(QuoteName(u[n + q])), x.cell>>), x.next) ELSE x
    <3> HIDE DEF q, j, quoted
    <3> QED BY <1>1, <2>1, <2>3 DEF ParseCell
  <2> HIDE DEF q, j, quoted, x, marked
  <2> QED BY <2>1, <2>2, <2>4
<1>5. x = Moved(n, r)
  <2>1. CASE j < End(b) /\ b[j] = "("
    <3>1. x = h[(n + j) + 1]
      <4> HIDE DEF j
      <4> QED BY <1>u, <1>2, <2>1
    <3>2. (n + j) + 1 = n + (j + 1) /\ j + 1 \in 1..End(b) /\ j + 1 > i
      <4> HIDE DEF j, q
      <4> QED BY <1>e, <1>1, <1>2, <2>1
    <3>3. r = g[j + 1]
      BY <2>1
    <3> HIDE DEF j, r, x
    <3> QED BY <3>1, <3>2, <3>3
  <2>2. CASE ~(j < End(b) /\ b[j] = "(")
    <3>1. x = ParseAtom(u, n + j)
      <4> HIDE DEF j
      <4> QED BY <1>u, <1>2, <2>2
    <3>2. r = ParseAtom(b, j)
      BY <2>2
    <3> HIDE DEF j, r, x
    <3> QED BY <1>2, <3>1, <3>2, AtomShift
  <2> QED BY <2>1, <2>2
<1> HIDE DEF q, j, quoted, r, x
<1>6. x.cell = r.cell /\ x.next = n + r.next
  BY <1>5 DEF Moved, Read
<1>7. CASE quoted
  BY <1>3, <1>4, <1>6, <1>7 DEF Moved, Read
<1>8. CASE ~quoted
  BY <1>3, <1>4, <1>5, <1>8
<1> QED BY <1>7, <1>8

LEMMA SexpShift ==
  ASSUME NEW C, NEW u \in Seq(C), NEW b \in Seq(C), NEW n \in Nat, Behind(u, b, n)
  PROVE  \A i \in 1..End(b) : ParseSexp(u)[n + i] = Moved(n, ParseSexp(b)[i])
<1> DEFINE g == ParseSexp(b)
           h == ParseSexp(u)
           T == {i \in 1..End(b) : h[n + i] # Moved(n, g[i])}
<1>e. /\ Len(b) \in Nat /\ End(b) = Len(b) + 1 /\ Len(u) = n + Len(b) /\ End(u) = n + End(b)
      /\ End(b) \in Nat
  BY EndIs DEF Behind, End
<1>n. \A i \in 1..End(b) : n + i \in 1..End(u) /\ (n + i = End(u) <=> i = End(b))
  BY <1>e
<1>1. /\ \A i \in 1..End(b) : g[i] = ParseRest(b, i, g)
      /\ \A i \in 1..End(u) : h[i] = ParseRest(u, i, h)
  BY SexpIs
<1>c. \A i \in 1..End(b) : SkipBlanks(b, i) < End(b) =>
        ParseCell(b, i, g).next \in (SkipBlanks(b, i) + 1)..End(b)
  BY CellIs
<1> HIDE DEF g, h
<1>2. T = {}
  <2> SUFFICES ASSUME T # {} PROVE FALSE
    OBVIOUS
  <2>1. PICK i \in T : \A s \in T : s <= i
    <3>1. T \subseteq 1..End(b)
      OBVIOUS
    <3>2. End(b) \in Nat
      BY <1>e
    <3> HIDE DEF T
    <3> QED BY ONLY T # {}, <3>1, <3>2, LastPosition
  <2>2. /\ i \in 1..End(b) /\ h[n + i] # Moved(n, g[i])
        /\ \A s \in 1..End(b) : s > i => h[n + s] = Moved(n, g[s])
    BY <2>1, <1>e
  <2> DEFINE j == SkipBlanks(b, i)
             r == ParseCell(b, j, g)
             rest == g[r.next]
  <2>3. /\ j \in i..End(b) /\ (j = End(b) \/ b[j] # Blank)
    BY <2>2, SkipIs
  <2>4. /\ j \in 1..End(b) /\ SkipBlanks(u, n + i) = n + j
        /\ n + j = End(u) <=> j = End(b)
        /\ j # End(b) => u[n + j] = b[j]
    <3>1. SkipBlanks(u, n + i) = n + j
      BY <2>2, SkipShift
    <3> HIDE DEF j
    <3> QED BY <1>e, <1>n, <2>2, <2>3, <3>1 DEF Behind
  <2>5. h[n + i] = ParseRest(u, n + i, h) /\ g[i] = ParseRest(b, i, g)
    BY <1>1, <1>n, <2>2
  <2>6. CASE j = End(b)
    <3>1. ParseRest(b, i, g) = Read(Null, j)
      BY <2>6 DEF ParseRest
    <3>2. ParseRest(u, n + i, h) = Read(Null, n + j)
      <4> HIDE DEF j
      <4> QED BY <2>4, <2>6 DEF ParseRest
    <3> HIDE DEF j
    <3> QED BY <2>2, <2>5, <3>1, <3>2 DEF Moved, Read
  <2>7. CASE j # End(b) /\ b[j] = ")"
    <3>1. ParseRest(b, i, g) = Read(List(<<>>), j + 1)
      BY <2>7 DEF ParseRest
    <3>2. ParseRest(u, n + i, h) = Read(List(<<>>), (n + j) + 1)
      <4> HIDE DEF j
      <4> QED BY <2>4, <2>7 DEF ParseRest
    <3>3. (n + j) + 1 = n + (j + 1)
      <4> HIDE DEF j
      <4> QED BY <1>e, <2>4
    <3> HIDE DEF j
    <3> QED BY <2>2, <2>5, <3>1, <3>2, <3>3 DEF Moved, Read
  <2>8. CASE j # End(b) /\ b[j] # ")"
    <3>1. SkipBlanks(b, j) = j
      <4> HIDE DEF j
      <4>1. j \in j..End(b) /\ j \in 1..End(b) /\ \A k \in j..(j - 1) : b[k] = Blank
        BY <1>e, <2>3, <2>4
      <4>2. \A k \in j..End(b) :
              (k = End(b) \/ b[k] # Blank) /\ (\A l \in j..(k - 1) : b[l] = Blank)
                => SkipBlanks(b, j) = k
        BY <4>1, SkipIs
      <4> QED BY <2>3, <4>1, <4>2
    <3>2. r.next \in (j + 1)..End(b)
      <4> HIDE DEF j
      <4>1. j < End(b)
        BY <1>e, <2>4, <2>8
      <4> QED BY <1>c, <2>4, <3>1, <4>1
    <3>3. r.next \in 1..End(b) /\ r.next > i
      <4> HIDE DEF j, r
      <4> QED BY Z3T(30), <1>e, <2>2, <2>3, <3>2
    <3>4. ParseCell(u, n + j, h) = Moved(n, r)
      <4>1. \A s \in 1..End(b) : s > j => h[n + s] = Moved(n, g[s])
        <5> HIDE DEF j
        <5> QED BY <1>e, <2>2, <2>3
      <4> HIDE DEF j
      <4> QED BY <2>4, <4>1, CellShift
    <3>5. h[n + r.next] = Moved(n, rest)
      <4> HIDE DEF r, j
      <4> QED BY <2>2, <3>3
    <3>6. ParseRest(b, i, g) = IF rest.cell = Null THEN rest
                 ELSE Read(List(<<r.cell>> \o rest.cell.cells), rest.next)
      BY <2>8 DEF ParseRest
    <3> DEFINE x == ParseCell(u, n + j, h)
               y == h[x.next]
    <3>7. ParseRest(u, n + i, h) = IF y.cell = Null THEN y
                 ELSE Read(List(<<x.cell>> \o y.cell.cells), y.next)
      <4> HIDE DEF j, r
      <4> QED BY <2>4, <2>8 DEF ParseRest
    <3> HIDE DEF j, r
    <3>8. x.cell = r.cell /\ x.next = n + r.next
      BY <3>4 DEF Moved, Read
    <3>9. y = Moved(n, rest)
      <4> HIDE DEF x, rest
      <4> QED BY <3>5, <3>8
    <3> HIDE DEF x, y, rest
    <3>10. y.cell = rest.cell /\ y.next = n + rest.next
      BY <3>9 DEF Moved, Read
    <3>11. CASE rest.cell = Null
      BY <2>2, <2>5, <3>6, <3>7, <3>9, <3>10, <3>11
    <3>12. CASE rest.cell # Null
      BY <2>2, <2>5, <3>6, <3>7, <3>8, <3>10, <3>12 DEF Moved, Read
    <3> QED BY <3>11, <3>12
  <2> QED BY <2>6, <2>7, <2>8
<1> QED BY <1>2 DEF g, h

LEMMA CellsShift ==
  ASSUME NEW C, NEW u \in Seq(C), NEW b \in Seq(C), NEW n \in Nat, Behind(u, b, n),
         NEW g, NEW h, \A s \in 1..End(b) : h[n + s] = Moved(n, g[s])
  PROVE  \A i \in 1..End(b) : ParseCell(u, n + i, h) = Moved(n, ParseCell(b, i, g))
<1> TAKE i \in 1..End(b)
<1>1. \A s \in 1..End(b) : s > i => h[n + s] = Moved(n, g[s])
  OBVIOUS
<1> QED BY Z3T(30), <1>1, CellShift

LEMMA TopsShift ==
  ASSUME NEW C, NEW u \in Seq(C), NEW b \in Seq(C), NEW n \in Nat, Behind(u, b, n)
  PROVE  \A i \in 1..End(b) : Tops(u)[n + i] = Tops(b)[i]
<1> DEFINE g == ParseSexp(b)
           h == ParseSexp(u)
           T == {i \in 1..End(b) : Tops(u)[n + i] # Tops(b)[i]}
<1>e. /\ Len(b) \in Nat /\ End(b) = Len(b) + 1 /\ Len(u) = n + Len(b) /\ End(u) = n + End(b)
      /\ End(b) \in Nat
  BY EndIs DEF Behind, End
<1>n. \A i \in 1..End(b) : n + i \in 1..End(u)
  BY <1>e
<1>s. \A s \in 1..End(b) : h[n + s] = Moved(n, g[s])
  BY SexpShift
<1> HIDE DEF g, h
<1>c. ASSUME NEW i \in 1..End(b)
      PROVE  ParseCell(u, n + i, h) = Moved(n, ParseCell(b, i, g))
  BY <1>s, CellsShift
<1>2. T = {}
  <2> SUFFICES ASSUME T # {} PROVE FALSE
    OBVIOUS
  <2>1. PICK i \in T : \A s \in T : s <= i
    <3>1. T \subseteq 1..End(b)
      OBVIOUS
    <3>2. End(b) \in Nat
      BY <1>e
    <3> HIDE DEF T
    <3> QED BY ONLY T # {}, <3>1, <3>2, LastPosition
  <2>2. /\ i \in 1..End(b) /\ Tops(u)[n + i] # Tops(b)[i]
        /\ \A s \in 1..End(b) : s > i => Tops(u)[n + s] = Tops(b)[s]
    BY <2>1, <1>e
  <2> DEFINE q == SkipBlanks(b, i)
             r == ParseCell(b, i, g)
             x == ParseCell(u, n + i, h)
  <2>3. q \in i..End(b) /\ SkipBlanks(u, n + i) = n + q
    BY <2>2, SkipIs, SkipShift
  <2>4. x = Moved(n, r)
    BY <1>c, <2>2
  <2>5. x.cell = r.cell /\ x.next = n + r.next
    <3> HIDE DEF x, r
    <3> QED BY <2>4 DEF Moved, Read
  <2>6. CASE q = End(b)
    <3>1. Tops(b)[i] = <<>>
      BY <2>2, <2>6, TopIs DEF g, h
    <3>2. SkipBlanks(u, n + i) = End(u)
      <4> HIDE DEF q
      <4> QED BY <1>e, <2>3, <2>6
    <3>3. Tops(u)[n + i] = <<>>
      BY <1>n, <2>2, <3>2, TopIs DEF g, h
    <3> QED BY <2>2, <3>1, <3>3
  <2>7. CASE q # End(b)
    <3>1. q < End(b) /\ SkipBlanks(u, n + i) < End(u)
      <4> HIDE DEF q
      <4> QED BY <1>e, <2>2, <2>3, <2>7
    <3>2. r.next \in (i+1)..End(b) /\ Tops(b)[i] = <<r.cell>> \o Tops(b)[r.next]
      BY <2>2, <3>1, TopIs DEF g, h
    <3>3. Tops(u)[n + i] = <<x.cell>> \o Tops(u)[x.next]
      BY <1>n, <2>2, <3>1, TopIs DEF g, h
    <3> HIDE DEF x, r
    <3>4. r.next \in 1..End(b) /\ r.next > i
      BY Z3T(30), <1>e, <2>2, <3>2
    <3> QED BY <2>2, <2>5, <3>2, <3>3, <3>4
  <2> QED BY <2>6, <2>7
<1> QED BY <1>2

(***************************************************************************)
(* What stands in a text: cells wherever they stand, rows of them between  *)
(* any others.                                                             *)
(***************************************************************************)
(* Cells in front of a list, unless the list is open. *)
Before(cs, r) == IF r.cell = Null THEN r ELSE Read(List(cs \o r.cell.cells), r.next)

(* Blanks in front of a cell do not matter. *)
LEMMA SkipTwice ==
  ASSUME NEW C, NEW t \in Seq(C), NEW i \in 1..End(t)
  PROVE  /\ SkipBlanks(t, i) \in 1..End(t) /\ SkipBlanks(t, SkipBlanks(t, i)) = SkipBlanks(t, i)
         /\ \A g : ParseCell(t, i, g) = ParseCell(t, SkipBlanks(t, i), g)
<1> DEFINE j == SkipBlanks(t, i)
<1>1. j \in i..End(t) /\ (j = End(t) \/ t[j] # Blank)
  BY SkipIs
<1>2. End(t) \in Nat /\ j \in 1..End(t) /\ j \in Nat
  BY <1>1, EndIs
<1> HIDE DEF j
<1>3. SkipBlanks(t, j) = j
  BY <1>1, <1>2, SkipIs
<1>4. \A g : ParseCell(t, i, g) = ParseCell(t, j, g)
  <2>1. SkipBlanks(t, i) = j
    BY DEF j
  <2> QED BY <1>3, <2>1 DEF ParseCell
<1> QED BY <1>2, <1>3, <1>4 DEF j

(* One step through a list. *)
LEMMA SexpStep ==
  ASSUME NEW C, NEW t \in Seq(C), NEW i \in 1..End(t)
  PROVE  LET j == SkipBlanks(t, i)
             r == ParseCell(t, i, ParseSexp(t))
         IN  /\ j = End(t) => ParseSexp(t)[i] = Read(Null, j)
             /\ j < End(t) /\ t[j] = ")" => ParseSexp(t)[i] = Read(List(<<>>), j + 1)
             /\ j < End(t) /\ t[j] # ")" =>
                  /\ r.next \in (i+1)..End(t)
                  /\ ParseSexp(t)[i] = Before(<<r.cell>>, ParseSexp(t)[r.next])
<1> DEFINE g == ParseSexp(t)
           j == SkipBlanks(t, i)
           r == ParseCell(t, i, g)
<1>1. g[i] = ParseRest(t, i, g)
  BY SexpIs
<1>2. r = ParseCell(t, j, g)
  BY SkipTwice
<1>3. j \in i..End(t) /\ End(t) \in Nat
  BY SkipIs, EndIs
<1>4. j < End(t) => r.next \in (j+1)..End(t)
  BY CellIs
<1>6. j = SkipBlanks(t, i)
  OBVIOUS
<1> HIDE DEF g, j, r
<1>5. g[i] = IF j = End(t) THEN Read(Null, j)
             ELSE IF t[j] = ")" THEN Read(List(<<>>), j + 1)
             ELSE Before(<<r.cell>>, g[r.next])
  BY <1>1, <1>2, <1>6 DEF ParseRest, Before
<1>7. j < End(t) => r.next \in (i+1)..End(t) /\ j # End(t)
  BY <1>3, <1>4
<1> QED BY <1>5, <1>7 DEF g, j, r

(* What is read of a list are cells of the text. *)
LEMMA SexpForm ==
  ASSUME NEW C, NEW t \in Seq(C)
  PROVE  \A i \in 1..End(t) : \E s \in Seq(CellsOf(t)), n \in Nat :
           ParseSexp(t)[i] = Read(Null, n) \/ ParseSexp(t)[i] = Read(List(s), n)
<1> DEFINE g == ParseSexp(t)
           D == CellsOf(t)
           Right(i) == \E s \in Seq(D), n \in Nat : g[i] = Read(Null, n) \/ g[i] = Read(List(s), n)
           T == {i \in 1..End(t) : ~Right(i)}
<1>e. End(t) \in Nat
  BY EndIs
<1>1. T = {}
  <2> SUFFICES ASSUME T # {} PROVE FALSE
    OBVIOUS
  <2>1. PICK i \in T : \A s \in T : s <= i
    <3>1. T \subseteq 1..End(t)
      OBVIOUS
    <3> HIDE DEF T
    <3> QED BY <1>e, <3>1, LastPosition
  <2>2. i \in 1..End(t) /\ ~Right(i) /\ \A s \in 1..End(t) : s > i => Right(s)
    BY <2>1, <1>e
  <2> HIDE DEF T
  <2> DEFINE j == SkipBlanks(t, i)
             r == ParseCell(t, i, g)
  <2>3. j \in i..End(t) /\ (j = End(t) \/ j < End(t))
    <3>1. j \in i..End(t)
      BY <2>2, SkipIs
    <3> HIDE DEF j
    <3> QED BY <3>1, <1>e, <2>2
  <2>4. r.cell \in D
    BY <2>2 DEF CellsOf
  <2>5. /\ j = End(t) => g[i] = Read(Null, j)
        /\ j < End(t) /\ t[j] = ")" => g[i] = Read(List(<<>>), j + 1)
        /\ j < End(t) /\ t[j] # ")" =>
             r.next \in (i+1)..End(t) /\ g[i] = Before(<<r.cell>>, g[r.next])
    BY <2>2, SexpStep
  <2> HIDE DEF g, D, j, r, Right
  <2>6. CASE j = End(t)
    <3>1. <<>> \in Seq(D) /\ j \in Nat
      BY <1>e, <2>6
    <3> QED BY <2>2, <2>5, <2>6, <3>1 DEF Right
  <2>7. CASE j < End(t) /\ t[j] = ")"
    <3>1. <<>> \in Seq(D) /\ j + 1 \in Nat
      BY <1>e, <2>2, <2>3
    <3> QED BY <2>2, <2>5, <2>7, <3>1 DEF Right
  <2>8. CASE j < End(t) /\ t[j] # ")"
    <3>1. r.next \in 1..End(t) /\ r.next > i
      BY <1>e, <2>2, <2>5, <2>8
    <3>2. PICK s \in Seq(D), n \in Nat : g[r.next] = Read(Null, n) \/ g[r.next] = Read(List(s), n)
      BY <2>2, <3>1 DEF Right
    <3>3. CASE g[r.next] = Read(Null, n)
      <4>1. g[i] = Read(Null, n)
        BY <2>5, <2>8, <3>3 DEF Before, Read
      <4> QED BY <2>2, <4>1 DEF Right
    <3>4. CASE g[r.next] = Read(List(s), n)
      <4>1. g[r.next].cell # Null /\ g[r.next].cell.cells = s /\ g[r.next].next = n
        BY <3>4 DEF Read, List, Null
      <4>2. g[i] = Read(List(<<r.cell>> \o s), n)
        BY <2>5, <2>8, <4>1 DEF Before
      <4>3. <<r.cell>> \o s \in Seq(D)
        BY <2>4, ConcatProperties
      <4> QED BY <2>2, <4>2, <4>3 DEF Right
    <3> QED BY <3>2, <3>3, <3>4
  <2> QED BY <2>3, <2>6, <2>7, <2>8
<1> QED BY <1>1

LEMMA ConcatIs ==
  ASSUME NEW x \in Seq(Chars), NEW b \in Seq(Chars)
  PROVE  /\ x \o b \in Seq(Chars) /\ Behind(x \o b, b, Len(x)) /\ Begins(x, x \o b)
         /\ End(x \o b) = Len(x) + End(b) /\ 1 \in 1..End(b) /\ 1 \in 1..End(x \o b)
         /\ Len(x) \in Nat /\ Len(x) + 1 \in 1..End(x \o b) /\ Len(b) \in Nat
         /\ End(x \o b) \in Nat /\ End(b) \in Nat
BY EndIs DEF Behind, Begins, End

LEMMA ShiftFirst ==
  ASSUME NEW C, NEW u \in Seq(C), NEW b \in Seq(C), NEW n \in Nat, Behind(u, b, n)
  PROVE  ParseSexp(u)[n + 1] = Moved(n, ParseSexp(b)[1]) /\ Tops(u)[n + 1] = Tops(b)[1]
<1>1. 1 \in 1..End(b)
  BY EndIs
<1>2. ParseSexp(u)[n + 1] = Moved(n, ParseSexp(b)[1])
  BY <1>1, SexpShift
<1>3. Tops(u)[n + 1] = Tops(b)[1]
  BY <1>1, TopsShift
<1> QED BY <1>2, <1>3

(* A text behind another one is read as it is alone. *)
LEMMA ConcatShift ==
  ASSUME NEW x \in Seq(Chars), NEW b \in Seq(Chars)
  PROVE  /\ ParseSexp(x \o b)[Len(x) + 1] = Moved(Len(x), ParseSexp(b)[1])
         /\ Tops(x \o b)[Len(x) + 1] = Tops(b)[1]
         /\ ParseCell(x \o b, Len(x) + 1, ParseSexp(x \o b)) =
              Moved(Len(x), ParseCell(b, 1, ParseSexp(b)))
<1> DEFINE u == x \o b
           n == Len(x)
<1>1. /\ u \in Seq(Chars) /\ n \in Nat /\ Behind(u, b, n) /\ 1 \in 1..End(b)
  BY ConcatIs
<1> HIDE DEF u, n
<1>2. ParseSexp(u)[n + 1] = Moved(n, ParseSexp(b)[1]) /\ Tops(u)[n + 1] = Tops(b)[1]
  BY <1>1, ShiftFirst
<1>3. ParseCell(u, n + 1, ParseSexp(u)) = Moved(n, ParseCell(b, 1, ParseSexp(b)))
  <2> DEFINE g == ParseSexp(b)
             h == ParseSexp(u)
  <2>1. \A s \in 1..End(b) : h[n + s] = Moved(n, g[s])
    BY <1>1, SexpShift
  <2> HIDE DEF g, h
  <2>2. \A i \in 1..End(b) : ParseCell(u, n + i, h) = Moved(n, ParseCell(b, i, g))
    BY <1>1, <2>1, CellsShift
  <2>3. ParseCell(u, n + 1, h) = Moved(n, ParseCell(b, 1, g))
    BY <1>1, <2>2
  <2> QED BY <2>3 DEF g, h
<1> QED BY <1>2, <1>3 DEF u, n

(* A blank in front of a text. *)
LEMMA BlankStep ==
  ASSUME NEW z \in Seq(Chars), NEW u, u = <<Blank>> \o z
  PROVE  /\ Tops(u)[1] = Tops(z)[1]
         /\ ParseSexp(u)[1] = Moved(1, ParseSexp(z)[1])
<1> DEFINE g == ParseSexp(u)
           j == SkipBlanks(u, 2)
<1>1. /\ u \in Seq(Chars) /\ Behind(u, z, 1) /\ u[1] = Blank
      /\ 1 \in 1..End(u) /\ 2 \in 1..End(u) /\ 1 \in 1..End(z) /\ End(u) \in Nat
  <2>1. <<Blank>> \in Seq(Chars) /\ Len(<<Blank>>) = 1
    BY CharsAre
  <2>2. /\ u \in Seq(Chars) /\ Behind(u, z, 1) /\ Begins(<<Blank>>, u)
        /\ 1 \in 1..End(u) /\ 1 + 1 \in 1..End(u) /\ 1 \in 1..End(z)
    BY <2>1, ConcatIs
  <2>3. u[1] = Blank
    BY <2>1, <2>2 DEF Begins
  <2>4. End(u) \in Nat
    BY <2>2, EndIs
  <2> QED BY <2>2, <2>3, <2>4
<1>2. SkipBlanks(u, 1) = j
  <2>1. /\ j \in 2..End(u) /\ (j = End(u) \/ u[j] # Blank)
        /\ \A k \in 2..(j - 1) : u[k] = Blank
    BY <1>1, SkipIs
  <2> HIDE DEF j
  <2>2. j \in 1..End(u) /\ j \in Nat
    BY <1>1, <2>1
  <2>3. ASSUME NEW k \in 1..(j - 1) PROVE u[k] = Blank
    <3>1. CASE k = 1
      BY <1>1, <3>1
    <3>2. CASE k # 1
      <4>1. k \in 2..(j - 1)
        BY <2>2, <3>2
      <4> QED BY <2>1, <4>1
    <3> QED BY <3>1, <3>2
  <2> QED BY <1>1, <2>1, <2>2, <2>3, SkipIs
<1>3. ParseCell(u, 1, g) = ParseCell(u, 2, g)
  <2>1. u \in Seq(Chars) /\ 1 \in 1..End(u) /\ 2 \in 1..End(u)
    BY <1>1
  <2> HIDE DEF g
  <2>2. ParseCell(u, 1, g) = ParseCell(u, SkipBlanks(u, 1), g)
    BY ONLY <2>1, SkipTwice
  <2>3. ParseCell(u, 2, g) = ParseCell(u, SkipBlanks(u, 2), g)
    BY ONLY <2>1, SkipTwice
  <2> QED BY <1>2, <2>2, <2>3
<1>4. g[1] = ParseRest(u, 1, g) /\ g[2] = ParseRest(u, 2, g)
  BY <1>1, SexpIs
<1>5. ParseRest(u, 1, g) = ParseRest(u, 2, g)
  <2> HIDE DEF g
  <2> QED BY <1>2 DEF ParseRest
<1>6. /\ Tops(u)[1] = CellsFrom(u, 1, g, Tops(u))
      /\ Tops(u)[2] = CellsFrom(u, 2, g, Tops(u))
  BY <1>1, TopsAre
<1>7. CellsFrom(u, 1, g, Tops(u)) = CellsFrom(u, 2, g, Tops(u))
  <2> HIDE DEF g
  <2> QED BY <1>2, <1>3 DEF CellsFrom
<1>8. g[1 + 1] = Moved(1, ParseSexp(z)[1]) /\ Tops(u)[1 + 1] = Tops(z)[1]
  <2>1. <<Blank>> \in Seq(Chars) /\ Len(<<Blank>>) = 1
    BY CharsAre
  <2> QED BY <2>1, ConcatShift
<1> HIDE DEF g
<1> QED BY <1>4, <1>5, <1>6, <1>7, <1>8 DEF g

-----------------------------------------------------------------------------
(* What may be written behind x without being taken for more of its end.    *)
Loose(x)   == x # <<>> => x[Len(x)] \in Closers \cup {Blank}
Free(x, b) == Loose(x) \/ b = <<>> \/ b[1] = Blank

(* Wherever x stands in a formatted text, it is read as cell c.             *)
Stands(x, c) ==
  /\ x \in Seq(Chars) /\ x # <<>> /\ x[1] # Blank /\ x[1] # ")"
  /\ \A b \in Seq(Chars) : Free(x, b) =>
       ParseCell(x \o b, 1, ParseSexp(x \o b)) = Read(c, Len(x) + 1)

(* Wherever it stands, at the top or in a list, x is read as these cells.   *)
Row(x, cs) ==
  /\ x \in Seq(Chars) /\ \E D : cs \in Seq(D)
  /\ \A b \in Seq(Chars) : Free(x, b) =>
       /\ Tops(x \o b)[1] = cs \o Tops(b)[1]
       /\ ParseSexp(x \o b)[1] = Before(cs, Moved(Len(x), ParseSexp(b)[1]))

LEMMA CellStep ==
  ASSUME NEW y, NEW c, Stands(y, c), NEW b \in Seq(Chars), Free(y, b)
  PROVE  /\ Tops(y \o b)[1] = <<c>> \o Tops(b)[1]
         /\ ParseSexp(y \o b)[1] = Before(<<c>>, Moved(Len(y), ParseSexp(b)[1]))
<1> DEFINE u == y \o b
           g == ParseSexp(u)
           n == Len(y)
<1>1. /\ u \in Seq(Chars) /\ Behind(u, b, n) /\ Begins(y, u) /\ n \in Nat \ {0}
      /\ End(u) = n + End(b) /\ 1 \in 1..End(b) /\ 1 \in 1..End(u) /\ End(b) \in Nat
  <2>1. y \in Seq(Chars) /\ y # <<>>
    BY DEF Stands
  <2>2. /\ u \in Seq(Chars) /\ Behind(u, b, n) /\ Begins(y, u) /\ n \in Nat
        /\ End(u) = n + End(b) /\ 1 \in 1..End(b) /\ 1 \in 1..End(u)
    BY <2>1, ConcatIs
  <2>3. n # 0
    BY <2>1
  <2> QED BY <2>2, <2>3, EndIs
<1>2. u[1] = y[1] /\ y[1] # Blank /\ y[1] # ")"
  BY <1>1 DEF Stands, Begins
<1>3. SkipBlanks(u, 1) = 1 /\ 1 < End(u)
  <2>1. \A k \in 1..(1 - 1) : u[k] = Blank
    OBVIOUS
  <2>2. 1 \in 1..End(u) /\ 1 < End(u)
    BY <1>1
  <2> QED BY <1>1, <1>2, <2>1, <2>2, SkipIs
<1>4. ParseCell(u, 1, g) = Read(c, n + 1)
  BY DEF Stands
<1>5. g[n + 1] = Moved(n, ParseSexp(b)[1]) /\ Tops(u)[n + 1] = Tops(b)[1]
  <2>1. y \in Seq(Chars)
    BY DEF Stands
  <2>2. /\ ParseSexp(y \o b)[Len(y) + 1] = Moved(Len(y), ParseSexp(b)[1])
        /\ Tops(y \o b)[Len(y) + 1] = Tops(b)[1]
    BY <2>1, ConcatShift
  <2> QED BY <2>2
<1>7. g[1] = Before(<<ParseCell(u, 1, g).cell>>, g[ParseCell(u, 1, g).next])
  <2>1. SkipBlanks(u, 1) < End(u) /\ u[SkipBlanks(u, 1)] # ")"
    BY <1>2, <1>3
  <2> HIDE DEF u
  <2> QED BY <1>1, <2>1, SexpStep
<1>8. Tops(u)[1] = <<ParseCell(u, 1, g).cell>> \o Tops(u)[ParseCell(u, 1, g).next]
  <2> HIDE DEF u
  <2> QED BY <1>1, <1>3, TopIs
<1> HIDE DEF g, u
<1>9. ParseCell(u, 1, g).cell = c /\ ParseCell(u, 1, g).next = n + 1
  BY <1>4 DEF Read
<1> QED BY <1>5, <1>7, <1>8, <1>9 DEF g, u

LEMMA BeforeIs ==
  /\ \A cs, m, n : Before(cs, Moved(m, Read(Null, n))) = Read(Null, m + n)
  /\ \A cs, s, m, n : Before(cs, Moved(m, Read(List(s), n))) = Read(List(cs \o s), m + n)
<1>1. \A m, n : Moved(m, Read(Null, n)) = Read(Null, m + n)
  BY DEF Moved, Read
<1>2. \A s, m, n : Moved(m, Read(List(s), n)) = Read(List(s), m + n)
  BY DEF Moved, Read
<1>3. \A cs, n : Before(cs, Read(Null, n)) = Read(Null, n)
  BY DEF Before, Read
<1>4. \A cs, s, n : Before(cs, Read(List(s), n)) = Read(List(cs \o s), n)
  <2>1. \A s : List(s) # Null /\ List(s).cells = s
    BY DEF List, Null
  <2>2. \A s, n : Read(List(s), n).cell = List(s) /\ Read(List(s), n).next = n
    BY DEF Read
  <2> QED BY <2>1, <2>2 DEF Before
<1> QED BY <1>1, <1>2, <1>3, <1>4

(* Nothing is no cell. *)
LEMMA RowEmpty == Row(<<>>, <<>>)
<1>1. <<>> \in Seq(Chars) /\ <<>> \in Seq(Chars) /\ Len(<<>>) = 0
  OBVIOUS
<1>2. ASSUME NEW b \in Seq(Chars)
      PROVE  /\ Tops(<<>> \o b)[1] = <<>> \o Tops(b)[1]
             /\ ParseSexp(<<>> \o b)[1] = Before(<<>>, Moved(Len(<<>>), ParseSexp(b)[1]))
  <2>1. <<>> \o b = b /\ 1 \in 1..End(b)
    BY EndIs
  <2>2. Tops(b)[1] \in Seq(CellsOf(b))
    BY <2>1, TopIs
  <2>3. <<>> \o Tops(b)[1] = Tops(b)[1]
    BY <2>2
  <2>4. PICK s \in Seq(CellsOf(b)), n \in Nat :
          ParseSexp(b)[1] = Read(Null, n) \/ ParseSexp(b)[1] = Read(List(s), n)
    BY <2>1, SexpForm
  <2>5. 0 + n = n /\ <<>> \o s = s
    OBVIOUS
  <2>6. Before(<<>>, Moved(0, ParseSexp(b)[1])) = ParseSexp(b)[1]
    <3>1. Before(<<>>, Moved(0, Read(Null, n))) = Read(Null, n)
      BY <2>5, BeforeIs
    <3>2. Before(<<>>, Moved(0, Read(List(s), n))) = Read(List(s), n)
      <4> DEFINE e == <<>>
                 m == 0
      <4>1. m + n = n /\ e \o s = s
        BY <2>5
      <4> HIDE DEF e, m
      <4>2. Before(e, Moved(m, Read(List(s), n))) = Read(List(e \o s), m + n)
        BY BeforeIs
      <4>3. Before(e, Moved(m, Read(List(s), n))) = Read(List(s), n)
        BY <4>1, <4>2
      <4> QED BY <4>3 DEF e, m
    <3> QED BY <2>4, <3>1, <3>2
  <2> QED BY <1>1, <2>1, <2>3, <2>6
<1> QED BY <1>1, <1>2 DEF Row

(* Characters behind others. *)
LEMMA LastOf ==
  ASSUME NEW x \in Seq(Chars), NEW y \in Seq(Chars)
  PROVE  /\ x \o y \in Seq(Chars) /\ Len(x \o y) = Len(x) + Len(y)
         /\ y # <<>> => /\ x \o y # <<>> /\ (x \o y)[Len(x \o y)] = y[Len(y)]
                        /\ Loose(x \o y) <=> Loose(y)
                        /\ \A b : Free(x \o y, b) <=> Free(y, b)
         /\ x # <<>> => x \o y # <<>> /\ (x \o y)[1] = x[1]
<1> DEFINE u == x \o y
<1>1. /\ u \in Seq(Chars) /\ Len(u) = Len(x) + Len(y) /\ Len(x) \in Nat /\ Len(y) \in Nat
      /\ \A i \in 1..Len(u) : u[i] = IF i <= Len(x) THEN x[i] ELSE y[i - Len(x)]
  BY ConcatProperties
<1> HIDE DEF u
<1>2. ASSUME y # <<>> PROVE u # <<>> /\ u[Len(u)] = y[Len(y)]
  <2>1. Len(y) # 0
    BY <1>2
  <2>2. Len(u) \in 1..Len(u) /\ ~(Len(u) <= Len(x)) /\ Len(u) - Len(x) = Len(y)
    BY <1>1, <2>1
  <2> QED BY <1>1, <2>2
<1>3. ASSUME x # <<>> PROVE u # <<>> /\ u[1] = x[1]
  <2>1. Len(x) # 0
    BY <1>3
  <2>2. 1 \in 1..Len(u) /\ 1 <= Len(x)
    BY <1>1, <2>1
  <2> QED BY <1>1, <2>2
<1>4. y # <<>> => (Loose(u) <=> Loose(y))
  BY <1>2 DEF Loose
<1>5. y # <<>> => \A b : Free(u, b) <=> Free(y, b)
  BY <1>4 DEF Free
<1> QED BY <1>1, <1>2, <1>3, <1>4, <1>5 DEF u

LEMMA Regroup ==
  ASSUME NEW C, NEW x \in Seq(C), NEW y \in Seq(C), NEW z \in Seq(C)
  PROVE  (x \o y) \o z = x \o (y \o z)
BY ConcatAssociative

LEMMA JoinTwo == \A x, y \in Seq(Chars) : x \o y \in Seq(Chars) /\ Len(x \o y) = Len(x) + Len(y)
BY ConcatProperties

LEMMA JoinThree == \A x, y, z \in Seq(Chars) : (x \o y) \o z = x \o (y \o z)
BY Regroup

LEMMA FormatTwo ==
  \A x, y \in Seq(Chars) : Format(x) \in Seq(Chars) /\ Format(x \o y) = Format(x) \o Format(y)
BY CharsAre, FormatConcat

(* A blank behind cells. *)
LEMMA RowBlank ==
  ASSUME NEW x, NEW cs, Row(x, cs)
  PROVE  Row(x \o <<Blank>>, cs)
<1> DEFINE w == x \o <<Blank>>
<1>1. PICK D : cs \in Seq(D)
  BY DEF Row
<1>2. x \in Seq(Chars) /\ <<Blank>> \in Seq(Chars) /\ Len(<<Blank>>) = 1
  BY CharsAre DEF Row
<1>3. w \in Seq(Chars) /\ Len(w) = Len(x) + 1 /\ Len(x) \in Nat
  BY <1>2, LastOf
<1>4. ASSUME NEW b \in Seq(Chars)
      PROVE  /\ Tops(w \o b)[1] = cs \o Tops(b)[1]
             /\ ParseSexp(w \o b)[1] = Before(cs, Moved(Len(w), ParseSexp(b)[1]))
  <2> DEFINE z == <<Blank>> \o b
  <2>1. w \o b = x \o z
    BY <1>2, Regroup
  <2>2. z \in Seq(Chars) /\ z # <<>> /\ z[1] = Blank
    <3>1. <<Blank>> # <<>> /\ <<Blank>>[1] = Blank
      OBVIOUS
    <3> QED BY <1>2, <3>1, LastOf
  <2>3. Free(x, z)
    BY <2>2 DEF Free
  <2> HIDE DEF z, w
  <2>4. /\ Tops(x \o z)[1] = cs \o Tops(z)[1]
        /\ ParseSexp(x \o z)[1] = Before(cs, Moved(Len(x), ParseSexp(z)[1]))
    BY <2>2, <2>3 DEF Row
  <2>5. Tops(z)[1] = Tops(b)[1] /\ ParseSexp(z)[1] = Moved(1, ParseSexp(b)[1])
    BY BlankStep DEF z
  <2>6. 1 \in 1..End(b)
    BY EndIs
  <2>7. PICK s \in Seq(CellsOf(b)), n \in Nat :
          ParseSexp(b)[1] = Read(Null, n) \/ ParseSexp(b)[1] = Read(List(s), n)
    BY <2>6, SexpForm
  <2>8. Moved(Len(x), ParseSexp(z)[1]) = Moved(Len(w), ParseSexp(b)[1])
    <3>1. Len(x) + (1 + n) = Len(w) + n
      BY <1>3
    <3>2. ParseSexp(b)[1].next = n
      BY <2>7 DEF Read
    <3>3. ParseSexp(z)[1].next = 1 + n /\ ParseSexp(z)[1].cell = ParseSexp(b)[1].cell
      BY <2>5, <3>2 DEF Moved, Read
    <3> QED BY <3>1, <3>2, <3>3 DEF Moved
  <2> QED BY <2>1, <2>4, <2>5, <2>8
<1> HIDE DEF w
<1>5. Row(w, cs)
  BY <1>1, <1>3, <1>4 DEF Row
<1> QED BY <1>5 DEF w

(* One more cell behind others. *)
LEMMA RowCell ==
  ASSUME NEW x, NEW cs, Row(x, cs), Loose(x), NEW y, NEW c, Stands(y, c)
  PROVE  Row(x \o y, Append(cs, c))
<1> DEFINE w == x \o y
           ds == Append(cs, c)
<1>1. PICK D : cs \in Seq(D)
  BY DEF Row
<1>2. x \in Seq(Chars) /\ y \in Seq(Chars) /\ y # <<>>
  BY DEF Row, Stands
<1>3. /\ w \in Seq(Chars) /\ Len(w) = Len(x) + Len(y) /\ Len(x) \in Nat /\ Len(y) \in Nat
      /\ \A b : Free(w, b) <=> Free(y, b)
  <2>1. Len(x) \in Nat /\ Len(y) \in Nat
    BY <1>2
  <2> QED BY <1>2, <2>1, LastOf
<1>4. ds = cs \o <<c>> /\ ds \in Seq(D \cup {c})
  <2>1. ds = cs \o <<c>>
    BY <1>1, AppendIsConcat
  <2>2. cs \in Seq(D \cup {c})
    BY <1>1, SeqMonotonic
  <2> QED BY <2>1, <2>2
<1>5. ASSUME NEW b \in Seq(Chars), Free(w, b)
      PROVE  /\ Tops(w \o b)[1] = ds \o Tops(b)[1]
             /\ ParseSexp(w \o b)[1] = Before(ds, Moved(Len(w), ParseSexp(b)[1]))
  <2> DEFINE z == y \o b
             E == CellsOf(b)
             B == D \cup {c} \cup E
  <2>1. w \o b = x \o z
    BY <1>2, Regroup
  <2>2. z \in Seq(Chars) /\ Free(x, z) /\ Free(y, b)
    BY <1>2, <1>3, <1>5, LastOf DEF Free
  <2> HIDE DEF z, w, ds
  <2>4. /\ Tops(x \o z)[1] = cs \o Tops(z)[1]
        /\ ParseSexp(x \o z)[1] = Before(cs, Moved(Len(x), ParseSexp(z)[1]))
    BY <2>2 DEF Row
  <2>5. /\ Tops(z)[1] = <<c>> \o Tops(b)[1]
        /\ ParseSexp(z)[1] = Before(<<c>>, Moved(Len(y), ParseSexp(b)[1]))
    BY <2>2, CellStep DEF z
  <2>6. \A s \in Seq(E) : cs \o (<<c>> \o s) = ds \o s
    <3> SUFFICES ASSUME NEW s \in Seq(E) PROVE cs \o (<<c>> \o s) = ds \o s
      OBVIOUS
    <3>1. cs \in Seq(B) /\ s \in Seq(B) /\ <<c>> \in Seq(B)
      <4>1. D \subseteq B /\ E \subseteq B /\ c \in B
        OBVIOUS
      <4> HIDE DEF B, E
      <4> QED BY <1>1, <4>1, SeqMonotonic
    <3> HIDE DEF B, E
    <3>2. (cs \o <<c>>) \o s = cs \o (<<c>> \o s)
      BY <3>1, Regroup
    <3> QED BY <1>4, <3>2
  <2>7. 1 \in 1..End(b)
    BY EndIs
  <2>8. PICK s \in Seq(E), n \in Nat :
          ParseSexp(b)[1] = Read(Null, n) \/ ParseSexp(b)[1] = Read(List(s), n)
    BY <2>7, SexpForm
  <2>9. Tops(b)[1] \in Seq(E)
    BY <2>7, TopIs
  <2>10. Tops(w \o b)[1] = ds \o Tops(b)[1]
    BY <2>1, <2>4, <2>5, <2>6, <2>9
  <2>11. Len(x) + (Len(y) + n) = Len(w) + n
    BY <1>3
  <2>12. CASE ParseSexp(b)[1] = Read(Null, n)
    <3>1. ParseSexp(z)[1] = Read(Null, Len(y) + n)
      BY <2>5, <2>12, BeforeIs
    <3>2. ParseSexp(x \o z)[1] = Read(Null, Len(x) + (Len(y) + n))
      BY <2>4, <3>1, BeforeIs
    <3>3. Before(ds, Moved(Len(w), ParseSexp(b)[1])) = Read(Null, Len(w) + n)
      BY <2>12, BeforeIs
    <3> QED BY <2>1, <2>10, <2>11, <3>2, <3>3
  <2>13. CASE ParseSexp(b)[1] = Read(List(s), n)
    <3>1. ParseSexp(z)[1] = Read(List(<<c>> \o s), Len(y) + n)
      BY <2>5, <2>13, BeforeIs
    <3>2. ParseSexp(x \o z)[1] = Read(List(cs \o (<<c>> \o s)), Len(x) + (Len(y) + n))
      BY <2>4, <3>1, BeforeIs
    <3>3. Before(ds, Moved(Len(w), ParseSexp(b)[1])) = Read(List(ds \o s), Len(w) + n)
      BY <2>13, BeforeIs
    <3> QED BY <2>1, <2>6, <2>10, <2>11, <3>2, <3>3
  <2> QED BY <2>8, <2>12, <2>13
<1> HIDE DEF w, ds
<1>6. Row(w, ds)
  BY <1>3, <1>4, <1>5 DEF Row
<1> QED BY <1>6 DEF w, ds

(***************************************************************************)
(* What words, strings, lists and quoted cells are read as.                *)
(***************************************************************************)
(* parse on a single character, and on characters it does not touch. *)
LEMMA FormatOne == \A ch \in Chars : Format(<<ch>>) = Spaced(ch) /\ Spaced(ch) \in Seq(Chars)
<1> SUFFICES ASSUME NEW ch \in Chars
             PROVE  Format(<<ch>>) = Spaced(ch) /\ Spaced(ch) \in Seq(Chars)
  OBVIOUS
<1> DEFINE m == [i \in 1..Len(<<ch>>) |-> Spaced(<<ch>>[i])]
           s == Spaced(ch)
<1>1. s \in Seq(Chars)
  BY CharsAre DEF Spaced
<1> HIDE DEF s
<1>2. m = <<s>>
  BY DEF s
<1>3. m = Append(<<>>, s) /\ <<>> \in Seq(Seq(Chars))
  BY <1>2
<1> HIDE DEF m
<1>4. FlattenSeq(<<>>) = <<>>
  BY DEF FlattenSeq
<1>5. FlattenSeq(m) = s
  <2>1. FlattenSeq(Append(<<>>, s)) = FlattenSeq(<<>>) \o s
    BY <1>1, <1>3, FlattenAppend
  <2>2. <<>> \o s = s
    BY <1>1
  <2> QED BY <1>3, <1>4, <2>1, <2>2
<1> QED BY <1>1, <1>5 DEF Format, m, s

LEMMA FormatPlain ==
  ASSUME NEW S, S \subseteq Chars, \A ch \in S : Spaced(ch) = <<ch>>
  PROVE  \A w \in Seq(S) : Format(w) = w
<1> DEFINE T == {n \in Nat : \E w \in Seq(S) : Len(w) = n /\ Format(w) # w}
<1>1. T = {}
  <2> SUFFICES ASSUME T # {} PROVE FALSE
    OBVIOUS
  <2>1. PICK n \in T : \A k \in T : n <= k
    <3>1. T \in SUBSET Nat
      OBVIOUS
    <3> HIDE DEF T
    <3> QED BY <3>1, LeastOf
  <2>2. PICK w \in Seq(S) : Len(w) = n /\ Format(w) # w
    BY <2>1
  <2>3. w # <<>>
    BY <2>2, FormatBlank
  <2>4. PICK d \in Seq(S), ch \in S : w = Append(d, ch)
    BY <2>3, SequenceEmptyOrAppend
  <2>5. Len(d) \in Nat /\ ~(n <= Len(d))
    BY <2>2, <2>4
  <2>6. Len(d) \notin T
    <3> HIDE DEF T
    <3> QED BY <2>1, <2>5
  <2>7. Format(d) = d
    BY <2>5, <2>6
  <2>8. d \in Seq(Chars) /\ ch \in Chars /\ <<ch>> \in Seq(Chars) /\ w = d \o <<ch>>
    <3>1. d \in Seq(Chars)
      BY SeqMonotonic
    <3>2. w = d \o <<ch>>
      BY <2>4, AppendIsConcat
    <3> QED BY <3>1, <3>2
  <2>9. Format(w) = Format(d) \o Format(<<ch>>)
    BY <2>8, CharsAre, FormatConcat
  <2>10. Format(<<ch>>) = <<ch>>
    BY <2>8, FormatOne
  <2> QED BY <2>2, <2>7, <2>8, <2>9, <2>10
<1> SUFFICES ASSUME NEW w \in Seq(S), Format(w) # w PROVE FALSE
  OBVIOUS
<1>2. Len(w) \in T
  OBVIOUS
<1> QED BY <1>1, <1>2

-----------------------------------------------------------------------------
(* The characters the reader knows, named for the provers. *)
Opening     == "("
Closing     == ")"
DoubleQuote == "\""

(* What is read where a cell begins that has no quote character. *)
LEMMA CellHere ==
  ASSUME NEW y \in Seq(Chars), y # <<>>, y[1] # Blank, y[1] \notin Quotes, NEW b \in Seq(Chars)
  PROVE  /\ SkipBlanks(y \o b, 1) = 1 /\ 1 \in 1..Len(y \o b) /\ (y \o b)[1] = y[1]
         /\ \A g : ParseCell(y \o b, 1, g) =
                     IF y[1] = Opening THEN g[2] ELSE ParseAtom(y \o b, 1)
<1> DEFINE u == y \o b
<1>1. u \in Seq(Chars) /\ u # <<>> /\ u[1] = y[1]
  BY LastOf
<1> HIDE DEF u
<1>2. 1 \in 1..Len(u) /\ 1 \in 1..End(u) /\ 1 < End(u) /\ 1 + 1 = 2
  <2>1. Len(u) # 0 /\ Len(u) \in Nat
    BY <1>1
  <2> QED BY <1>1, <2>1, EndIs
<1>3. SkipBlanks(u, 1) = 1
  <2>1. \A k \in 1..(1 - 1) : u[k] = Blank
    OBVIOUS
  <2> QED BY <1>1, <1>2, <2>1, SkipIs
<1>4. \A g : ParseCell(u, 1, g) = IF y[1] = Opening THEN g[2] ELSE ParseAtom(u, 1)
  <2>1. ~(1 < End(u) /\ u[1] \in Quotes)
    BY <1>1
  <2> QED BY <1>1, <1>2, <1>3, <2>1 DEF ParseCell, Opening
<1> QED BY <1>1, <1>2, <1>3, <1>4 DEF u

(* The front of two texts. *)
LEMMA SubFront ==
  ASSUME NEW y \in Seq(Chars), NEW b \in Seq(Chars)
  PROVE  SubSeq(y \o b, 1, Len(y)) = y
<1> DEFINE u == y \o b
<1>1. /\ u \in Seq(Chars) /\ Len(u) = Len(y) + Len(b) /\ Len(y) \in Nat /\ Len(b) \in Nat
      /\ \A i \in 1..Len(y) : u[i] = y[i]
  BY ConcatProperties
<1> HIDE DEF u
<1>2. /\ SubSeq(u, 1, Len(y)) \in Seq(Chars) /\ Len(SubSeq(u, 1, Len(y))) = Len(y)
      /\ \A i \in 1..Len(y) : SubSeq(u, 1, Len(y))[i] = u[i]
  BY <1>1
<1>3. SubSeq(u, 1, Len(y)) = y
  BY <1>1, <1>2, SeqEqual
<1> QED BY <1>3 DEF u

(* Words. *)
LEMMA StandsPlain ==
  ASSUME NEW w \in Seq(Chars \ Brackets), w # <<>>, w[1] \notin Quotes
  PROVE  /\ Stands(w, [kind |-> ComputeType(w), val |-> w])
         /\ Format(w) = w /\ ~Loose(w)
<1>1. w \in Seq(Chars) /\ \A k \in 1..Len(w) : w[k] \notin Brackets
  <2>1. Chars \ Brackets \subseteq Chars
    OBVIOUS
  <2>2. w \in Seq(Chars)
    BY <2>1, SeqMonotonic
  <2> QED BY <2>2
<1>2. Len(w) \in 1..Len(w) /\ 1 \in 1..Len(w) /\ Len(w) \in Nat
  <2>1. Len(w) # 0 /\ Len(w) \in Nat
    BY <1>1
  <2> QED BY <2>1
<1>3. /\ w[1] # Blank /\ w[1] # ")" /\ w[1] # "(" /\ w[1] # "\""
      /\ \A k \in 1..Len(w) : w[k] # Blank
  BY <1>1, <1>2 DEF Brackets
<1>4. ~Loose(w)
  BY <1>1, <1>2 DEF Loose, Closers, Brackets
<1>5. Format(w) = w
  <2>1. Chars \ Brackets \subseteq Chars
    OBVIOUS
  <2>2. \A ch \in Chars \ Brackets : Spaced(ch) = <<ch>>
    BY DEF Spaced, Brackets
  <2> QED BY <2>1, <2>2, FormatPlain
<1>6. ASSUME NEW b \in Seq(Chars), Free(w, b)
      PROVE  ParseCell(w \o b, 1, ParseSexp(w \o b)) =
               Read([kind |-> ComputeType(w), val |-> w], Len(w) + 1)
  <2> DEFINE u == w \o b
             j == Len(w) + 1
  <2>1. /\ u \in Seq(Chars) /\ Len(u) = Len(w) + Len(b) /\ End(u) = Len(u) + 1
        /\ 1 \in 1..End(u) /\ j \in 1..End(u) /\ j - 1 = Len(w)
        /\ \A k \in 1..Len(w) : u[k] = w[k]
        /\ b # <<>> => u[j] = b[1]
    <3>1. /\ u \in Seq(Chars) /\ Len(u) = Len(w) + Len(b) /\ Len(b) \in Nat
          /\ \A i \in 1..Len(u) : u[i] = IF i <= Len(w) THEN w[i] ELSE b[i - Len(w)]
      BY <1>1, ConcatProperties
    <3>2. End(u) = Len(u) + 1
      BY <3>1, EndIs
    <3> HIDE DEF u
    <3>3. b # <<>> => j \in 1..Len(u) /\ ~(j <= Len(w)) /\ j - Len(w) = 1
      <4>1. b # <<>> => Len(b) # 0
        OBVIOUS
      <4> QED BY <1>2, <3>1, <4>1
    <3> QED BY <1>2, <3>1, <3>2, <3>3
  <2>2. j = End(u) \/ u[j] = Blank
    <3>1. b = <<>> \/ (b # <<>> /\ b[1] = Blank)
      BY <1>4, <1>6 DEF Free
    <3>2. b = <<>> => j = End(u)
      <4>1. b = <<>> => Len(b) = 0
        OBVIOUS
      <4> QED BY <1>2, <2>1, <4>1
    <3> QED BY <2>1, <3>1, <3>2
  <2>3. SubSeq(u, 1, Len(w)) = w
    BY <1>1, SubFront
  <2>4. ParseCell(u, 1, ParseSexp(u)) = ParseAtom(u, 1) /\ u[1] = w[1]
    BY <1>1, <1>3, CellHere DEF Opening
  <2> HIDE DEF u, j
  <2>5. \A k \in 1..(j - 1) : u[k] # Blank
    BY <1>3, <2>1
  <2>6. FindNext(u, 1, Blank) = j
    BY <2>1, <2>2, <2>5, FindIs
  <2>7. ParseAtom(u, 1) = Read([kind |-> ComputeType(w), val |-> w], j)
    <3>1. ~(1 < End(u) /\ u[1] = "\"")
      BY <1>3, <2>4
    <3>2. SubSeq(u, 1, j - 1) = w
      BY <2>1, <2>3
    <3> QED BY <2>6, <3>1, <3>2 DEF ParseAtom
  <2> QED BY <2>4, <2>7 DEF u, j
<1> QED BY <1>1, <1>3, <1>4, <1>5, <1>6 DEF Stands

(* Nothing is done to the characters of a string. *)
Still == (Chars \ Brackets) \cup {Blank}

One(ch) == <<ch>>

LEMMA OneIs ==
  \A ch \in Chars : /\ One(ch) \in Seq(Chars) /\ Len(One(ch)) = 1 /\ One(ch)[1] = ch
                    /\ One(ch) # <<>>
BY DEF One

LEMMA SignsAre ==
  /\ Opening \in Chars /\ Closing \in Chars /\ DoubleQuote \in Chars /\ Blank \in Chars
  /\ Opening # Blank /\ Opening # Closing /\ Opening \notin Quotes
  /\ DoubleQuote # Blank /\ DoubleQuote # Closing /\ DoubleQuote # Opening
  /\ DoubleQuote \notin Quotes /\ Blank \notin Quotes /\ Closing \notin Quotes
  /\ Closing # Blank
  /\ DoubleQuote \in Closers /\ Closing \in Closers
  /\ Quotes \subseteq Chars /\ Still \subseteq Chars
  /\ Spaced(DoubleQuote) = One(DoubleQuote)
  /\ \A ch \in Still : ch # DoubleQuote /\ Spaced(ch) = <<ch>>
<1>1. Opening \in Chars /\ Closing \in Chars /\ DoubleQuote \in Chars /\ Blank \in Chars
  BY DEF Chars, Opening, Closing, DoubleQuote
<1>2. Quotes \subseteq Chars
  BY DEF Chars
<1>3. Still \subseteq Chars
  BY <1>1 DEF Still
<1>4. \A ch \in Still : ch # DoubleQuote /\ Spaced(ch) = <<ch>>
  BY DEF Still, Spaced, Brackets, Blank, DoubleQuote
<1>5. /\ Opening # Blank /\ Opening # Closing /\ Opening \notin Quotes
      /\ DoubleQuote # Blank /\ DoubleQuote # Closing /\ DoubleQuote # Opening
      /\ DoubleQuote \notin Quotes /\ Blank \notin Quotes /\ Closing \notin Quotes
      /\ Closing # Blank
  BY DEF Opening, Closing, DoubleQuote, Blank, Quotes
<1>6. Spaced(DoubleQuote) = One(DoubleQuote) /\ DoubleQuote \in Closers /\ Closing \in Closers
  BY DEF Spaced, DoubleQuote, Closing, One, Closers
<1> QED BY <1>1, <1>2, <1>3, <1>4, <1>5, <1>6

LEMMA StandsString ==
  ASSUME NEW v \in Seq(Still), NEW y, y = One(DoubleQuote) \o v \o One(DoubleQuote)
  PROVE  /\ Stands(y, String(v)) /\ y[1] = DoubleQuote /\ y[1] \notin Quotes
         /\ Format(y) = y /\ Loose(y)
<1> DEFINE m == One(DoubleQuote)
           z == m \o v
<1>1. /\ v \in Seq(Chars) /\ m \in Seq(Chars) /\ Len(m) = 1 /\ m[1] = DoubleQuote /\ m # <<>>
      /\ \A k \in 1..Len(v) : v[k] # DoubleQuote
  <2>1. Still \subseteq Chars /\ DoubleQuote \in Chars /\ \A ch \in Still : ch # DoubleQuote
    BY SignsAre
  <2>2. v \in Seq(Chars)
    BY <2>1, SeqMonotonic
  <2>3. \A k \in 1..Len(v) : v[k] # DoubleQuote
    BY <2>1
  <2> QED BY <2>1, <2>2, <2>3, OneIs
<1>2. y = z \o m
  OBVIOUS
<1> HIDE DEF m
<1>3. /\ z \in Seq(Chars) /\ Len(z) = 1 + Len(v) /\ z # <<>> /\ z[1] = DoubleQuote /\ Len(v) \in Nat
      /\ \A k \in 1..Len(v) : z[1 + k] = v[k]
  <2>1. /\ z \in Seq(Chars) /\ Len(z) = 1 + Len(v) /\ z # <<>> /\ z[1] = DoubleQuote
    BY <1>1, LastOf
  <2>2. Behind(z, v, 1)
    BY <1>1, ConcatIs
  <2> QED BY <1>1, <2>1, <2>2 DEF Behind
<1> HIDE DEF z
<1>4. y \in Seq(Chars) /\ Len(y) = Len(v) + 2 /\ y # <<>> /\ y[1] = DoubleQuote /\ y[Len(y)] = DoubleQuote /\ Loose(y)
  <2>1. /\ y \in Seq(Chars) /\ Len(y) = Len(z) + Len(m) /\ y # <<>> /\ y[1] = z[1]
        /\ y[Len(y)] = m[Len(m)]
    BY <1>1, <1>2, <1>3, LastOf
  <2>2. Len(y) = Len(v) + 2
    BY <1>1, <1>3, <2>1
  <2>3. y[Len(y)] = DoubleQuote /\ y[1] = DoubleQuote
    BY <1>1, <1>3, <2>1
  <2> QED BY <2>1, <2>2, <2>3, SignsAre DEF Loose
<1>5. Format(y) = y
  <2>1. Format(m) = m
    BY SignsAre, FormatOne DEF m, One
  <2>2. Format(v) = v
    BY SignsAre, FormatPlain
  <2>3. Format(z) = z
    BY <1>1, <2>1, <2>2, FormatTwo DEF z
  <2> QED BY <1>1, <1>2, <1>3, <2>1, <2>3, FormatTwo
<1>6. y[1] # Blank /\ y[1] # Closing /\ y[1] # Opening /\ y[1] \notin Quotes
  BY <1>4, SignsAre
<1>7. ASSUME NEW b \in Seq(Chars)
      PROVE  ParseCell(y \o b, 1, ParseSexp(y \o b)) = Read(String(v), Len(y) + 1)
  <2> DEFINE u == y \o b
             j == Len(v) + 2
  <2>1. /\ u \in Seq(Chars) /\ End(u) = j + 1 + Len(b) /\ Len(b) \in Nat
        /\ \A k \in 1..j : u[k] = y[k]
    <3>1. /\ u \in Seq(Chars) /\ Len(u) = Len(y) + Len(b) /\ Len(b) \in Nat
          /\ \A i \in 1..Len(y) : u[i] = y[i]
      BY <1>4, ConcatIs, LastOf DEF Begins
    <3>2. End(u) = Len(u) + 1
      BY <3>1, EndIs
    <3> HIDE DEF u
    <3> QED BY <1>3, <1>4, <3>1, <3>2
  <2>2. /\ \A k \in 1..Len(v) : u[1 + k] = v[k]
        /\ u[1] = DoubleQuote /\ u[j] = DoubleQuote
    <3>1. \A k \in 1..Len(v) : y[1 + k] = v[k]
      <4>1. Begins(z, y)
        BY <1>1, <1>2, <1>3, ConcatIs
      <4> QED BY <1>3, <4>1 DEF Begins
    <3>2. 1 \in 1..j /\ j \in 1..j /\ \A k \in 1..Len(v) : 1 + k \in 1..j
      BY <1>3
    <3> HIDE DEF u
    <3> QED BY <1>4, <2>1, <3>1, <3>2
  <2>3. ParseCell(u, 1, ParseSexp(u)) = ParseAtom(u, 1)
    BY <1>4, <1>6, CellHere
  <2> HIDE DEF u
  <2>4. /\ j \in Nat /\ j >= 2 /\ j < End(u) /\ 1 < End(u) /\ End(u) \in Nat
        /\ 2 \in 1..End(u) /\ j \in 2..End(u) /\ j - 1 = Len(v) + 1 /\ j # End(u)
    BY <1>3, <2>1
  <2>5. \A k \in 2..(j - 1) : u[k] # DoubleQuote
    <3> SUFFICES ASSUME NEW k \in 2..(j - 1) PROVE u[k] # DoubleQuote
      OBVIOUS
    <3>1. k - 1 \in 1..Len(v) /\ 1 + (k - 1) = k
      BY <1>3
    <3>2. u[1 + (k - 1)] = v[k - 1]
      BY <2>2, <3>1
    <3> QED BY <1>1, <3>1, <3>2
  <2>6. FindNext(u, 2, DoubleQuote) = j
    BY <2>1, <2>2, <2>4, <2>5, FindIs
  <2>7. SubSeq(u, 2, j - 1) = v
    <3>1. Len(u) \in Nat /\ Len(u) >= j - 1
      BY <2>1, <2>4, EndIs
    <3>2. /\ SubSeq(u, 2, j - 1) \in Seq(Chars) /\ Len(SubSeq(u, 2, j - 1)) = Len(v)
          /\ \A k \in 1..Len(v) : SubSeq(u, 2, j - 1)[k] = u[1 + k]
      BY <1>3, <2>1, <2>4, <3>1
    <3> QED BY <1>1, <2>2, <3>2, SeqEqual
  <2>8. ParseAtom(u, 1) = Read(String(v), j + 1)
    <3>1. ParseAtom(u, 1) = ParseString(u, 1)
      BY <2>2, <2>4 DEF ParseAtom, DoubleQuote
    <3>2. 1 + 1 = 2
      OBVIOUS
    <3> HIDE DEF j
    <3> QED BY <2>4, <2>6, <2>7, <3>1, <3>2 DEF ParseString, DoubleQuote
  <2>9. Len(y) + 1 = j + 1
    BY <1>3, <1>4
  <2> QED BY <2>3, <2>8, <2>9 DEF u
<1> QED BY <1>4, <1>5, <1>6, <1>7 DEF Stands, Closing

(* A list. *)
LEMMA ClosingStep ==
  ASSUME NEW t \in Seq(Chars), t # <<>>, t[1] = Closing
  PROVE  ParseSexp(t)[1] = Read(List(<<>>), 2)
<1>1. 1 \in 1..End(t) /\ 1 < End(t)
  <2>1. Len(t) # 0 /\ Len(t) \in Nat
    OBVIOUS
  <2> QED BY <2>1, EndIs
<1>2. SkipBlanks(t, 1) = 1
  <2>1. \A k \in 1..(1 - 1) : t[k] = Blank
    OBVIOUS
  <2>2. t[1] # Blank
    BY SignsAre
  <2> QED BY <1>1, <2>1, <2>2, SkipIs
<1>3. SkipBlanks(t, 1) < End(t) /\ t[SkipBlanks(t, 1)] = ")" =>
        ParseSexp(t)[1] = Read(List(<<>>), SkipBlanks(t, 1) + 1)
  BY <1>1, SexpStep
<1>4. 1 + 1 = 2
  OBVIOUS
<1> QED BY ZenonT(30), <1>1, <1>2, <1>3, <1>4 DEF Closing

LEMMA StandsList ==
  ASSUME NEW x, NEW cs, Row(x, cs), NEW y, 
         y = One(Opening) \o (One(Blank) \o (x \o (One(Blank) \o One(Closing))))
  PROVE  Stands(y, List(cs)) /\ y[1] = Opening /\ y[1] \notin Quotes /\ Loose(y)
<1> DEFINE o == One(Opening)
           s == One(Blank)
           e == One(Closing)
<1>0. PICK D : cs \in Seq(D)
  BY DEF Row
<1>1. /\ o \in Seq(Chars) /\ s \in Seq(Chars) /\ e \in Seq(Chars) /\ x \in Seq(Chars)
      /\ Len(o) = 1 /\ Len(s) = 1 /\ Len(e) = 1 /\ o[1] = Opening /\ s[1] = Blank /\ e[1] = Closing
      /\ o # <<>> /\ s # <<>> /\ e # <<>> /\ Len(x) \in Nat
  <2>1. x \in Seq(Chars)
    BY DEF Row
  <2> QED BY <2>1, SignsAre, OneIs
<1>2. y = o \o (s \o (x \o (s \o e)))
  OBVIOUS
<1> HIDE DEF o, s, e
<1>3. /\ s \o e \in Seq(Chars) /\ x \o (s \o e) \in Seq(Chars)
      /\ s \o (x \o (s \o e)) \in Seq(Chars)
  BY <1>1, JoinTwo
<1>4. /\ y \in Seq(Chars) /\ y # <<>> /\ y[1] = Opening /\ Len(y) = Len(x) + 4
  <2>1. Len(s \o e) = 2 /\ Len(x \o (s \o e)) = Len(x) + 2
    <3>1. Len(s \o e) = 1 + 1
      <4>1. s \in Seq(Chars) /\ e \in Seq(Chars) /\ Len(s) = 1 /\ Len(e) = 1
        BY <1>1
      <4>2. Len(s \o e) = Len(s) + Len(e)
        BY ONLY <4>1, JoinTwo
      <4> QED BY <4>1, <4>2
    <3> DEFINE w == s \o e
    <3>2. w \in Seq(Chars) /\ x \in Seq(Chars) /\ Len(w) = 2
      BY <1>1, <1>3, <3>1
    <3> HIDE DEF w
    <3>3. Len(x \o w) = Len(x) + Len(w)
      BY ONLY <3>2, JoinTwo
    <3> QED BY <3>2, <3>3 DEF w
  <2>2. Len(s \o (x \o (s \o e))) = 1 + (Len(x) + 2)
    BY <1>1, <1>3, <2>1, ConcatProperties
  <2>3. Len(y) = 1 + (1 + (Len(x) + 2))
    BY <1>1, <1>2, <1>3, <2>2, ConcatProperties
  <2>4. y \in Seq(Chars) /\ y # <<>> /\ y[1] = o[1]
    BY <1>1, <1>2, <1>3, LastOf
  <2> QED BY <1>1, <2>3, <2>4
<1>5. Loose(y)
  <2>1. Loose(e)
    BY <1>1, SignsAre DEF Loose
  <2>2. Loose(s \o e) /\ s \o e # <<>>
    BY <1>1, <2>1, LastOf
  <2>3. Loose(x \o (s \o e)) /\ x \o (s \o e) # <<>>
    BY <1>1, <1>3, <2>2, LastOf
  <2>4. Loose(s \o (x \o (s \o e))) /\ s \o (x \o (s \o e)) # <<>>
    BY <1>1, <1>3, <2>3, LastOf
  <2>5. Loose(o \o (s \o (x \o (s \o e))))
    BY <1>1, <1>3, <2>4, LastOf
  <2> QED BY <1>2, <2>5
<1>6. y[1] # Blank /\ y[1] # Closing /\ y[1] \notin Quotes
  BY <1>4, SignsAre
<1>7. ASSUME NEW b \in Seq(Chars)
      PROVE  ParseCell(y \o b, 1, ParseSexp(y \o b)) = Read(List(cs), Len(y) + 1)
  <2> DEFINE u  == y \o b
             z4 == e \o b
             z3 == s \o z4
             z2 == x \o z3
             z1 == s \o z2
  <2>1. z4 \in Seq(Chars) /\ z3 \in Seq(Chars) /\ z2 \in Seq(Chars) /\ z1 \in Seq(Chars)
    <3>1. z4 \in Seq(Chars)
      BY <1>1, JoinTwo
    <3>2. z3 \in Seq(Chars)
      BY <1>1, <3>1, ConcatProperties
    <3>3. z2 \in Seq(Chars)
      BY <1>1, <3>2, ConcatProperties
    <3> QED BY <1>1, <3>1, <3>2, <3>3, ConcatProperties
  <2>2. u = o \o z1
    <3>1. (s \o e) \o b = s \o (e \o b)
      <4>1. s \in Seq(Chars) /\ e \in Seq(Chars) /\ b \in Seq(Chars)
        BY <1>1
      <4> QED BY ONLY <4>1, JoinThree
    <3> DEFINE w == s \o e
               v == x \o w
               p == s \o v
    <3>2. /\ w \in Seq(Chars) /\ v \in Seq(Chars) /\ p \in Seq(Chars)
          /\ x \in Seq(Chars) /\ s \in Seq(Chars) /\ o \in Seq(Chars) /\ b \in Seq(Chars)
      BY <1>1, <1>3
    <3>3. y = o \o p
      BY <1>2
    <3>4. v = x \o w
      OBVIOUS
    <3>8. p = s \o v
      OBVIOUS
    <3> HIDE DEF w, v, p
    <3>5. v \o b = x \o (w \o b)
      <4>1. x \in Seq(Chars) /\ w \in Seq(Chars) /\ b \in Seq(Chars)
        BY <3>2
      <4> QED BY ONLY <3>4, <4>1, JoinThree
    <3>6. p \o b = s \o (v \o b)
      <4>1. s \in Seq(Chars) /\ v \in Seq(Chars) /\ b \in Seq(Chars)
        BY <3>2
      <4> QED BY ONLY <3>8, <4>1, JoinThree
    <3>7. y \o b = o \o (p \o b)
      <4>1. o \in Seq(Chars) /\ p \in Seq(Chars) /\ b \in Seq(Chars)
        BY <3>2
      <4> QED BY ONLY <3>3, <4>1, JoinThree
    <3> QED BY <3>1, <3>5, <3>6, <3>7 DEF w
  <2>3. ParseCell(u, 1, ParseSexp(u)) = ParseSexp(u)[2]
    BY <1>4, <1>6, CellHere
  <2>4. ParseSexp(u)[2] = Moved(1, ParseSexp(z1)[1])
    <3> HIDE DEF u, z1
    <3>1. ParseSexp(o \o z1)[Len(o) + 1] = Moved(Len(o), ParseSexp(z1)[1])
      BY <1>1, <2>1, ConcatShift
    <3>2. Len(o) + 1 = 2
      BY <1>1
    <3> QED BY <1>1, <2>2, <3>1, <3>2
  <2>5. ParseSexp(z1)[1] = Moved(1, ParseSexp(z2)[1])
    <3> HIDE DEF z2
    <3> QED BY <2>1, BlankStep DEF s, One
  <2>6. ParseSexp(z3)[1] = Moved(1, ParseSexp(z4)[1])
    <3> HIDE DEF z4
    <3> QED BY <2>1, BlankStep DEF s, One
  <2>7. ParseSexp(z2)[1] = Before(cs, Moved(Len(x), ParseSexp(z3)[1]))
    <3>1. z3 # <<>> /\ z3[1] = Blank
      BY <1>1, <2>1, LastOf
    <3>2. Free(x, z3)
      BY <3>1 DEF Free
    <3> HIDE DEF z3
    <3> QED BY <2>1, <3>2 DEF Row
  <2>8. ParseSexp(z4)[1] = Read(List(<<>>), 2)
    <3>1. z4 # <<>> /\ z4[1] = Closing
      BY <1>1, LastOf
    <3> HIDE DEF z4
    <3> QED BY <2>1, <3>1, ClosingStep
  <2> HIDE DEF u, z1, z2, z3, z4
  <2>9. ParseSexp(z3)[1] = Read(List(<<>>), 3)
    BY <2>6, <2>8 DEF Moved, Read
  <2>10. ParseSexp(z2)[1] = Read(List(cs), Len(x) + 3)
    <3>1. \A m : Before(cs, Moved(Len(x), Read(List(m), 3))) = Read(List(cs \o m), Len(x) + 3)
      BY BeforeIs
    <3>2. cs \o <<>> = cs
      BY <1>0
    <3> QED BY <2>7, <2>9, <3>1, <3>2
  <2>11. ParseSexp(u)[2] = Read(List(cs), 1 + (1 + (Len(x) + 3)))
    BY <2>4, <2>5, <2>10 DEF Moved, Read
  <2>12. 1 + (1 + (Len(x) + 3)) = Len(y) + 1
    BY <1>1, <1>4
  <2> QED BY <2>3, <2>11, <2>12 DEF u
<1> QED BY <1>4, <1>5, <1>6, <1>7 DEF Stands, Closing

(* A cell behind a quote character. *)
LEMMA StandsQuote ==
  ASSUME NEW y, NEW c, Stands(y, c), y[1] \notin Quotes, NEW q \in Quotes,
         NEW pre \in Seq(Chars), pre # <<>>, pre[1] = q, \A k \in 2..Len(pre) : pre[k] = Blank
  PROVE  Stands(pre \o y, List(<<Symbol(QuoteName(q)), c>>))
<1> DEFINE x == pre \o y
           n == Len(pre)
           d == List(<<Symbol(QuoteName(q)), c>>)
<1>1. /\ pre \in Seq(Chars) /\ pre # <<>> /\ pre[1] = q /\ n \in Nat /\ n >= 1
      /\ \A k \in 2..n : pre[k] = Blank
  <2>1. n # 0 /\ n \in Nat
    OBVIOUS
  <2> QED BY <2>1
<1>2. y \in Seq(Chars) /\ y # <<>> /\ y[1] # Blank /\ y[1] # Closing
  BY DEF Stands, Closing
<1>3. /\ x \in Seq(Chars) /\ x # <<>> /\ x[1] = q /\ Len(x) = n + Len(y) /\ Len(y) \in Nat
      /\ \A b : Free(x, b) <=> Free(y, b)
  <2>1. Len(y) \in Nat
    BY <1>2
  <2> QED BY <1>1, <1>2, <2>1, LastOf
<1>4. x[1] # Blank /\ x[1] # Closing
  BY <1>3, SignsAre
<1>5. ASSUME NEW b \in Seq(Chars), Free(x, b)
      PROVE  ParseCell(x \o b, 1, ParseSexp(x \o b)) = Read(d, Len(x) + 1)
  <2> DEFINE u == x \o b
             z == y \o b
             g == ParseSexp(u)
             h == ParseSexp(z)
             j == n + 1
             r == IF j < End(u) /\ u[j] = Opening THEN g[j + 1] ELSE ParseAtom(u, j)
  <2>1. u = pre \o z
    <3>1. pre \in Seq(Chars) /\ y \in Seq(Chars) /\ b \in Seq(Chars)
      BY <1>1, <1>2
    <3>2. (pre \o y) \o b = pre \o (y \o b)
      BY ONLY <3>1, JoinThree
    <3> QED BY <3>2
  <2>2. /\ z \in Seq(Chars) /\ z # <<>> /\ z[1] = y[1]
    BY <1>2, LastOf
  <2> HIDE DEF u, z
  <2>3. /\ u \in Seq(Chars) /\ Behind(u, z, n) /\ Begins(pre, u) /\ End(u) = n + End(z)
        /\ 1 \in 1..End(u) /\ 1 \in 1..End(z) /\ j \in 1..End(u) /\ Len(z) \in Nat /\ Len(z) # 0
        /\ End(z) \in Nat /\ 1 < End(z)
    <3>1. /\ u \in Seq(Chars) /\ Behind(u, z, n) /\ Begins(pre, u) /\ End(u) = n + End(z)
          /\ 1 \in 1..End(u) /\ 1 \in 1..End(z) /\ j \in 1..End(u)
      BY <1>1, <2>1, <2>2, ConcatIs
    <3>2. Len(z) \in Nat /\ Len(z) # 0
      BY <2>2
    <3>3. End(z) = Len(z) + 1
      BY <2>2, EndIs
    <3> QED BY <3>1, <3>2, <3>3
  <2>4. /\ u[1] = q /\ (\A k \in 2..n : u[k] = Blank) /\ u[j] = y[1]
    <3>1. u[1] = q /\ \A k \in 2..n : u[k] = Blank
      <4>1. 1 \in 1..n /\ \A k \in 2..n : k \in 1..n
        BY <1>1
      <4>2. \A k \in 1..n : u[k] = pre[k]
        BY <2>3 DEF Begins
      <4> HIDE DEF n
      <4> QED BY <1>1, <4>1, <4>2
    <3>2. u[n + 1] = z[1]
      <4>1. 1 \in 1..Len(z)
        BY <2>3
      <4> QED BY <2>3, <4>1 DEF Behind
    <3> QED BY <2>2, <3>1, <3>2
  <2>5. SkipBlanks(u, 1) = 1 /\ 1 < End(u)
    <3>1. \A k \in 1..(1 - 1) : u[k] = Blank
      OBVIOUS
    <3>2. u[1] # Blank
      BY <2>4, SignsAre
    <3>3. 1 < End(u)
      BY <1>1, <2>3
    <3> QED BY <2>3, <3>1, <3>2, <3>3, SkipIs
  <2>6. j < End(u) /\ j \in Nat /\ j \in 2..End(u) /\ 2 \in 1..End(u) /\ j - 1 = n
    BY <1>1, <2>3
  <2>7. SkipBlanks(u, 2) = j /\ SkipBlanks(u, j) = j
    <3>1. \A k \in 2..(j - 1) : u[k] = Blank
      BY <2>4, <2>6
    <3>2. u[j] # Blank
      BY <1>2, <2>4
    <3>3. \A k \in j..(j - 1) : u[k] = Blank
      BY <2>6
    <3>4. j \in j..End(u)
      BY <2>6
    <3> HIDE DEF j
    <3> QED BY <2>3, <2>6, <3>1, <3>2, <3>3, <3>4, SkipIs
  <2>8. ParseCell(u, j, g) = Moved(n, ParseCell(z, 1, h))
    BY <1>1, <2>1, <2>2, ConcatShift
  <2>9. ParseCell(z, 1, h) = Read(c, Len(y) + 1)
    <3>1. Free(y, b)
      BY <1>3, <1>5
    <3> QED BY <3>1 DEF Stands, z
  <2>10. ParseCell(u, j, g) = r
    <3>1. ~(j < End(u) /\ u[j] \in Quotes)
      BY <2>4
    <3> HIDE DEF g, j
    <3> QED BY <2>7, <3>1 DEF ParseCell, Opening
  <2>11. ParseCell(u, 1, g) = Read(List(<<Symbol(QuoteName(u[1])), r.cell>>), r.next)
    <3>1. 1 + 1 = 2
      OBVIOUS
    <3>2. 1 < End(u) /\ u[1] \in Quotes
      BY <2>4, <2>5
    <3> HIDE DEF g, j
    <3> QED BY <2>5, <2>7, <3>1, <3>2 DEF ParseCell, Opening
  <2>12. r.cell = c /\ r.next = n + (Len(y) + 1)
    <3> HIDE DEF r, g, h, j
    <3>1. r = Moved(n, Read(c, Len(y) + 1))
      BY <2>8, <2>9, <2>10
    <3> QED BY <3>1 DEF Moved, Read
  <2>13. n + (Len(y) + 1) = Len(x) + 1
    BY <1>1, <1>3
  <2> HIDE DEF r, g
  <2> QED BY <2>4, <2>11, <2>12, <2>13 DEF u, g
<1> HIDE DEF x, d
<1>6. Stands(x, d)
  BY <1>3, <1>4, <1>5 DEF Stands, Closing
<1> QED BY <1>6 DEF x, d

(* What parse does to quote characters and parentheses. *)
LEMMA SpacedQuote ==
  \A q \in Quotes : /\ Spaced(q) \in Seq(Chars) /\ Spaced(q) # <<>> /\ Spaced(q)[1] = q
                    /\ \A k \in 2..Len(Spaced(q)) : Spaced(q)[k] = Blank
<1> SUFFICES ASSUME NEW q \in Quotes, NEW pre, pre = Spaced(q)
             PROVE  /\ pre \in Seq(Chars) /\ pre # <<>> /\ pre[1] = q
                    /\ \A k \in 2..Len(pre) : pre[k] = Blank
  OBVIOUS
<1>1. q # Opening /\ q # Closing /\ q \in Chars /\ Blank \in Chars
  BY SignsAre
<1>2. pre = <<q>> \/ pre = <<q, Blank>>
  BY <1>1 DEF Spaced, Opening, Closing
<1>3. CASE pre = <<q>>
  BY <1>1, <1>3
<1>4. CASE pre = <<q, Blank>>
  BY <1>1, <1>4
<1> QED BY <1>2, <1>3, <1>4

LEMMA SpacedBrackets ==
  /\ Spaced(Opening) = One(Opening) \o One(Blank)
  /\ Spaced(Closing) = One(Blank) \o One(Closing)
<1>1. ASSUME NEW a, NEW b PROVE One(a) \o One(b) = <<a, b>>
  <2> DEFINE S == {a, b}
             t == <<a>>
  <2>1. t \in Seq(S) /\ <<a, b>> \in Seq(S) /\ a \in S /\ b \in S /\ Len(<<a, b>>) = 2
    OBVIOUS
  <2>2. Append(t, b) = t \o <<b>>
    <3> HIDE DEF t, S
    <3> QED BY <2>1, AppendIsConcat
  <2>3. Append(t, b) \in Seq(S) /\ Len(Append(t, b)) = 2
    <3>1. Len(t) = 1
      OBVIOUS
    <3> HIDE DEF t, S
    <3> QED BY <2>1, <3>1
  <2>4. \A i \in 1..2 : Append(t, b)[i] = <<a, b>>[i]
    OBVIOUS
  <2> HIDE DEF S, t
  <2>5. Append(t, b) = <<a, b>>
    BY <2>1, <2>3, <2>4, SeqEqual
  <2> QED BY <2>2, <2>5 DEF One, t
<1>2. Spaced(Opening) = <<Opening, Blank>>
  BY DEF Spaced, Opening
<1>3. Spaced(Closing) = <<Blank, Closing>>
  BY DEF Spaced, Opening, Closing
<1> QED BY <1>1, <1>2, <1>3

LEMMA FormatList ==
  ASSUME NEW x \in Seq(Chars)
  PROVE  /\ One(Opening) \o x \o One(Closing) \in Seq(Chars)
         /\ Format(One(Opening) \o x \o One(Closing)) =
              One(Opening) \o (One(Blank) \o (Format(x) \o (One(Blank) \o One(Closing))))
<1> DEFINE o == One(Opening)
           s == One(Blank)
           e == One(Closing)
           f == Format(x)
           v == o \o x
           w == s \o e
<1>1. o \in Seq(Chars) /\ s \in Seq(Chars) /\ e \in Seq(Chars) /\ f \in Seq(Chars)
  BY SignsAre, OneIs, FormatTwo
<1>2. Format(o) = o \o s /\ Format(e) = w
  <2>1. \A ch \in Chars : Format(One(ch)) = Spaced(ch)
    BY FormatOne DEF One
  <2> QED BY <2>1, SignsAre, SpacedBrackets
<1>3. v \in Seq(Chars) /\ w \in Seq(Chars) /\ v \o e \in Seq(Chars) /\ o \o s \in Seq(Chars)
  <2>1. v \in Seq(Chars) /\ w \in Seq(Chars) /\ o \o s \in Seq(Chars)
    BY <1>1, JoinTwo
  <2> HIDE DEF v
  <2> QED BY <1>1, <2>1, JoinTwo
<1>4. Format(v) = (o \o s) \o f
  <2> HIDE DEF o, s, e, w
  <2>1. Format(o \o x) = Format(o) \o Format(x)
    BY <1>1, FormatTwo
  <2> QED BY <1>2, <2>1
<1>5. Format(v \o e) = ((o \o s) \o f) \o w
  <2> HIDE DEF v, o, s, e, w, f
  <2>1. Format(v \o e) = Format(v) \o Format(e)
    BY <1>1, <1>3, FormatTwo
  <2> QED BY <1>2, <1>4, <2>1
<1>6. ((o \o s) \o f) \o w = o \o (s \o (f \o w))
  <2> HIDE DEF v, o, s, e, w, f
  <2> DEFINE p == o \o s
             z == f \o w
  <2>1. p \in Seq(Chars) /\ f \in Seq(Chars) /\ w \in Seq(Chars)
    BY <1>1, <1>3
  <2>2. z \in Seq(Chars) /\ o \in Seq(Chars) /\ s \in Seq(Chars)
    BY <1>1, <1>3, JoinTwo
  <2> HIDE DEF v, o, s, e, w, f, p, z
  <2>3. (p \o f) \o w = p \o (f \o w)
    BY ONLY <2>1, JoinThree
  <2>4. (o \o s) \o z = o \o (s \o z)
    BY ONLY <2>2, JoinThree
  <2> QED BY <2>3, <2>4 DEF p, z
<1> QED BY <1>3, <1>5, <1>6

(* A text after which nothing has to end. *)
LEMMA EndedLoose ==
  ASSUME NEW x \in Seq(Chars), Ended(x)
  PROVE  Loose(Format(x))
<1>1. CASE x = <<>>
  BY <1>1, FormatBlank DEF Loose
<1>2. CASE x # <<>>
  <2>1. PICK d \in Seq(Chars), ch \in Chars : x = Append(d, ch)
    BY <1>2, SequenceEmptyOrAppend
  <2>2. ch \in Closers \cup {Blank}
    <3>1. Last(x) = ch
      BY <2>1 DEF Last
    <3> QED BY <1>2, <3>1 DEF Ended
  <2>3. x = d \o <<ch>> /\ <<ch>> \in Seq(Chars)
    BY <2>1, AppendIsConcat
  <2>4. Format(x) = Format(d) \o Spaced(ch) /\ Format(d) \in Seq(Chars)
    <3> DEFINE m == <<ch>>
    <3>1. d \in Seq(Chars) /\ m \in Seq(Chars) /\ x = d \o m /\ Format(m) = Spaced(ch)
      BY <2>3, FormatOne
    <3> HIDE DEF m
    <3>2. Format(d) \in Seq(Chars) /\ Format(d \o m) = Format(d) \o Format(m)
      BY ONLY <3>1, FormatTwo
    <3> QED BY <3>1, <3>2
  <2>5. Spaced(ch) = <<ch>> \/ Spaced(ch) = <<Blank, ch>>
    BY <2>2 DEF Spaced, Closers, Blank
  <2>6. Spaced(ch) \in Seq(Chars) /\ Spaced(ch) # <<>> /\ Loose(Spaced(ch))
    <3>1. CASE Spaced(ch) = <<ch>>
      <4>1. Len(<<ch>>) = 1 /\ <<ch>>[1] = ch /\ <<ch>> # <<>>
        OBVIOUS
      <4> QED BY <2>2, <2>3, <3>1, <4>1 DEF Loose
    <3>2. CASE Spaced(ch) = <<Blank, ch>>
      <4>1. /\ Len(<<Blank, ch>>) = 2 /\ <<Blank, ch>>[2] = ch /\ <<Blank, ch>> # <<>>
            /\ <<Blank, ch>> \in Seq(Chars)
        BY CharsAre
      <4> QED BY <2>2, <3>2, <4>1 DEF Loose
    <3> QED BY <2>5, <3>1, <3>2
  <2> QED BY <2>4, <2>6, LastOf
<1> QED BY <1>1, <1>2

(***************************************************************************)
(* What is printed: Shown, level by level, and the cells that print as     *)
(* something that is read as a cell that prints the same.                  *)
(***************************************************************************)
(* What is printed up to one depth, given what is printed one level less.   *)
ShownNext(n, inner) ==
  [cell \in Atoms \cup (IF n = 0 THEN {} ELSE ListsOver(DOMAIN inner)) |->
     IF cell.kind = "list" THEN <<"(">> \o ShowCells(cell.cells, inner) \o <<")">>
     ELSE ShowAtom(cell)]

LEMMA ShownAtoms == \A s : ShownNext(0, s) = [cell \in Atoms |-> ShowAtom(cell)]
<1> SUFFICES ASSUME NEW s PROVE ShownNext(0, s) = [cell \in Atoms |-> ShowAtom(cell)]
  OBVIOUS
<1>1. \A cell \in Atoms : cell.kind # "list"
  BY DEF Atoms
<1> DEFINE L(cell) == <<"(">> \o ShowCells(cell.cells, s) \o <<")">>
           S == Atoms \cup {}
<1>2. S = Atoms
  OBVIOUS
<1> HIDE DEF L
<1>3. [cell \in S |-> IF cell.kind = "list" THEN L(cell) ELSE ShowAtom(cell)]
        = [cell \in Atoms |-> ShowAtom(cell)]
  <2> HIDE DEF S
  <2> QED BY <1>1, <1>2
<1>4. ShownNext(0, s) = [cell \in S |-> IF cell.kind = "list" THEN L(cell) ELSE ShowAtom(cell)]
  BY Zenon DEF ShownNext, L
<1> QED BY <1>3, <1>4

LEMMA ShownIs == \A n \in Nat : Shown[n] = ShownNext(n, Shown[n - 1])
<1> DEFINE B == [cell \in Atoms |-> ShowAtom(cell)]
           Good(f, n) == f[0] = B /\ \A k \in 1..n : f[k] = ShownNext(k, f[k - 1])
           T == {n \in Nat : ~\E f : Good(f, n)}
<1>0. \A s : ShownNext(0, s) = B
  BY ShownAtoms
<1> HIDE DEF B
<1>1. T = {}
  <2> SUFFICES ASSUME T # {} PROVE FALSE
    OBVIOUS
  <2>1. PICK n \in T : \A k \in T : n <= k
    <3>1. T \in SUBSET Nat
      OBVIOUS
    <3> HIDE DEF T
    <3> QED BY <3>1, LeastOf
  <2>2. n # 0
    <3> DEFINE g == [k \in {0} |-> B]
    <3>1. Good(g, 0)
      OBVIOUS
    <3> HIDE DEF g, Good
    <3> QED BY <2>1, <3>1
  <2>3. n \in Nat /\ n - 1 \in Nat /\ ~(n <= n - 1) /\ n - 1 # n
    BY <2>1, <2>2
  <2>4. PICK g : Good(g, n - 1)
    <3>1. n - 1 \notin T
      <4> HIDE DEF T
      <4> QED BY <2>1, <2>3
    <3> HIDE DEF Good
    <3> QED BY <2>3, <3>1
  <2> DEFINE v == ShownNext(n, g[n - 1])
             h == [k \in 0..n |-> IF k = n THEN v ELSE g[k]]
  <2>5. h[n] = v /\ \A k \in 0..(n - 1) : h[k] = g[k]
    <3> HIDE DEF v
    <3> QED BY <2>3
  <2>6. Good(h, n)
    <3> HIDE DEF h
    <3>1. h[0] = B
      BY <2>3, <2>4, <2>5
    <3>2. ASSUME NEW k \in 1..n PROVE h[k] = ShownNext(k, h[k - 1])
      <4>1. k - 1 \in 0..(n - 1) /\ (k = n \/ (k \in 1..(n - 1) /\ k \in 0..(n - 1)))
        BY <2>3
      <4>2. h[k - 1] = g[k - 1]
        BY <2>5, <4>1
      <4>3. CASE k = n
        BY <2>5, <4>2, <4>3
      <4>4. CASE k \in 1..(n - 1) /\ k \in 0..(n - 1)
        BY <2>4, <2>5, <4>2, <4>4
      <4> QED BY <4>1, <4>3, <4>4
    <3> QED BY <3>1, <3>2
  <2> HIDE DEF h, Good
  <2> QED BY <2>1, <2>6
<1>2. ASSUME NEW m \in Nat, NEW n \in Nat, m <= n, NEW f, NEW g, Good(f, m), Good(g, n)
      PROVE  f[m] = g[m]
  <2> DEFINE W == {k \in 0..m : f[k] # g[k]}
  <2>1. W = {}
    <3> SUFFICES ASSUME W # {} PROVE FALSE
      OBVIOUS
    <3>1. PICK k \in W : \A j \in W : k <= j
      <4>1. W \in SUBSET Nat
        OBVIOUS
      <4> HIDE DEF W
      <4> QED BY <4>1, LeastOf
    <3>2. k \in 0..m /\ f[k] # g[k] /\ \A j \in 0..m : j < k => f[j] = g[j]
      BY <3>1
    <3> HIDE DEF W
    <3>3. k # 0
      BY <1>2, <3>2
    <3>4. k \in 1..m /\ k \in 1..n /\ k - 1 \in 0..m /\ k - 1 < k
      BY <1>2, <3>2, <3>3
    <3>5. f[k] = ShownNext(k, f[k - 1]) /\ g[k] = ShownNext(k, g[k - 1])
      BY <1>2, <3>4
    <3>6. f[k - 1] = g[k - 1]
      BY <3>2, <3>4
    <3> QED BY <3>2, <3>5, <3>6
  <2> QED BY <2>1
<1> DEFINE Up(n) == CHOOSE f : Good(f, n)
           F == [n \in Nat |-> Up(n)[n]]
<1>3. ASSUME NEW n \in Nat PROVE Good(Up(n), n)
  <2> HIDE DEF Good
  <2>1. \E f : Good(f, n)
    BY <1>1
  <2> QED BY <2>1
<1> HIDE DEF Up
<1>4. ASSUME NEW n \in Nat PROVE F[n] = ShownNext(n, F[n - 1])
  <2>1. F[n] = Up(n)[n]
    OBVIOUS
  <2>2. CASE n = 0
    <3>1. Up(n)[0] = B
      BY <1>3
    <3> QED BY <1>0, <2>1, <2>2, <3>1
  <2>3. CASE n # 0
    <3>1. n \in 1..n /\ n - 1 \in Nat /\ n - 1 <= n
      BY <2>3
    <3>2. Up(n)[n] = ShownNext(n, Up(n)[n - 1])
      BY <1>3, <3>1
    <3>3. Up(n - 1)[n - 1] = Up(n)[n - 1]
      <4> HIDE DEF Good
      <4> QED BY <1>2, <1>3, <3>1
    <3>4. F[n - 1] = Up(n - 1)[n - 1]
      BY <3>1
    <3> QED BY <2>1, <3>2, <3>3, <3>4
  <2> QED BY <2>2, <2>3
<1>5. \E f : f = [n \in Nat |-> ShownNext(n, f[n - 1])]
  <2>1. F = [n \in Nat |-> ShownNext(n, F[n - 1])]
    BY <1>4
  <2> HIDE DEF F
  <2> QED BY <2>1
<1>6. Shown = CHOOSE f : f = [n \in Nat |-> ShownNext(n, f[n - 1])]
  BY Zenon DEF Shown, ShownNext
<1>7. Shown = [n \in Nat |-> ShownNext(n, Shown[n - 1])]
  BY <1>5, <1>6
<1> QED BY <1>7

LEMMA ShownDomain ==
  \A n \in Nat : DOMAIN Shown[n] =
                   Atoms \cup (IF n = 0 THEN {} ELSE ListsOver(DOMAIN Shown[n - 1]))
<1> SUFFICES ASSUME NEW n \in Nat
             PROVE  DOMAIN Shown[n] =
                      Atoms \cup (IF n = 0 THEN {} ELSE ListsOver(DOMAIN Shown[n - 1]))
  OBVIOUS
<1> DEFINE s == Shown[n - 1]
           D == Atoms \cup (IF n = 0 THEN {} ELSE ListsOver(DOMAIN s))
           V(cell) == IF cell.kind = "list" THEN <<"(">> \o ShowCells(cell.cells, s) \o <<")">>
                      ELSE ShowAtom(cell)
<1>1. Shown[n] = ShownNext(n, s)
  BY ShownIs
<1>2. ShownNext(n, s) = [cell \in D |-> V(cell)]
  BY Zenon DEF ShownNext
<1> HIDE DEF V
<1>3. DOMAIN Shown[n] = D
  BY <1>1, <1>2
<1> QED BY <1>3

LEMMA ShownAtom ==
  ASSUME NEW n \in Nat, NEW c \in Atoms
  PROVE  c \in DOMAIN Shown[n] /\ Shown[n][c] = ShowAtom(c)
<1> DEFINE s == Shown[n - 1]
           D == Atoms \cup (IF n = 0 THEN {} ELSE ListsOver(DOMAIN s))
           V(cell) == IF cell.kind = "list" THEN <<"(">> \o ShowCells(cell.cells, s) \o <<")">>
                      ELSE ShowAtom(cell)
<1>1. c \in D /\ Shown[n] = ShownNext(n, s)
  BY ShownIs
<1>2. ShownNext(n, s) = [cell \in D |-> V(cell)]
  BY Zenon DEF ShownNext
<1>3. c.kind # "list"
  BY DEF Atoms
<1>4. V(c) = ShowAtom(c)
  BY Zenon, <1>3
<1> HIDE DEF V
<1>5. c \in DOMAIN Shown[n] /\ Shown[n][c] = V(c)
  BY <1>1, <1>2
<1> QED BY <1>4, <1>5

LEMMA ShownList ==
  ASSUME NEW n \in Nat, NEW cs
  PROVE  /\ List(cs) \in DOMAIN Shown[n] =>
              n # 0 /\ n - 1 \in Nat /\ cs \in Seq(DOMAIN Shown[n - 1])
         /\ n # 0 /\ cs \in Seq(DOMAIN Shown[n - 1]) =>
              /\ List(cs) \in DOMAIN Shown[n]
              /\ Shown[n][List(cs)] =
                   One(Opening) \o ShowCells(cs, Shown[n - 1]) \o One(Closing)
<1> DEFINE s == Shown[n - 1]
           D == Atoms \cup (IF n = 0 THEN {} ELSE ListsOver(DOMAIN s))
           V(cell) == IF cell.kind = "list" THEN <<"(">> \o ShowCells(cell.cells, s) \o <<")">>
                      ELSE ShowAtom(cell)
           c == List(cs)
<1>1. c.kind = "list" /\ c.cells = cs /\ c \notin Atoms
  BY DEF List, Atoms
<1>2. \A S : c \in ListsOver(S) <=> cs \in Seq(S)
  <2> TAKE S
  <2> DEFINE Q == Seq(S)
  <2>1. c \in [kind : {"list"}, cells : Q] <=> cs \in Q
    <3> HIDE DEF Q
    <3> QED BY DEF List
  <2> QED BY <2>1 DEF ListsOver
<1>3. Shown[n] = [cell \in D |-> V(cell)]
  <2>1. ShownNext(n, s) = [cell \in D |-> V(cell)]
    BY Zenon DEF ShownNext
  <2> HIDE DEF V
  <2> QED BY <2>1, ShownIs
<1>4. V(c) = One(Opening) \o ShowCells(cs, s) \o One(Closing)
  <2> DEFINE z == ShowCells(c.cells, s)
  <2>1. z = ShowCells(cs, s)
    BY <1>1
  <2> HIDE DEF c
  <2>2. V(c) = <<"(">> \o z \o <<")">>
    BY Zenon, <1>1
  <2> HIDE DEF z
  <2>3. V(c) = One(Opening) \o z \o One(Closing)
    BY Zenon, <2>2 DEF One, Opening, Closing
  <2> HIDE DEF V
  <2> QED BY <2>1, <2>3
<1> HIDE DEF V, c
<1>5. c \in DOMAIN Shown[n] => n # 0 /\ n - 1 \in Nat /\ cs \in Seq(DOMAIN s)
  <2> SUFFICES ASSUME c \in DOMAIN Shown[n] 
               PROVE  n # 0 /\ n - 1 \in Nat /\ cs \in Seq(DOMAIN s)
    OBVIOUS
  <2>1. c \in D
    BY <1>3
  <2> HIDE DEF s
  <2>2. n # 0 /\ c \in ListsOver(DOMAIN s)
    BY <1>1, <2>1
  <2>3. n - 1 \in Nat
    BY <2>2
  <2> QED BY <1>2, <2>2, <2>3
<1>6. n # 0 /\ cs \in Seq(DOMAIN s) => c \in DOMAIN Shown[n] /\ Shown[n][c] = V(c)
  <2> SUFFICES ASSUME n # 0, cs \in Seq(DOMAIN s) 
               PROVE  c \in DOMAIN Shown[n] /\ Shown[n][c] = V(c)
    OBVIOUS
  <2>1. c \in D
    BY <1>2
  <2> HIDE DEF D
  <2> QED BY <1>3, <2>1
<1> QED BY <1>4, <1>5, <1>6 DEF c

-----------------------------------------------------------------------------
(* The digits at the front of a word. *)
LEMMA FrontIs ==
  ASSUME NEW v \in Seq(Chars)
  PROVE  /\ SubSeq(v, 1, DigitsEnd(v) - 1) \in Seq(Digits)
         /\ v \in Seq(Digits) => SubSeq(v, 1, DigitsEnd(v) - 1) = v
<1> DEFINE E == End(v)
           P(k) == (k = E \/ v[k] \notin Digits) /\ \A j \in 1..(k - 1) : v[j] \in Digits
           T == {k \in 1..E : k = E \/ v[k] \notin Digits}
           m == DigitsEnd(v)
<1>e. Len(v) \in Nat /\ E = Len(v) + 1 /\ E \in Nat
  BY EndIs
<1> HIDE DEF E
<1>1. PICK k \in T : \A j \in T : k <= j
  <2>1. T \in SUBSET Nat /\ E \in T
    BY <1>e
  <2>2. T # {}
    BY <2>1
  <2> HIDE DEF T
  <2> QED BY <2>1, <2>2, LeastOf
<1>2. k \in 1..E /\ P(k)
  BY <1>e, <1>1
<1>3. m = CHOOSE j \in 1..E : P(j)
  BY DEF DigitsEnd, E
<1>4. m \in 1..E /\ P(m)
  <2> HIDE DEF P, m
  <2> QED BY <1>2, <1>3
<1> HIDE DEF m
<1> DEFINE w == SubSeq(v, 1, m - 1)
<1>5. m - 1 \in 0..Len(v) /\ m - 1 \in Nat /\ \A j \in 1..(m - 1) : j \in 1..Len(v)
  BY <1>e, <1>4
<1>6. /\ w \in Seq(Chars) /\ Len(w) = m - 1 /\ \A j \in 1..(m - 1) : w[j] = v[j]
  BY <1>5
<1>7. w = [j \in 1..(m - 1) |-> v[j]]
  BY <1>5
<1> HIDE DEF w
<1>8. w \in [1..(m - 1) -> Digits]
  BY <1>4, <1>7
<1>9. w \in Seq(Digits)
  BY <1>5, <1>8, SequenceOfLength
<1>10. ASSUME v \in Seq(Digits) PROVE w = v
  <2>1. \A j \in 1..Len(v) : v[j] \in Digits
    BY <1>10
  <2>2. m = E
    BY <1>e, <1>4, <2>1
  <2>3. Len(w) = Len(v) /\ \A j \in 1..Len(v) : w[j] = v[j]
    BY <1>e, <1>6, <2>2
  <2> QED BY <1>6, <2>3, SeqEqual
<1> QED BY <1>9, <1>10 DEF w, m

Zero  == "0"
Minus == "-"

(* Digits as a number is printed. *)
Canonical(v) == v \in Seq(Digits) /\ v # <<>> /\ (Len(v) = 1 \/ v[1] # Zero)

LEMMA DigitsAre ==
  /\ Digits \subseteq Chars \ Brackets /\ Digits \cap Quotes = {} /\ Digits \cap Signs = {}
  /\ Minus \in Chars \ Brackets /\ Minus \notin Quotes /\ Minus \notin Digits
  /\ Minus \in Operators /\ Minus \in Signs /\ One(Zero) = <<"0">> /\ Zero \in Digits
<1>1. Digits \subseteq Chars /\ Operators \subseteq Chars
  BY DEF Chars
<1>2. \A ch \in Digits : ch \notin Brackets /\ ch \notin Quotes /\ ch \notin Signs
  BY Zenon DEF Digits, Brackets, Quotes, Signs, Blank
<1>3. /\ Minus \notin Brackets /\ Minus \notin Quotes /\ Minus \in Operators /\ Minus \in Signs
      /\ Zero \in Digits
  BY Zenon DEF Minus, Zero, Brackets, Quotes, Signs, Operators, Digits, Blank
<1>4. Minus \notin Digits
  BY Zenon, <1>2, <1>3
<1>5. One(Zero) = <<"0">>
  BY Zenon DEF One, Zero
<1> QED BY <1>1, <1>2, <1>3, <1>4, <1>5

LEMMA ValueIs ==
  ASSUME NEW d \in Seq(Digits), d # <<>>
  PROVE  Canonical(Value(d)) /\ (Canonical(d) => Value(d) = d)
<1> DEFINE n == Len(d)
           P(k) == (k = n \/ d[k] # Zero) /\ \A j \in 1..(k - 1) : d[j] = Zero
           T == {k \in 1..n : k = n \/ d[k] # Zero}
           m == ValueBegin(d)
           v == SubSeq(d, m, n)
<1>e. n \in Nat /\ n # 0 /\ n \in 1..n /\ n = Len(d) /\ \A k \in 1..n : d[k] \in Digits
  <2>1. n \in Nat /\ n # 0 /\ \A k \in 1..n : d[k] \in Digits
    OBVIOUS
  <2> HIDE DEF n
  <2> QED BY <2>1 DEF n
<1>v. Value(d) = v
  BY DEF Value
<1> HIDE DEF n
<1>1. PICK k \in T : \A j \in T : k <= j
  <2>1. T \in SUBSET Nat /\ T # {}
    BY <1>e
  <2> HIDE DEF T
  <2> QED BY <2>1, LeastOf
<1>2. k \in 1..n /\ P(k)
  BY <1>e, <1>1
<1>3. m = CHOOSE j \in 1..n : P(j)
  BY Zenon DEF ValueBegin, n, Zero
<1>4. m \in 1..n /\ P(m)
  <2> HIDE DEF P, m
  <2> QED BY <1>2, <1>3
<1> HIDE DEF m
<1>5. /\ v \in Seq(Digits) /\ Len(v) = n - m + 1 /\ v[1] = d[m] /\ n - m + 1 >= 1
      /\ \A j \in 1..(n - m + 1) : v[j] = d[m + j - 1]
  BY <1>e, <1>4
<1>6. Canonical(v)
  <2>1. v # <<>>
    <3>1. Len(v) # 0
      BY <1>e, <1>4, <1>5
    <3> HIDE DEF v
    <3> QED BY <3>1
  <2>2. m = n => Len(v) = 1
    BY <1>e, <1>4, <1>5
  <2>3. m # n => v[1] # Zero
    BY <1>4, <1>5
  <2> HIDE DEF v
  <2> QED BY <1>5, <2>1, <2>2, <2>3 DEF Canonical
<1>7. ASSUME Canonical(d) PROVE v = d
  <2>1. m = 1
    <3>1. n = 1 \/ d[1] # Zero
      BY <1>7 DEF Canonical, n
    <3>2. 1 \in 1..(m - 1) \/ m = 1
      BY <1>4
    <3> QED BY <1>e, <1>4, <3>1, <3>2
  <2>2. Len(v) = Len(d) /\ \A j \in 1..Len(d) : v[j] = d[j]
    BY <1>e, <1>5, <2>1
  <2> HIDE DEF v
  <2> QED BY <1>5, <2>2, SeqEqual
<1> QED BY <1>6, <1>7, <1>v

LEMMA IntegerIs ==
  ASSUME NEW w \in Seq(Chars), w # <<>>
  PROVE  Integer(w) \in Seq(Digits)
<1> DEFINE v == IF Head(w) \in Signs THEN Tail(w) ELSE w
<1>1. v \in Seq(Chars)
  <2>1. Tail(w) \in Seq(Chars)
    OBVIOUS
  <2> QED BY Zenon, <2>1
<1>2. Integer(w) = SubSeq(v, 1, DigitsEnd(v) - 1)
  BY Zenon DEF Integer
<1> HIDE DEF v
<1> QED BY <1>1, <1>2, FrontIs

(* A number prints as digits without zeros in front, perhaps with a sign. *)
LEMMA NumberIs ==
  ASSUME NEW w \in Seq(Chars), w # <<>>
  PROVE  \E c : Canonical(c) /\ Number(w) \in {c, One(Minus) \o c}
<1> DEFINE d == Integer(w)
<1>1. d \in Seq(Digits)
  BY IntegerIs
<1> HIDE DEF d
<1>2. CASE d = <<>>
  <2>1. Number(w) = One(Zero)
    BY Zenon, <1>2, DigitsAre DEF Number, d
  <2>2. Canonical(One(Zero))
    <3>1. One(Zero) \in Seq(Digits) /\ Len(One(Zero)) = 1 /\ One(Zero) # <<>>
      BY DigitsAre DEF One
    <3> QED BY <3>1 DEF Canonical
  <2> QED BY <2>1, <2>2
<1>3. CASE d # <<>>
  <2>1. Canonical(Value(d))
    BY <1>1, <1>3, ValueIs
  <2>2. Number(w) = (IF Head(w) = Minus THEN One(Minus) ELSE <<>>) \o Value(d)
    BY Zenon, <1>3 DEF Number, d, Minus, One
  <2>3. Value(d) \in Seq(Digits)
    BY <2>1 DEF Canonical
  <2> DEFINE c == Value(d)
  <2> HIDE DEF c
  <2>4. <<>> \o c = c
    BY <2>3 DEF c
  <2>5. Number(w) \in {c, One(Minus) \o c}
    <3>1. CASE Head(w) = Minus
      BY <2>2, <3>1 DEF c
    <3>2. CASE Head(w) # Minus
      <4>1. Number(w) = <<>> \o c
        BY <2>2, <3>2 DEF c
      <4> QED BY <2>4, <4>1
    <3> QED BY <3>1, <3>2
  <2> QED BY <2>1, <2>5 DEF c
<1> QED BY <1>2, <1>3

(* What is printed of a number is a number that prints the same. *)
LEMMA NumberAgain ==
  ASSUME NEW c, Canonical(c), NEW v \in {c, One(Minus) \o c}
  PROVE  /\ v \in Seq(Chars \ Brackets) /\ v # <<>> /\ v[1] \notin Quotes
         /\ ComputeType(v) = "real" /\ Number(v) = v
<1> DEFINE m == One(Minus)
<1>1. /\ c \in Seq(Digits) /\ c # <<>> /\ c[1] \in Digits /\ Head(c) = c[1] /\ Len(c) \in Nat \ {0}
      /\ <<>> \o c = c
  BY DEF Canonical
<1>2. c \in Seq(Chars \ Brackets) /\ c \in Seq(Chars)
  <2>1. Digits \subseteq Chars \ Brackets
    BY DigitsAre
  <2>2. Digits \subseteq Chars
    BY <2>1
  <2> QED BY <1>1, <2>1, <2>2, SeqMonotonic
<1>3. /\ m \in Seq(Chars \ Brackets) /\ m \in Seq(Chars) /\ Len(m) = 1 /\ m[1] = Minus /\ m # <<>>
  BY DigitsAre DEF One
<1>4. Value(c) = c /\ SubSeq(c, 1, DigitsEnd(c) - 1) = c
  BY <1>1, <1>2, ValueIs, FrontIs
<1>5. CASE v = c
  <2>1. c[1] \notin Quotes /\ Head(c) \notin Signs /\ Head(c) # Minus
    BY Zenon, <1>1, DigitsAre
  <2>2. Integer(c) = c
    BY Zenon, <1>4, <2>1 DEF Integer
  <2>3. Number(c) = <<>> \o c
    BY Zenon, <1>1, <1>4, <2>1, <2>2 DEF Number, Minus
  <2>4. ComputeType(c) = "real"
    BY <1>1 DEF ComputeType
  <2> QED BY <1>1, <1>2, <1>5, <2>1, <2>3, <2>4
<1>6. CASE v = m \o c
  <2> HIDE DEF m
  <2>1. /\ v \in Seq(Chars \ Brackets) /\ Len(v) = 1 + Len(c) /\ v[1] = Minus
        /\ \A i \in 1..Len(c) : v[i + 1] = c[i]
    <3> DEFINE S == Chars \ Brackets
    <3>1. c \in Seq(S) /\ m \in Seq(S) /\ Len(m) = 1 /\ Len(c) \in Nat \ {0} /\ v = m \o c
      BY <1>1, <1>2, <1>3, <1>6
    <3> HIDE DEF S
    <3>2. /\ v \in Seq(S) /\ Len(v) = Len(m) + Len(c)
          /\ \A i \in 1..(Len(m) + Len(c)) : v[i] = IF i <= Len(m) THEN m[i] ELSE c[i - Len(m)]
      BY <3>1, ConcatProperties
    <3>3. 1 \in 1..(1 + Len(c)) /\ 1 <= 1
      BY <3>1
    <3>4. v[1] = m[1]
      BY <3>1, <3>2, <3>3
    <3>5. ASSUME NEW i \in 1..Len(c) PROVE v[i + 1] = c[i]
      <4>1. i + 1 \in 1..(1 + Len(c)) /\ ~(i + 1 <= 1) /\ i + 1 - 1 = i
        BY <3>1
      <4> QED BY <3>1, <3>2, <4>1
    <3> QED BY <1>3, <3>1, <3>2, <3>4, <3>5 DEF S
  <2>2. Len(v) > 1 /\ v # <<>> /\ Head(v) = v[1]
    BY <1>1, <2>1
  <2>3. Tail(v) = c
    <3>1. /\ Tail(v) \in Seq(Chars \ Brackets) /\ Len(Tail(v)) = Len(c)
          /\ \A i \in 1..Len(c) : Tail(v)[i] = v[i + 1]
      BY <1>1, <2>1, <2>2
    <3> QED BY <1>2, <2>1, <3>1, SeqEqual
  <2>4. Head(v) \in Signs /\ Head(v) = Minus /\ v[1] \notin Quotes /\ v[1] \in Operators
    BY Zenon, <2>1, <2>2, DigitsAre
  <2>5. Integer(v) = c
    BY Zenon, <1>4, <2>3, <2>4 DEF Integer
  <2>6. Number(v) = m \o c
    BY Zenon, <1>1, <1>4, <2>4, <2>5 DEF Number, m, Minus, One
  <2>7. ComputeType(v) = "real"
    BY <2>2, <2>4 DEF ComputeType
  <2> QED BY <1>6, <2>1, <2>2, <2>4, <2>6, <2>7
<1> QED BY <1>5, <1>6

(* Texts of cells with a blank behind each are a row of these cells. *)
Separate(m, ds) ==
  \A i \in 1..Len(m) : \E y \in Seq(Chars) : m[i] = y \o <<Blank>> /\ Stands(Format(y), ds[i])

LEMMA RowsSeparate ==
  ASSUME NEW D
  PROVE  \A m \in Seq(Seq(Chars)), ds \in Seq(D) : Len(m) = Len(ds) /\ Separate(m, ds) =>
           /\ FlattenSeq(m) \in Seq(Chars)
           /\ Row(Format(FlattenSeq(m)), ds) /\ Loose(Format(FlattenSeq(m)))
<1> DEFINE V == Seq(Chars)
           Good(m, ds) == /\ FlattenSeq(m) \in V
                          /\ Row(Format(FlattenSeq(m)), ds) /\ Loose(Format(FlattenSeq(m)))
           T == {n \in Nat : \E m \in Seq(V), ds \in Seq(D) :
                   Len(m) = n /\ Len(ds) = n /\ Separate(m, ds) /\ ~Good(m, ds)}
<1>1. T = {}
  <2> SUFFICES ASSUME T # {} PROVE FALSE
    OBVIOUS
  <2>1. PICK n \in T : \A k \in T : n <= k
    <3>1. T \in SUBSET Nat
      OBVIOUS
    <3> HIDE DEF T
    <3> QED BY <3>1, LeastOf
  <2>2. PICK m \in Seq(V), ds \in Seq(D) :
          Len(m) = n /\ Len(ds) = n /\ Separate(m, ds) /\ ~Good(m, ds)
    BY <2>1
  <2> HIDE DEF V
  <2>3. m # <<>>
    <3> SUFFICES ASSUME m = <<>> PROVE FALSE
      OBVIOUS
    <3>1. ds = <<>>
      BY <2>2
    <3>2. FlattenSeq(<<>>) = <<>> /\ <<>> \in V
      BY DEF FlattenSeq, V
    <3>3. Format(<<>>) = <<>> /\ Row(<<>>, <<>>) /\ Loose(<<>>)
      BY FormatBlank, RowEmpty DEF Loose
    <3> QED BY <2>2, <3>1, <3>2, <3>3
  <2>4. ds # <<>>
    BY <2>2, <2>3
  <2>5. PICK a \in Seq(V), x \in V : m = Append(a, x)
    BY <2>3, SequenceEmptyOrAppend
  <2>6. PICK cs \in Seq(D), c \in D : ds = Append(cs, c)
    BY <2>4, SequenceEmptyOrAppend
  <2>7. /\ Len(a) \in Nat /\ Len(a) + 1 = n /\ Len(cs) = Len(a) /\ n \in 1..n /\ ~(n <= Len(a))
        /\ m[n] = x /\ ds[n] = c
        /\ \A i \in 1..Len(a) : i \in 1..n /\ m[i] = a[i] /\ ds[i] = cs[i]
    BY <2>2, <2>5, <2>6
  <2>8. Separate(a, cs)
    BY <2>2, <2>7 DEF Separate
  <2>9. Good(a, cs)
    <3>1. Len(a) \notin T
      <4> HIDE DEF T
      <4> QED BY <2>1, <2>7
    <3> HIDE DEF Good
    <3> QED BY <2>7, <2>8, <3>1
  <2>10. PICK y \in V : x = y \o <<Blank>> /\ Stands(Format(y), c)
    BY <2>2, <2>7 DEF Separate, V
  <2> DEFINE f == Format(FlattenSeq(a))
             g == Format(y)
  <2>11. FlattenSeq(m) = FlattenSeq(a) \o x
    BY <2>5, FlattenAppend DEF V
  <2>12. /\ f \in Seq(Chars) /\ g \in Seq(Chars) /\ y \in Seq(Chars) /\ x \in Seq(Chars)
         /\ <<Blank>> \in Seq(Chars) /\ FlattenSeq(a) \in Seq(Chars)
    BY <2>9, FormatTwo, CharsAre DEF V
  <2>13. Format(x) = g \o <<Blank>>
    <3> DEFINE s == <<Blank>>
    <3>1. s \in Seq(Chars) /\ Format(s) = s /\ x = y \o s
      BY <2>10, <2>12, FormatBlank
    <3> HIDE DEF s
    <3>2. Format(y \o s) = g \o Format(s)
      <4>1. y \in Seq(Chars) /\ s \in Seq(Chars)
        BY <2>12, <3>1
      <4> QED BY ONLY <4>1, FormatTwo
    <3> HIDE DEF g
    <3>3. Format(x) = g \o s
      BY <3>1, <3>2
    <3> QED BY <3>3 DEF s
  <2>14. FlattenSeq(m) \in Seq(Chars) /\ Format(FlattenSeq(m)) = (f \o g) \o <<Blank>>
    <3>1. FlattenSeq(m) \in Seq(Chars) /\ Format(FlattenSeq(m)) = f \o (g \o <<Blank>>)
      <4> DEFINE e == FlattenSeq(a)
      <4>1. e \in Seq(Chars) /\ x \in Seq(Chars) /\ FlattenSeq(m) = e \o x
        BY <2>11, <2>12
      <4> HIDE DEF e
      <4>2. e \o x \in Seq(Chars)
        BY <4>1, JoinTwo
      <4>3. Format(e \o x) = Format(e) \o Format(x)
        BY ONLY <4>1, FormatTwo
      <4> QED BY <2>13, <4>1, <4>2, <4>3 DEF e
    <3> HIDE DEF f, g
    <3>2. (f \o g) \o <<Blank>> = f \o (g \o <<Blank>>)
      <4> DEFINE s == <<Blank>>
      <4>1. f \in Seq(Chars) /\ g \in Seq(Chars) /\ s \in Seq(Chars)
        BY <2>12
      <4> HIDE DEF s
      <4>2. (f \o g) \o s = f \o (g \o s)
        BY ONLY <4>1, JoinThree
      <4> QED BY <4>2 DEF s
    <3> QED BY <3>1, <3>2
  <2>15. Row(f, cs) /\ Loose(f) /\ Stands(g, c)
    BY <2>9, <2>10
  <2> HIDE DEF f, g
  <2>16. Row((f \o g) \o <<Blank>>, ds)
    <3>1. Row(f \o g, ds)
      BY <2>6, <2>15, RowCell
    <3> QED BY <3>1, RowBlank
  <2>17. Loose((f \o g) \o <<Blank>>)
    <3> DEFINE s == <<Blank>>
    <3>1. s \in Seq(Chars) /\ s # <<>> /\ Loose(s)
      BY <2>12 DEF Loose
    <3>2. f \o g \in Seq(Chars)
      BY <2>12, JoinTwo
    <3> HIDE DEF s
    <3> QED BY <3>1, <3>2, LastOf DEF s
  <2> QED BY <2>2, <2>14, <2>16, <2>17 DEF V
<1> QED BY <1>1 DEF V

(* What is printed of c, at any depth, is read as a cell that prints the same. *)
PrintOK(c) ==
  \A n \in Nat : c \in DOMAIN Shown[n] =>
    /\ Shown[n][c] \in Seq(Chars)
    /\ \E d \in DOMAIN Shown[n] :
         Stands(Format(Shown[n][c]), d) /\ Shown[n][d] = Shown[n][c]

LEMMA SymbolPrints ==
  ASSUME NEW w \in Seq(Chars \ Brackets), w # <<>>, w[1] \notin Quotes,
         ComputeType(w) = "symbol"
  PROVE  PrintOK(Symbol(w))
<1> DEFINE c == Symbol(w)
<1>1. Stands(w, c) /\ Format(w) = w
  BY StandsPlain DEF Symbol
<1>2. w \in Seq(Chars)
  BY <1>1 DEF Stands
<1>3. c \in Atoms
  BY <1>2 DEF Symbol, Atoms
<1>4. ShowAtom(c) = w
  BY DEF ShowAtom, Symbol
<1> HIDE DEF c
<1>5. ASSUME NEW n \in Nat PROVE c \in DOMAIN Shown[n] /\ Shown[n][c] = w
  BY <1>3, <1>4, ShownAtom
<1>6. PrintOK(c)
  BY <1>1, <1>2, <1>5 DEF PrintOK
<1> QED BY <1>6 DEF c

LEMMA NumberPrints ==
  ASSUME NEW w \in Seq(Chars), w # <<>>
  PROVE  PrintOK(Real(w))
<1> DEFINE v == Number(w)
           c == Real(w)
           d == Real(v)
<1>1. /\ v \in Seq(Chars \ Brackets) /\ v # <<>> /\ v[1] \notin Quotes
      /\ ComputeType(v) = "real" /\ Number(v) = v
  <2>1. PICK e : Canonical(e) /\ v \in {e, One(Minus) \o e}
    BY NumberIs
  <2> HIDE DEF v
  <2> QED BY <2>1, NumberAgain
<1> HIDE DEF v
<1>2. Stands(v, d) /\ Format(v) = v
  BY <1>1, StandsPlain DEF Real
<1>3. v \in Seq(Chars)
  BY <1>2 DEF Stands
<1>4. c \in Atoms /\ d \in Atoms
  BY <1>3 DEF Real, Atoms
<1>5. ShowAtom(c) = v /\ ShowAtom(d) = v
  BY <1>1 DEF ShowAtom, Real, v
<1> HIDE DEF c, d
<1>6. ASSUME NEW n \in Nat
      PROVE  d \in DOMAIN Shown[n] /\ Shown[n][c] = v /\ Shown[n][d] = v
  BY <1>4, <1>5, ShownAtom
<1>7. PrintOK(c)
  BY <1>2, <1>3, <1>6 DEF PrintOK
<1> QED BY <1>7 DEF c

LEMMA ListPrints ==
  ASSUME NEW D, NEW cs \in Seq(D), \A i \in 1..Len(cs) : PrintOK(cs[i])
  PROVE  PrintOK(List(cs))
<1> DEFINE k == Len(cs)
<1>e. k \in Nat /\ k = Len(cs)
  OBVIOUS
<1> HIDE DEF k
<1> SUFFICES ASSUME NEW n \in Nat, List(cs) \in DOMAIN Shown[n]
             PROVE  /\ Shown[n][List(cs)] \in Seq(Chars)
                    /\ \E d \in DOMAIN Shown[n] :
                         /\ Stands(Format(Shown[n][List(cs)]), d)
                         /\ Shown[n][d] = Shown[n][List(cs)]
  BY Zenon DEF PrintOK
<1> DEFINE s == Shown[n - 1]
           P == DOMAIN s
           Fits(c, d) == Stands(Format(s[c]), d) /\ s[d] = s[c]
           Of(i) == CHOOSE d \in P : Fits(cs[i], d)
           ds == [i \in 1..k |-> Of(i)]
           m == [i \in 1..k |-> s[cs[i]] \o <<Blank>>]
           x == FlattenSeq(m)
<1>1. n # 0 /\ n - 1 \in Nat /\ cs \in Seq(P)
  BY ShownList
<1> HIDE DEF s
<1>2. ASSUME NEW i \in 1..k
      PROVE  s[cs[i]] \in Seq(Chars) /\ Of(i) \in P /\ Fits(cs[i], Of(i))
  <2>1. cs[i] \in P /\ PrintOK(cs[i])
    BY <1>1, <1>e
  <2>2. s[cs[i]] \in Seq(Chars) /\ \E d \in P : Fits(cs[i], d)
    BY <1>1, <2>1 DEF PrintOK, s
  <2> HIDE DEF Fits, P
  <2> QED BY <2>2
<1> HIDE DEF Of
<1>3. ds \in Seq(P) /\ Len(ds) = k
  <2>1. ds \in [1..k -> P]
    BY <1>2
  <2> HIDE DEF ds, P
  <2> QED BY <1>e, <2>1, SequenceOfLength
<1>4. m \in Seq(Seq(Chars)) /\ Len(m) = k
  <2> DEFINE V == Seq(Chars)
  <2>1. \A i \in 1..k : s[cs[i]] \o <<Blank>> \in V
    BY <1>2, CharsAre, JoinTwo
  <2> HIDE DEF V
  <2>2. m \in [1..k -> V]
    BY <2>1
  <2> HIDE DEF m
  <2>3. m \in Seq(V) /\ Len(m) = k
    BY <1>e, <2>2, SequenceOfLength
  <2> QED BY <2>3 DEF V
<1>5. Separate(m, ds)
  <2> SUFFICES ASSUME NEW i \in 1..k
               PROVE  \E y \in Seq(Chars) : m[i] = y \o <<Blank>> /\ Stands(Format(y), ds[i])
    BY <1>4 DEF Separate
  <2>1. s[cs[i]] \in Seq(Chars) /\ m[i] = s[cs[i]] \o <<Blank>> /\ ds[i] = Of(i)
    BY <1>2
  <2>2. Stands(Format(s[cs[i]]), ds[i])
    BY <1>2, <2>1
  <2> QED BY <2>1, <2>2
<1>6. ShowCells(cs, s) = x
  <2>1. m = [i \in 1..Len(cs) |-> s[cs[i]] \o <<Blank>>]
    BY <1>e
  <2> HIDE DEF m
  <2> QED BY <2>1 DEF ShowCells
<1>7. ShowCells(ds, s) = x
  <2>1. \A i \in 1..k : s[ds[i]] = s[cs[i]]
    BY <1>2
  <2> HIDE DEF ds
  <2>2. m = [i \in 1..Len(ds) |-> s[ds[i]] \o <<Blank>>]
    BY <1>3, <2>1
  <2> HIDE DEF m
  <2> QED BY <2>2 DEF ShowCells
<1> HIDE DEF m, ds
<1>8. x \in Seq(Chars) /\ Row(Format(x), ds)
  BY <1>3, <1>4, <1>5, RowsSeparate
<1> HIDE DEF x
<1> DEFINE t == One(Opening) \o x \o One(Closing)
           f == Format(x)
<1>9. /\ List(ds) \in DOMAIN Shown[n] /\ Shown[n][List(ds)] = t
      /\ Shown[n][List(cs)] = t
  <2>1. /\ List(ds) \in DOMAIN Shown[n]
        /\ Shown[n][List(ds)] = One(Opening) \o ShowCells(ds, s) \o One(Closing)
    BY <1>1, <1>3, ShownList DEF s
  <2>2. Shown[n][List(cs)] = One(Opening) \o ShowCells(cs, s) \o One(Closing)
    BY <1>1, ShownList DEF s
  <2> QED BY <1>6, <1>7, <2>1, <2>2
<1>10. t \in Seq(Chars) /\ Stands(Format(t), List(ds))
  <2> DEFINE z == One(Opening) \o (One(Blank) \o (f \o (One(Blank) \o One(Closing))))
  <2>1. t \in Seq(Chars) /\ Format(t) = z
    BY <1>8, FormatList
  <2> HIDE DEF t, f
  <2>2. Stands(z, List(ds))
    BY <1>8, StandsList DEF f
  <2> HIDE DEF z
  <2> QED BY <2>1, <2>2
<1> HIDE DEF t
<1> QED BY <1>9, <1>10

LEMMA QuoteNames ==
  \A q \in Quotes : /\ QuoteName(q) \in Seq(Chars \ Brackets) /\ QuoteName(q) # <<>>
                    /\ QuoteName(q)[1] \notin Quotes /\ ComputeType(QuoteName(q)) = "symbol"
<1> DEFINE N == {"quote", "backquote", "comma"}
<1>1. \A ch \in N : /\ ch \in Chars \ Brackets /\ ch \notin Quotes
                    /\ ch \notin Digits /\ ch \notin Operators
  <2>1. \A ch \in N : ch \in Chars
    BY DEF Chars
  <2>2. \A ch \in N : ch \notin Brackets /\ ch \notin Quotes /\ ch \notin Digits /\ ch \notin Operators
    BY Zenon DEF Brackets, Quotes, Digits, Operators, Blank
  <2> QED BY <2>1, <2>2
<1>2. ASSUME NEW q \in Quotes PROVE \E ch \in N : QuoteName(q) = <<ch>>
  BY Zenon DEF QuoteName, Quotes
<1> HIDE DEF N
<1>3. ASSUME NEW ch \in N
      PROVE  /\ <<ch>> \in Seq(Chars \ Brackets) /\ <<ch>> # <<>>
             /\ <<ch>>[1] \notin Quotes /\ ComputeType(<<ch>>) = "symbol"
  <2>1. Head(<<ch>>) = ch /\ <<ch>>[1] = ch /\ <<ch>> # <<>>
    OBVIOUS
  <2>2. <<ch>> \in Seq(Chars \ Brackets)
    BY <1>1
  <2>3. ComputeType(<<ch>>) = "symbol"
    BY <1>1, <2>1 DEF ComputeType
  <2> QED BY <1>1, <2>1, <2>2, <2>3
<1> QED BY <1>2, <1>3

LEMMA QuotedPrints ==
  ASSUME NEW q \in Quotes, NEW c, PrintOK(c)
  PROVE  PrintOK(List(<<Symbol(QuoteName(q)), c>>))
<1> DEFINE a == Symbol(QuoteName(q))
           D == {a, c}
           cs == <<a, c>>
<1>1. PrintOK(a)
  BY QuoteNames, SymbolPrints
<1> HIDE DEF a
<1>2. cs \in Seq(D) /\ Len(cs) = 2 /\ cs[1] = a /\ cs[2] = c
  OBVIOUS
<1> HIDE DEF D, cs
<1>3. \A i \in 1..Len(cs) : PrintOK(cs[i])
  <2>1. \A i \in 1..2 : i = 1 \/ i = 2
    OBVIOUS
  <2> QED BY <1>1, <1>2, <2>1
<1>4. PrintOK(List(cs))
  BY <1>2, <1>3, ListPrints
<1> QED BY <1>4 DEF cs, a

-----------------------------------------------------------------------------
(* Texts without strings. *)
Unquoted(x) == \A i \in DOMAIN x : x[i] # DoubleQuote

LEMMA UnquotedParts ==
  ASSUME NEW x \in Seq(Chars), NEW y \in Seq(Chars), Unquoted(x \o y)
  PROVE  Unquoted(x) /\ Unquoted(y)
<1> DEFINE u == x \o y
<1>1. /\ DOMAIN x = 1..Len(x) /\ DOMAIN y = 1..Len(y) /\ Len(x) \in Nat /\ Len(y) \in Nat
      /\ DOMAIN u = 1..(Len(x) + Len(y))
      /\ \A i \in 1..(Len(x) + Len(y)) : u[i] = IF i <= Len(x) THEN x[i] ELSE y[i - Len(x)]
  BY ConcatProperties
<1> HIDE DEF u
<1>2. Unquoted(u)
  BY DEF u
<1>3. ASSUME NEW i \in 1..Len(x) PROVE x[i] # DoubleQuote
  <2>1. i \in 1..(Len(x) + Len(y)) /\ i <= Len(x)
    BY <1>1
  <2> QED BY <1>1, <1>2, <2>1 DEF Unquoted
<1>4. ASSUME NEW i \in 1..Len(y) PROVE y[i] # DoubleQuote
  <2>1. /\ Len(x) + i \in 1..(Len(x) + Len(y)) /\ ~(Len(x) + i <= Len(x))
        /\ Len(x) + i - Len(x) = i
    BY <1>1
  <2> QED BY <1>1, <1>2, <2>1 DEF Unquoted
<1> QED BY <1>1, <1>3, <1>4 DEF Unquoted

(***************************************************************************)
(* Texts as Notation writes them.                                          *)
(***************************************************************************)
(* The cells of a text without strings are printed as they should be.       *)
Prints(t, cs) == Unquoted(t) => \A i \in 1..Len(cs) : PrintOK(cs[i])

LEMMA PrintsMore ==
  ASSUME NEW t \in Seq(Chars), NEW D, NEW cs \in Seq(D), Prints(t, cs),
         NEW w \in Seq(Chars), NEW c, Unquoted(w) => PrintOK(c)
  PROVE  Prints(t \o w, Append(cs, c))
<1> SUFFICES ASSUME Unquoted(t \o w), NEW i \in 1..Len(Append(cs, c))
             PROVE  PrintOK(Append(cs, c)[i])
  BY DEF Prints
<1>1. Unquoted(t) /\ Unquoted(w)
  BY UnquotedParts
<1>2. i \in 1..(Len(cs) + 1) /\ Len(cs) \in Nat
  OBVIOUS
<1>3. CASE i = Len(cs) + 1
  <2>1. Append(cs, c)[i] = c
    BY <1>2, <1>3
  <2> QED BY <1>1, <2>1
<1>4. CASE i # Len(cs) + 1
  <2>1. i \in 1..Len(cs)
    BY <1>2, <1>4
  <2>2. Append(cs, c)[i] = cs[i]
    BY <2>1
  <2> QED BY <1>1, <2>1, <2>2 DEF Prints
<1> QED BY <1>3, <1>4

(* What is true of every row. *)
RowOK(r) ==
  /\ r = [text |-> r.text, cells |-> r.cells, mark |-> r.mark]
  /\ r.text \in Seq(Chars) /\ Row(Format(r.text), r.cells)
  /\ r.mark \in Quotes \cup {None} /\ (r.mark # None => Ended(r.text))
  /\ Prints(r.text, r.cells)

LEMMA RowIs ==
  ASSUME NEW t \in Seq(Chars), NEW cs, Row(Format(t), cs), Prints(t, cs),
         NEW m \in Quotes \cup {None}, m # None => Ended(t)
  PROVE  RowOK([text |-> t, cells |-> cs, mark |-> m])
BY DEF RowOK

LEMMA EmptyOK == RowOK(EmptyRow)
<1>1. Row(Format(<<>>), <<>>)
  BY RowEmpty, FormatBlank
<1>2. <<>> \in Seq(Chars)
  OBVIOUS
<1>3. Prints(<<>>, <<>>)
  BY DEF Prints
<1> QED BY <1>1, <1>2, <1>3 DEF RowOK, EmptyRow

(* Another cell in a row. *)
LEMMA WithOK ==
  ASSUME NEW r, RowOK(r), Ended(r.text), NEW w \in Seq(Chars),
         NEW cell, Stands(Format(w), cell), Format(w)[1] \notin Quotes,
         Unquoted(w) => PrintOK(cell)
  PROVE  RowOK(With(r, cell, w))
<1> DEFINE x == Format(r.text)
           y == Format(w)
<1>1. /\ r.text \in Seq(Chars) /\ x \in Seq(Chars) /\ y \in Seq(Chars)
      /\ Row(x, r.cells) /\ Loose(x)
  BY FormatTwo, EndedLoose DEF RowOK
<1>p. Prints(r.text, r.cells) /\ \E D : r.cells \in Seq(D)
  BY DEF RowOK, Row
<1>2. CASE r.mark = None
  <2>1. With(r, cell, w) =
          [text |-> r.text \o w, cells |-> Append(r.cells, cell), mark |-> None]
    <3>1. r = [text |-> r.text, cells |-> r.cells, mark |-> r.mark]
      BY DEF RowOK
    <3> QED BY <1>2, <3>1 DEF With
  <2>2. r.text \o w \in Seq(Chars) /\ Format(r.text \o w) = x \o y
    BY <1>1, JoinTwo, FormatTwo
  <2>3. Row(x \o y, Append(r.cells, cell))
    BY <1>1, RowCell
  <2>4. Prints(r.text \o w, Append(r.cells, cell))
    BY <1>1, <1>p, PrintsMore
  <2> QED BY <2>1, <2>2, <2>3, <2>4, RowIs
<1>3. CASE r.mark # None
  <2> DEFINE q == r.mark
             c == List(<<Symbol(QuoteName(q)), cell>>)
             pre == Spaced(q)
  <2>1. q \in Quotes /\ <<q>> \in Seq(Chars)
    BY <1>3, SignsAre DEF RowOK
  <2>2. With(r, cell, w) =
          [text |-> r.text \o <<q>> \o w, cells |-> Append(r.cells, c), mark |-> None]
    BY <1>3 DEF With
  <2> HIDE DEF q
  <2>3. /\ pre \in Seq(Chars) /\ pre # <<>> /\ pre[1] = q
        /\ \A k \in 2..Len(pre) : pre[k] = Blank
    BY <2>1, SpacedQuote
  <2>4. Format(<<q>>) = pre
    BY <2>1, SignsAre, FormatOne
  <2> HIDE DEF pre, x, y
  <2>5. r.text \o <<q>> \in Seq(Chars) /\ Format(r.text \o <<q>>) = x \o pre
    <3> DEFINE s == <<q>>
    <3>1. r.text \in Seq(Chars) /\ s \in Seq(Chars) /\ Format(s) = pre
      BY <1>1, <2>1, <2>4
    <3> HIDE DEF s
    <3>2. r.text \o s \in Seq(Chars) /\ Format(r.text \o s) = Format(r.text) \o Format(s)
      BY ONLY <3>1, JoinTwo, FormatTwo
    <3> QED BY <3>1, <3>2 DEF x, s
  <2>6. /\ r.text \o <<q>> \o w \in Seq(Chars)
        /\ Format(r.text \o <<q>> \o w) = (x \o pre) \o y
    <3> DEFINE t == r.text \o <<q>>
    <3>1. t \in Seq(Chars) /\ Format(t) = x \o pre
      BY <2>5
    <3> HIDE DEF t
    <3>2. t \o w \in Seq(Chars) /\ Format(t \o w) = Format(t) \o Format(w)
      <4>1. t \in Seq(Chars) /\ w \in Seq(Chars)
        BY <3>1
      <4> QED BY ONLY <4>1, JoinTwo, FormatTwo
    <3> QED BY <3>1, <3>2 DEF t, y
  <2>7. (x \o pre) \o y = x \o (pre \o y)
    <3>1. x \in Seq(Chars) /\ pre \in Seq(Chars) /\ y \in Seq(Chars)
      BY <1>1, <2>3
    <3> QED BY ONLY <3>1, JoinThree
  <2>8. Stands(pre \o y, c)
    <3>1. Stands(y, cell) /\ y[1] \notin Quotes
      BY DEF y
    <3> HIDE DEF c
    <3> QED BY <2>1, <2>3, <3>1, StandsQuote DEF c
  <2>9. Row(x \o (pre \o y), Append(r.cells, c))
    <3> HIDE DEF c
    <3> QED BY <1>1, <2>8, RowCell
  <2>10. Prints(r.text \o <<q>> \o w, Append(r.cells, c))
    <3> DEFINE s == <<q>>
               t == r.text \o s
    <3>1. s \in Seq(Chars) /\ t \in Seq(Chars)
      BY <2>1, <2>5
    <3>3. Unquoted(w) => PrintOK(c)
      BY <2>1, QuotedPrints
    <3> HIDE DEF t, c
    <3>4. Prints(t, r.cells)
      <4>1. Unquoted(t) => Unquoted(r.text)
        <5> HIDE DEF s
        <5> QED BY <1>1, <3>1, UnquotedParts DEF t
      <4> QED BY <1>p, <4>1 DEF Prints
    <3>5. Prints(t \o w, Append(r.cells, c))
      BY <1>p, <3>1, <3>3, <3>4, PrintsMore
    <3> QED BY <3>5 DEF t
  <2> HIDE DEF c
  <2> QED BY <2>2, <2>6, <2>7, <2>9, <2>10, RowIs
<1> QED BY <1>2, <1>3

(* What is written for a cell is read as that cell. *)
LEMMA WordStands ==
  ASSUME Spelled, NEW cell \in Words
  PROVE  /\ cell.val \in Seq(Chars) /\ Stands(Format(cell.val), cell)
         /\ Format(cell.val)[1] \notin Quotes
         /\ PrintOK(cell)
<1> DEFINE w == cell.val
<1>1. /\ cell \in {Symbol(w), Real(w)}
      /\ w \in Seq(Chars \ Brackets) /\ w # <<>> /\ w[1] \notin Quotes
      /\ cell.kind = "real" <=> w[1] \in Digits \/ (w[1] \in Operators /\ Len(w) > 1)
  BY DEF Spelled
<1> HIDE DEF w
<1>2. /\ Stands(w, [kind |-> ComputeType(w), val |-> w]) /\ Format(w) = w
  BY <1>1, StandsPlain
<1>3. cell = [kind |-> ComputeType(w), val |-> w]
  <2>1. Head(w) = w[1]
    BY <1>1
  <2>2. ComputeType(w) = IF w[1] \in Digits \/ (w[1] \in Operators /\ Len(w) > 1)
                         THEN "real" ELSE "symbol"
    BY <1>1, <2>1 DEF ComputeType
  <2>3. CASE cell = Symbol(w)
    <3>1. cell.kind # "real"
      BY <2>3 DEF Symbol
    <3> QED BY <1>1, <2>2, <2>3, <3>1 DEF Symbol
  <2>4. CASE cell = Real(w)
    <3>1. cell.kind = "real"
      BY <2>4 DEF Real
    <3> QED BY <1>1, <2>2, <2>4, <3>1 DEF Real
  <2> QED BY <1>1, <2>3, <2>4
<1>4. w \in Seq(Chars)
  <2>1. Chars \ Brackets \subseteq Chars
    OBVIOUS
  <2> QED BY <1>1, <2>1, SeqMonotonic
<1>5. PrintOK(cell)
  <2>1. CASE cell = Real(w)
    BY <1>1, <1>4, <2>1, NumberPrints
  <2>2. CASE cell = Symbol(w)
    <3>1. ComputeType(w) = "symbol"
      <4>1. cell.kind = ComputeType(w) /\ cell.kind = "symbol"
        BY <1>3, <2>2 DEF Symbol
      <4> QED BY <4>1
    <3> QED BY <1>1, <2>2, <3>1, SymbolPrints
  <2> QED BY <1>1, <2>1, <2>2
<1> QED BY <1>1, <1>2, <1>3, <1>4, <1>5 DEF w

LEMMA QuotedAtOnce ==
  ASSUME NEW y \in Seq(Chars), y # <<>>, y[1] = DoubleQuote
  PROVE  ~Unquoted(y)
<1>1. Len(y) \in Nat /\ Len(y) # 0
  OBVIOUS
<1>2. DOMAIN y = 1..Len(y) /\ 1 \in 1..Len(y)
  BY <1>1
<1> QED BY <1>2 DEF Unquoted

LEMMA PhraseStands ==
  ASSUME Spelled, NEW cell \in Phrases, NEW w, w = <<"\"">> \o cell.val \o <<"\"">>
  PROVE  /\ w \in Seq(Chars) /\ Stands(Format(w), cell) /\ Format(w)[1] \notin Quotes
         /\ ~Unquoted(w)
<1> DEFINE v == cell.val
           y == One(DoubleQuote) \o v \o One(DoubleQuote)
<1>1. w = y
  BY DEF One, DoubleQuote
<1>2. cell = String(v) /\ v \in Seq(Still)
  BY DEF Spelled, Still
<1> HIDE DEF v
<1>3. Stands(y, String(v)) /\ y[1] \notin Quotes /\ Format(y) = y
  BY <1>2, StandsString
<1>4. y \in Seq(Chars) /\ y # <<>> /\ y[1] = DoubleQuote
  BY <1>2, <1>3, StandsString DEF Stands
<1> HIDE DEF y
<1>5. ~Unquoted(y)
  BY <1>4, QuotedAtOnce
<1> QED BY <1>1, <1>2, <1>3, <1>4, <1>5

LEMMA ListStands ==
  ASSUME NEW r, RowOK(r), NEW w, w = <<"(">> \o r.text \o <<")">>
  PROVE  /\ w \in Seq(Chars) /\ Stands(Format(w), List(r.cells)) /\ Format(w)[1] \notin Quotes
         /\ Unquoted(w) => PrintOK(List(r.cells))
<1> DEFINE y == One(Opening) \o r.text \o One(Closing)
           x == Format(r.text)
           z == One(Opening) \o (One(Blank) \o (x \o (One(Blank) \o One(Closing))))
<1>1. w = y
  BY DEF One, Opening, Closing
<1>2. r.text \in Seq(Chars) /\ Row(x, r.cells)
  BY DEF RowOK
<1>3. y \in Seq(Chars) /\ Format(y) = z
  BY <1>2, FormatList
<1>4. Unquoted(y) => PrintOK(List(r.cells))
  <2> SUFFICES ASSUME Unquoted(y) PROVE PrintOK(List(r.cells))
    OBVIOUS
  <2> DEFINE o == One(Opening)
             e == One(Closing)
             t == o \o r.text
  <2>1. /\ o \in Seq(Chars) /\ e \in Seq(Chars) /\ r.text \in Seq(Chars)
    BY <1>2, SignsAre, OneIs
  <2> HIDE DEF o, e
  <2>2. t \in Seq(Chars) /\ Unquoted(t \o e)
    BY <2>1, JoinTwo DEF o, e
  <2>3. Unquoted(t)
    <3> HIDE DEF t, y
    <3> QED BY <2>1, <2>2, UnquotedParts
  <2>4. Unquoted(r.text)
    <3> HIDE DEF y
    <3> QED BY <2>1, <2>3, UnquotedParts
  <2>5. PICK D : r.cells \in Seq(D)
    BY <1>2 DEF Row
  <2> HIDE DEF y, t
  <2>6. \A i \in 1..Len(r.cells) : PrintOK(r.cells[i])
    BY <2>4 DEF RowOK, Prints
  <2> QED BY <2>5, <2>6, ListPrints
<1> HIDE DEF x, y
<1>5. Stands(z, List(r.cells)) /\ z[1] \notin Quotes
  BY <1>2, StandsList
<1> HIDE DEF z
<1> QED BY <1>1, <1>3, <1>4, <1>5

-----------------------------------------------------------------------------
(* Every row that is being written is in order. *)
RowsOK ==
  /\ \E S : rows \in Seq(S)
  /\ rows # <<>> /\ \A k \in 1..Len(rows) : RowOK(rows[k])
  /\ \A k \in 1..(Len(rows) - 1) : Ended(rows[k].text)

LEMMA TopOK ==
  ASSUME RowsOK
  PROVE  Len(rows) \in Nat /\ Len(rows) \in 1..Len(rows) /\ RowOK(Top)
<1>1. Len(rows) \in Nat /\ Len(rows) # 0
  BY DEF RowsOK
<1>2. Len(rows) \in 1..Len(rows)
  BY <1>1
<1> QED BY <1>1, <1>2 DEF Top, RowsOK

(* Another row in the place of the last one. *)
LEMMA ReplaceOK ==
  ASSUME NEW rs, \E S : rs \in Seq(S), rs # <<>>,
         \A k \in 1..(Len(rs) - 1) : RowOK(rs[k]) /\ Ended(rs[k].text),
         NEW r, RowOK(r), rows' = [rs EXCEPT ![Len(rs)] = r]
  PROVE  RowsOK'
<1> DEFINE n  == Len(rs)
           ss == rows'
<1>1. PICK S : rs \in Seq(S)
  OBVIOUS
<1>2. n \in Nat /\ n # 0 /\ n \in 1..n /\ rs \in [1..n -> S]
  <2>1. n \in Nat /\ n # 0
    BY <1>1
  <2>2. DOMAIN rs = 1..n /\ rs \in [1..n -> S]
    BY <1>1
  <2> HIDE DEF n
  <2> QED BY <2>1, <2>2
<1>3. ss \in [1..n -> S \cup {r}]
  BY <1>2
<1>4. ss \in Seq(S \cup {r}) /\ Len(ss) = n
  <2> HIDE DEF n, ss
  <2> QED BY <1>2, <1>3, SequenceOfLength
<1>5. /\ \A k \in 1..(n - 1) : k \in 1..n /\ k # n
      /\ \A k \in 1..n : k = n \/ k \in 1..(n - 1)
  <2>1. n \in Nat
    BY <1>2
  <2> HIDE DEF n
  <2> QED BY <2>1
<1>6. ss[n] = r /\ \A k \in 1..(n - 1) : ss[k] = rs[k]
  BY <1>2, <1>5
<1>8. \A k \in 1..(n - 1) : RowOK(ss[k]) /\ Ended(ss[k].text)
  BY <1>6
<1> HIDE DEF n, ss
<1>9. ss # <<>>
  BY <1>2, <1>4
<1>10. \A k \in 1..n : RowOK(ss[k])
  BY <1>5, <1>6, <1>8
<1> QED BY <1>4, <1>8, <1>9, <1>10 DEF RowsOK, ss

LEMMA InsteadOK ==
  ASSUME RowsOK, NEW r, RowOK(r), rows' = Instead(r)
  PROVE  RowsOK'
<1>1. Len(rows) \in Nat /\ \A k \in 1..(Len(rows) - 1) : k \in 1..Len(rows)
  BY TopOK
<1>2. /\ \E S : rows \in Seq(S)
      /\ rows # <<>> /\ \A k \in 1..(Len(rows) - 1) : RowOK(rows[k]) /\ Ended(rows[k].text)
  BY <1>1 DEF RowsOK
<1>3. rows' = [rows EXCEPT ![Len(rows)] = r]
  BY DEF Instead
<1> QED BY <1>2, <1>3, ReplaceOK

LEMMA RowsInit == NotationInit => RowsOK
<1> SUFFICES ASSUME NotationInit PROVE RowsOK
  OBVIOUS
<1> DEFINE e == EmptyRow
<1>1. rows = <<e>> /\ RowOK(e)
  BY EmptyOK DEF NotationInit
<1> HIDE DEF e
<1>2. rows \in Seq({e}) /\ Len(rows) = 1 /\ rows[1] = e
  <2>1. <<e>> \in Seq({e}) /\ Len(<<e>>) = 1 /\ <<e>>[1] = e
    OBVIOUS
  <2> QED BY <1>1, <2>1
<1>3. \A k \in 1..Len(rows) : RowOK(rows[k])
  BY <1>1, <1>2
<1>4. \A k \in 1..(Len(rows) - 1) : Ended(rows[k].text)
  BY <1>2
<1>5. rows # <<>>
  BY <1>2
<1> QED BY <1>2, <1>3, <1>4, <1>5 DEF RowsOK

(* Every step leaves the rows in order. *)
LEMMA RowsNext ==
  ASSUME Spelled, RowsOK, NotationNext
  PROVE  RowsOK'
<1>1. ASSUME NEW cell \in Words, Word(cell) PROVE RowsOK'
  <2>1. RowOK(With(Top, cell, cell.val))
    BY <1>1, TopOK, WordStands, WithOK DEF Word
  <2> QED BY <1>1, <2>1, InsteadOK DEF Word
<1>2. ASSUME NEW cell \in Phrases, Phrase(cell) PROVE RowsOK'
  <2> DEFINE w == <<"\"">> \o cell.val \o <<"\"">>
  <2>1. /\ w \in Seq(Chars) /\ Stands(Format(w), cell) /\ Format(w)[1] \notin Quotes
        /\ ~Unquoted(w)
    BY PhraseStands
  <2>2. Ended(Top.text) /\ rows' = Instead(With(Top, cell, w))
    BY <1>2 DEF Phrase
  <2> HIDE DEF w
  <2>3. RowOK(With(Top, cell, w))
    BY <2>1, <2>2, TopOK, WithOK
  <2> QED BY <2>2, <2>3, InsteadOK
<1>3. ASSUME NEW ch \in Quotes, Mark(ch) PROVE RowsOK'
  <2> DEFINE r == [Top EXCEPT !.mark = ch]
  <2>1. r = [text |-> Top.text, cells |-> Top.cells, mark |-> ch]
    <3>1. Top = [text |-> Top.text, cells |-> Top.cells, mark |-> Top.mark]
      BY TopOK DEF RowOK
    <3> HIDE DEF Top
    <3> QED BY <3>1
  <2>2. Ended(Top.text) /\ rows' = Instead(r)
    BY <1>3 DEF Mark
  <2>3. /\ Top.text \in Seq(Chars) /\ Row(Format(Top.text), Top.cells)
        /\ Prints(Top.text, Top.cells)
    BY TopOK DEF RowOK
  <2> HIDE DEF r
  <2>4. RowOK(r)
    BY <2>1, <2>2, <2>3, RowIs
  <2> QED BY <2>2, <2>4, InsteadOK
<1>4. ASSUME Space PROVE RowsOK'
  <2> DEFINE t == Append(Top.text, Blank)
             r == [Top EXCEPT !.text = t]
  <2>1. r = [text |-> t, cells |-> Top.cells, mark |-> None]
    <3>1. Top = [text |-> Top.text, cells |-> Top.cells, mark |-> None]
      BY <1>4, TopOK DEF RowOK, Space
    <3> HIDE DEF Top, t
    <3> QED BY <3>1
  <2>2. rows' = Instead(r)
    BY <1>4 DEF Space
  <2>3. /\ Top.text \in Seq(Chars) /\ Row(Format(Top.text), Top.cells)
        /\ Prints(Top.text, Top.cells)
    BY TopOK DEF RowOK
  <2>4. t \in Seq(Chars) /\ Format(t) = Format(Top.text) \o <<Blank>>
    <3>1. t = Top.text \o <<Blank>>
      BY <2>3, CharsAre, AppendIsConcat
    <3> HIDE DEF t
    <3> QED BY <2>3, <3>1, CharsAre, JoinTwo, FormatTwo, FormatBlank
  <2>5. Row(Format(t), Top.cells)
    BY <2>3, <2>4, RowBlank
  <2>6. Prints(t, Top.cells)
    <3> DEFINE s == <<Blank>>
    <3>1. s \in Seq(Chars) /\ t = Top.text \o s
      BY <2>3, CharsAre, AppendIsConcat
    <3> HIDE DEF s, t
    <3>2. Unquoted(t) => Unquoted(Top.text)
      BY <2>3, <3>1, UnquotedParts
    <3> QED BY <2>3, <3>2 DEF Prints
  <2> HIDE DEF r, t
  <2>7. RowOK(r)
    BY <2>1, <2>4, <2>5, <2>6, RowIs
  <2> QED BY <2>2, <2>7, InsteadOK
<1>5. ASSUME Open PROVE RowsOK'
  <2> DEFINE e == EmptyRow
  <2>1. rows' = Append(rows, e) /\ RowOK(e)
    BY <1>5, EmptyOK DEF Open
  <2> HIDE DEF e
  <2>2. PICK S : rows \in Seq(S)
    BY DEF RowsOK
  <2>3. rows \in Seq(S \cup {e})
    BY <2>2, SeqMonotonic
  <2>4. /\ rows' \in Seq(S \cup {e}) /\ Len(rows') = Len(rows) + 1 /\ Len(rows) \in Nat
        /\ \A k \in 1..(Len(rows) + 1) : rows'[k] = IF k = Len(rows) + 1 THEN e ELSE rows[k]
    BY <2>1, <2>3
  <2>5. ASSUME NEW k \in 1..Len(rows) PROVE RowOK(rows'[k]) /\ Ended(rows'[k].text)
    <3>1. rows'[k] = rows[k] /\ RowOK(rows[k])
      BY <2>4 DEF RowsOK
    <3>2. k = Len(rows) \/ k \in 1..(Len(rows) - 1)
      BY <2>4
    <3>3. Ended(rows[k].text)
      BY <1>5, <3>2 DEF RowsOK, Open, Top
    <3> QED BY <3>1, <3>3
  <2>6. ASSUME NEW k \in 1..Len(rows') PROVE RowOK(rows'[k])
    <3>1. CASE k = Len(rows) + 1
      BY <2>1, <2>4, <3>1
    <3>2. CASE k # Len(rows) + 1
      <4>1. k \in 1..Len(rows)
        BY <2>4, <3>2
      <4> QED BY <2>5, <4>1
    <3> QED BY <3>1, <3>2
  <2>7. rows' # <<>> /\ Len(rows') - 1 = Len(rows)
    BY <2>4
  <2> QED BY <2>4, <2>5, <2>6, <2>7 DEF RowsOK
<1>6. ASSUME Close PROVE RowsOK'
  <2> DEFINE n  == Len(rows)
             rs == Front(rows)
             a  == rs[n - 1]
             w  == <<"(">> \o Top.text \o <<")">>
             r  == With(a, List(Top.cells), w)
  <2>1. n \in Nat /\ n > 1 /\ n - 1 \in 1..n /\ n - 1 \in 1..(n - 1) /\ n - 1 \in Nat
    BY <1>6, TopOK DEF Close
  <2>2. PICK S : rows \in Seq(S)
    BY DEF RowsOK
  <2>3. /\ rs \in Seq(S) /\ Len(rs) = n - 1 /\ \A k \in 1..(n - 1) : rs[k] = rows[k]
    BY <2>1, <2>2 DEF Front
  <2>4. \A k \in 1..(n - 1) : k \in 1..n
    BY <2>1
  <2>5. \A k \in 1..(n - 1) : RowOK(rs[k]) /\ Ended(rs[k].text)
    BY <2>3, <2>4 DEF RowsOK
  <2>6. RowOK(a) /\ Ended(a.text)
    BY <2>1, <2>5
  <2>7. /\ w \in Seq(Chars) /\ Stands(Format(w), List(Top.cells))
        /\ Format(w)[1] \notin Quotes /\ (Unquoted(w) => PrintOK(List(Top.cells)))
    BY TopOK, ListStands
  <2>8. rows' = [rs EXCEPT ![n - 1] = r]
    BY <1>6 DEF Close
  <2> HIDE DEF a, w
  <2>9. RowOK(r)
    BY <2>6, <2>7, WithOK
  <2>10. rs # <<>> /\ \A k \in 1..(Len(rs) - 1) : k \in 1..(n - 1)
    <3> HIDE DEF rs, n
    <3> QED BY <2>1, <2>3
  <2> HIDE DEF r, rs, n
  <2> QED BY <2>3, <2>5, <2>8, <2>9, <2>10, ReplaceOK
<1> QED BY <1>1, <1>2, <1>3, <1>4, <1>5, <1>6 DEF NotationNext

(* What the reader makes of a whole text. *)
LEMMA RowRead ==
  ASSUME NEW t \in Seq(Chars), NEW cs, Row(Format(t), cs)
  PROVE  Parse(t) = cs
<1> DEFINE x  == Format(t)
           b  == <<>>
<1>1. x \in Seq(Chars) /\ Row(x, cs) /\ b \in Seq(Chars) /\ Len(b) = 0
  BY FormatTwo
<1>2. PICK D : cs \in Seq(D)
  BY <1>1 DEF Row
<1>3. Parse(t) = Tops(x)[1]
  BY <1>1, TopsAre DEF Parse
<1>4. x \o b = x
  BY <1>1
<1>5. Free(x, b)
  BY DEF Free
<1> HIDE DEF x, b
<1>6. Tops(x \o b)[1] = cs \o Tops(b)[1]
  BY <1>1, <1>5 DEF Row
<1>7. Tops(b)[1] = <<>>
  <2>1. End(b) = 1
    BY <1>1 DEF End
  <2> QED BY <1>1, <2>1, TopEnd
<1>8. cs \o <<>> = cs
  BY <1>2
<1> QED BY <1>3, <1>4, <1>6, <1>7, <1>8

LEMMA CellRead ==
  ASSUME NEW t \in Seq(Chars), NEW d, Stands(Format(t), d)
  PROVE  Len(Parse(t)) = 1 /\ Parse(t)[1] = d
<1> DEFINE e == <<>>
           x == Format(t)
           cs == Append(e, d)
<1>1. e \in Seq({d}) /\ Len(cs) = 1 /\ cs[1] = d /\ x \in Seq(Chars)
  BY FormatTwo
<1>2. e \o x = x
  BY <1>1
<1>3. Row(e, e) /\ Loose(e) /\ Stands(x, d)
  BY RowEmpty DEF Loose
<1> HIDE DEF e, x
<1>4. Row(e \o x, cs)
  BY <1>3, RowCell
<1> HIDE DEF cs
<1>5. Parse(t) = cs
  BY <1>2, <1>4, RowRead DEF x
<1> QED BY <1>1, <1>5

LEMMA RowsAlways ==
  ASSUME Spelled
  PROVE  NotationSpec => []RowsOK
<1>1. NotationInit => RowsOK
  BY RowsInit
<1>2. RowsOK /\ [NotationNext]_rows => RowsOK'
  <2>1. CASE NotationNext
    BY <2>1, RowsNext
  <2>2. CASE UNCHANGED rows
    BY <2>2 DEF RowsOK
  <2> QED BY <2>1, <2>2
<1> QED BY <1>1, <1>2, PTL DEF NotationSpec

(* What is written down is read as the cells that were meant, whatever the *)
(* words and strings are, and however deep the parentheses.                *)
THEOREM WrittenIsRead ==
  ASSUME Spelled
  PROVE  NotationSpec => []ReadsBack
<1>1. RowsOK => ReadsBack
  <2>1. \A r : RowOK(r) => Parse(r.text) = r.cells
    BY RowRead DEF RowOK
  <2> QED BY <2>1 DEF RowsOK, ReadsBack
<1> QED BY <1>1, RowsAlways, PTL

(* What is printed of a cell that was written without strings is read as   *)
(* one cell, which prints the same.                                        *)
THEOREM PrintedIsRead ==
  ASSUME Spelled
  PROVE  NotationSpec => []PrintsBack
<1>1. RowsOK => PrintsBack
  <2> DEFINE NoString(t) == "\"" \notin ToSet(t)
             Same(cell) == LET again == Parse(Show(cell))
                           IN  /\ Len(again) = 1 /\ again[1] \in Printable
                               /\ Show(again[1]) = Show(cell)
  <2>1. ASSUME RowsOK, NEW k \in 1..Len(rows), NoString(rows[k].text),
               NEW cell \in ToSet(rows[k].cells) \cap Printable
        PROVE  Same(cell)
    <3> DEFINE r == rows[k]
    <3>1. RowOK(r)
      BY <2>1 DEF RowsOK
    <3>2. Unquoted(r.text)
      BY Zenon, <2>1 DEF Unquoted, ToSet, DoubleQuote
    <3> HIDE DEF NoString
    <3>3. PICK D : r.cells \in Seq(D)
      BY <3>1 DEF RowOK, Row
    <3>4. PICK i \in 1..Len(r.cells) : cell = r.cells[i]
      <4>1. DOMAIN r.cells = 1..Len(r.cells)
        BY <3>3
      <4> QED BY <4>1 DEF ToSet
    <3>5. PrintOK(cell)
      BY <3>1, <3>2, <3>4 DEF RowOK, Prints
    <3> HIDE DEF r
    <3>6. Levels \in Nat /\ cell \in DOMAIN Shown[Levels]
      BY LevelsAssumption DEF Printable
    <3>7. Show(cell) \in Seq(Chars)
      BY <3>5, <3>6 DEF PrintOK, Show
    <3>8. PICK d \in DOMAIN Shown[Levels] :
            Stands(Format(Show(cell)), d) /\ Show(d) = Show(cell)
      BY <3>5, <3>6 DEF PrintOK, Show
    <3>9. Len(Parse(Show(cell))) = 1 /\ Parse(Show(cell))[1] = d
      BY <3>7, <3>8, CellRead
    <3> QED BY <3>8, <3>9 DEF Printable
  <2>2. ASSUME RowsOK PROVE PrintsBack
    <3>1. \A k \in 1..Len(rows) : NoString(rows[k].text) =>
            \A cell \in ToSet(rows[k].cells) \cap Printable : Same(cell)
      <4> HIDE DEF NoString, Same
      <4> QED BY <2>1, <2>2
    <3> QED BY Zenon, <3>1 DEF PrintsBack
  <2> QED BY <2>2
<1> QED BY <1>1, RowsAlways, PTL
=============================================================================
