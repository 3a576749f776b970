----------------------------- MODULE Repl_proof -----------------------------
(***************************************************************************)
(* What holds of Repl for any files and lines.                             *)
(***************************************************************************)
EXTENDS Repl, Reader_proof

-----------------------------------------------------------------------------
(* The forms of a text up to one that is open. *)

LEMMA WholeIs ==
  ASSUME NEW D, NEW s \in Seq(D)
  PROVE  /\ FindNext(s, 1, Null) \in 1..End(s)
         /\ Whole(s) \in Seq(D) /\ Len(Whole(s)) = FindNext(s, 1, Null) - 1
         /\ \A k \in 1..(FindNext(s, 1, Null) - 1) : Whole(s)[k] = s[k] /\ s[k] # Null
         /\ Complete(s) <=> FindNext(s, 1, Null) = End(s)
<1> DEFINE n == FindNext(s, 1, Null)
<1>e. Len(s) \in Nat /\ End(s) = Len(s) + 1 /\ 1 \in 1..End(s)
  BY EndIs
<1>1. n \in 1..End(s) /\ \A k \in 1..(n - 1) : s[k] # Null
  BY <1>e, FindIs
<1>2. Whole(s) = SubSeq(s, 1, n - 1)
  BY DEF Whole
<1> HIDE DEF n
<1>3. \A k \in 1..(n - 1) : s[k] \in D
  BY <1>e, <1>1
<1>4. n - 1 \in Int /\ (n - 1) - 1 + 1 = n - 1 /\ (~(1 <= n - 1) => n - 1 = 0)
  BY <1>e, <1>1
<1>5. /\ Whole(s) \in Seq(D)
      /\ Len(Whole(s)) = IF 1 <= n - 1 THEN (n - 1) - 1 + 1 ELSE 0
      /\ \A k \in 1..((n - 1) - 1 + 1) : Whole(s)[k] = s[1 + k - 1]
  BY <1>2, <1>3, <1>4, SubSeqProperties
<1>6. Complete(s) => n = End(s)
  BY <1>1, <1>4, <1>5, <1>e DEF Complete
<1>7. ASSUME n = End(s) PROVE Complete(s)
  <2>1. n - 1 = Len(s)
    BY <1>7, <1>e
  <2> QED BY <1>2, <2>1, SubSeqFull DEF Complete
<1> QED BY <1>1, <1>4, <1>5, <1>6, <1>7 DEF n

LEMMA WholeConcat ==
  ASSUME NEW D, NEW a \in Seq(D), NEW s \in Seq(D)
  PROVE  IF Complete(a)
         THEN Whole(a \o s) = a \o Whole(s) /\ (Complete(a \o s) <=> Complete(s))
         ELSE Whole(a \o s) = Whole(a) /\ ~Complete(a \o s)
<1> DEFINE w == a \o s
           m == FindNext(a, 1, Null)
           n == FindNext(s, 1, Null)
           x == FindNext(w, 1, Null)
<1>e. /\ w \in Seq(D) /\ \A k \in 1..Len(a) : w[k] = a[k]
      /\ \A k \in 1..Len(s) : w[Len(a) + k] = s[k]
  OBVIOUS
<1>l. /\ Len(w) = Len(a) + Len(s) /\ Len(a) \in Nat /\ Len(s) \in Nat
      /\ End(a) = Len(a) + 1 /\ End(s) = Len(s) + 1 /\ End(w) = Len(a) + Len(s) + 1
  BY DEF End
<1>a. /\ m \in 1..End(a) /\ (m = End(a) \/ a[m] = Null)
      /\ Whole(a) \in Seq(D) /\ Len(Whole(a)) = m - 1
      /\ \A k \in 1..(m - 1) : Whole(a)[k] = a[k] /\ a[k] # Null
      /\ Complete(a) <=> m = End(a)
  <2>1. 1 \in 1..End(a)
    BY <1>e, <1>l
  <2> HIDE DEF w
  <2> QED BY <2>1, FindIs, WholeIs
<1>s. /\ n \in 1..End(s) /\ (n = End(s) \/ s[n] = Null)
      /\ Whole(s) \in Seq(D) /\ Len(Whole(s)) = n - 1
      /\ \A k \in 1..(n - 1) : Whole(s)[k] = s[k] /\ s[k] # Null
      /\ Complete(s) <=> n = End(s)
  <2>1. 1 \in 1..End(s)
    BY <1>e, <1>l
  <2> HIDE DEF w
  <2> QED BY <2>1, FindIs, WholeIs
<1>w. /\ Whole(w) \in Seq(D) /\ Len(Whole(w)) = x - 1
      /\ \A k \in 1..(x - 1) : Whole(w)[k] = w[k]
      /\ Complete(w) <=> x = End(w)
      /\ \A j \in 1..End(w) : (j = End(w) \/ w[j] = Null) /\ (\A k \in 1..(j - 1) : w[k] # Null)
           => x = j
  <2>1. w \in Seq(D) /\ 1 \in 1..End(w)
    BY <1>e, <1>l
  <2> HIDE DEF w
  <2> QED BY <2>1, FindIs, WholeIs
<1> HIDE DEF w, m, n, x
<1>1. ASSUME ~Complete(a) PROVE Whole(w) = Whole(a) /\ ~Complete(w)
  <2>1. m \in 1..Len(a) /\ a[m] = Null /\ m < End(w) /\ m \in 1..End(w)
    BY <1>e, <1>l, <1>a, <1>1
  <2>2. w[m] = Null /\ \A k \in 1..(m - 1) : w[k] # Null
    <3>1. w[m] = a[m] /\ \A k \in 1..(m - 1) : k \in 1..Len(a) /\ w[k] = a[k]
      BY <1>e, <1>l, <2>1
    <3> QED BY <1>a, <2>1, <3>1
  <2>3. x = m
    BY <1>w, <2>1, <2>2
  <2>4. Len(Whole(w)) = Len(Whole(a)) /\ \A k \in 1..Len(Whole(w)) : Whole(w)[k] = Whole(a)[k]
    BY <1>e, <1>l, <1>a, <1>w, <2>1, <2>3
  <2>5. Whole(w) = Whole(a)
    BY <1>a, <1>w, <2>4, SeqEqual
  <2> QED BY <1>w, <2>1, <2>3, <2>5, <1>e
<1>2. ASSUME Complete(a) PROVE Whole(w) = a \o Whole(s) /\ (Complete(w) <=> Complete(s))
  <2> DEFINE l == Len(a)
             v == a \o Whole(s)
  <2>1. l + n \in 1..End(w) /\ (l + n = End(w) \/ w[l + n] = Null) /\ m = l + 1
    <3>1. m = l + 1 /\ l + n \in 1..End(w) /\ (n = End(s) => l + n = End(w))
      <4>1. m = End(a) /\ n \in 1..End(s)
        BY <1>a, <1>s, <1>2
      <4> QED BY ONLY <4>1, <1>l
    <3>2. ASSUME n # End(s) PROVE w[l + n] = Null
      <4>1. n \in 1..Len(s)
        BY <1>e, <1>l, <1>s, <3>2
      <4> QED BY <1>e, <1>l, <1>s, <3>2, <4>1
    <3> QED BY <3>1, <3>2
  <2>2. ASSUME NEW k \in 1..(l + n - 1) PROVE w[k] # Null
    <3>1. CASE k <= l
      BY <1>e, <1>l, <1>a, <2>1, <2>2, <3>1
    <3>2. CASE ~(k <= l)
      <4>1. k - l \in 1..(n - 1) /\ k - l \in 1..Len(s) /\ l + (k - l) = k
        BY <1>e, <1>l, <1>s, <2>2, <3>2
      <4>2. w[l + (k - l)] = s[k - l]
        BY <1>e, <1>l, <4>1
      <4> QED BY <1>s, <4>1, <4>2
    <3> QED BY <3>1, <3>2
  <2>3. x = l + n
    <3> DEFINE j == l + n
    <3>1. j \in 1..End(w) /\ (j = End(w) \/ w[j] = Null) /\ \A k \in 1..(j - 1) : w[k] # Null
      <4>1. l + n - 1 = j - 1
        BY <1>l, <1>s
      <4>2. \A k \in 1..(j - 1) : w[k] # Null
        BY <2>2, <4>1
      <4> QED BY <2>1, <4>2
    <3> HIDE DEF j
    <3>2. x = j
      BY <1>w, <3>1
    <3> QED BY <3>2 DEF j
  <2>4. /\ v \in Seq(D) /\ Len(v) = l + (n - 1)
        /\ \A k \in 1..l : v[k] = a[k]
        /\ \A k \in 1..(n - 1) : v[l + k] = Whole(s)[k]
    <3>1. v \in Seq(D) /\ Len(v) = l + Len(Whole(s))
      BY <1>s
    <3>2. \A k \in 1..l : v[k] = a[k]
      BY <1>s, <1>e
    <3>3. \A k \in 1..Len(Whole(s)) : v[l + k] = Whole(s)[k]
      BY <1>s, <1>e
    <3> HIDE DEF v, l
    <3> QED BY <1>s, <3>1, <3>2, <3>3
  <2>5. ASSUME NEW k \in 1..(l + n - 1) PROVE v[k] = w[k]
    <3> HIDE DEF v
    <3>1. CASE k <= l
      BY <1>e, <1>l, <2>4, <2>5, <3>1
    <3>2. CASE ~(k <= l)
      <4>1. k - l \in 1..(n - 1) /\ k - l \in 1..Len(s) /\ l + (k - l) = k
        BY <1>e, <1>l, <1>s, <2>5, <3>2
      <4>2. w[l + (k - l)] = s[k - l] /\ v[l + (k - l)] = Whole(s)[k - l]
        BY <1>e, <1>l, <2>4, <4>1
      <4> QED BY <1>s, <4>1, <4>2
    <3> QED BY <3>1, <3>2
  <2>6. Len(Whole(w)) = Len(v) /\ \A k \in 1..Len(Whole(w)) : Whole(w)[k] = v[k]
    <3>1. x - 1 = l + n - 1 /\ l + (n - 1) = l + n - 1
      BY <1>e, <1>l, <1>s, <2>3
    <3> HIDE DEF v, l
    <3> QED BY <1>w, <2>4, <2>5, <3>1
  <2>7. Whole(w) = v
    <3> HIDE DEF v
    <3> QED BY <1>w, <2>4, <2>6, SeqEqual
  <2>8. x = End(w) <=> n = End(s)
    <3>1. n \in 1..End(s)
      BY <1>s
    <3> QED BY ONLY <1>l, <2>3, <3>1
  <2> QED BY <1>s, <1>w, <2>7, <2>8
<1> QED BY <1>1, <1>2 DEF w

LEMMA WholeCons ==
  ASSUME NEW D, NEW s \in Seq(D), NEW c \in D
  PROVE  /\ <<c>> \o s \in Seq(D)
         /\ Whole(<<c>> \o s) = IF c = Null THEN <<>> ELSE <<c>> \o Whole(s)
         /\ Complete(<<c>> \o s) <=> c # Null /\ Complete(s)
<1> DEFINE a == <<c>>
           x == FindNext(a, 1, Null)
<1>e. a \in Seq(D) /\ Len(a) = 1 /\ a[1] = c /\ End(a) = 2
  BY DEF End
<1> HIDE DEF a
<1>1. /\ x \in 1..2 /\ (x = 2 \/ a[x] = Null) /\ \A k \in 1..(x - 1) : a[k] # Null
      /\ Len(Whole(a)) = x - 1 /\ Whole(a) \in Seq(D)
      /\ Complete(a) <=> x = 2
  <2>1. 1 \in 1..End(a)
    BY <1>e
  <2> QED BY <1>e, <2>1, FindIs, WholeIs
<1> HIDE DEF x
<1>2. Complete(a) <=> c # Null
  BY <1>e, <1>1
<1>3. ~Complete(a) => Whole(a) = <<>>
  <2>1. ~Complete(a) => Len(Whole(a)) = 0
    BY <1>1
  <2> QED BY <1>1, <2>1
<1>4. a \o s \in Seq(D) /\ (Complete(a) => <<c>> \o Whole(s) = a \o Whole(s))
  BY <1>e DEF a
<1>5. IF Complete(a)
      THEN Whole(a \o s) = a \o Whole(s) /\ (Complete(a \o s) <=> Complete(s))
      ELSE Whole(a \o s) = Whole(a) /\ ~Complete(a \o s)
  BY <1>e, WholeConcat
<1>6. /\ Whole(a \o s) = IF c = Null THEN <<>> ELSE <<c>> \o Whole(s)
      /\ Complete(a \o s) <=> c # Null /\ Complete(s)
  BY <1>2, <1>3, <1>4, <1>5
<1> QED BY <1>4, <1>6 DEF a

LEMMA WholeEmpty == Whole(<<>>) = <<>> /\ Complete(<<>>)
<1> DEFINE n == FindNext(<<>>, 1, Null)
<1>1. <<>> \in Seq({}) /\ Len(<<>>) = 0 /\ End(<<>>) = 1
  BY DEF End
<1>2. n \in 1..1 /\ Whole(<<>>) \in Seq({}) /\ Len(Whole(<<>>)) = n - 1 /\ (Complete(<<>>) <=> n = 1)
  BY <1>1, WholeIs
<1> HIDE DEF n
<1>3. Len(Whole(<<>>)) = 0 /\ Complete(<<>>)
  BY <1>2
<1> QED BY <1>2, <1>3

-----------------------------------------------------------------------------
(* The cells of two texts of which one begins with the other. *)
LEMMA BeginsCons ==
  ASSUME NEW D, NEW a \in Seq(D), NEW b \in Seq(D), NEW c \in D, Begins(a, b)
  PROVE  Begins(<<c>> \o a, <<c>> \o b)
<1> DEFINE v == <<c>> \o a
           w == <<c>> \o b
<1>1. /\ Len(v) = Len(a) + 1 /\ Len(w) = Len(b) + 1 /\ Len(a) \in Nat /\ Len(b) \in Nat
      /\ Len(a) <= Len(b)
  BY DEF Begins
<1>2. v[1] = c /\ w[1] = c
  OBVIOUS
<1>3. \A k \in 1..Len(a) : v[k + 1] = a[k]
  OBVIOUS
<1>4. \A k \in 1..Len(b) : w[k + 1] = b[k]
  OBVIOUS
<1> HIDE DEF v, w
<1>5. ASSUME NEW k \in 1..Len(v) PROVE w[k] = v[k]
  <2>1. CASE k = 1
    BY <1>2, <2>1
  <2>2. CASE k # 1
    <3>1. k - 1 \in 1..Len(a) /\ k - 1 \in 1..Len(b) /\ (k - 1) + 1 = k
      BY <1>1, <1>5, <2>2
    <3>2. w[(k - 1) + 1] = b[k - 1] /\ v[(k - 1) + 1] = a[k - 1]
      BY <1>3, <1>4, <3>1
    <3> QED BY <3>1, <3>2 DEF Begins
  <2> QED BY <2>1, <2>2
<1>6. Len(v) <= Len(w)
  BY <1>1
<1> QED BY <1>5, <1>6 DEF Begins, v, w

LEMMA FormsBegin ==
  ASSUME NEW C, NEW t \in Seq(C), NEW u \in Seq(C), Begins(t, u)
  PROVE  \A i \in 1..End(t) :
           ~Complete(Tops(t)[i]) => Begins(Whole(Tops(t)[i]), Whole(Tops(u)[i]))
<1> DEFINE D == CellsOf(t) \cup CellsOf(u)
           Right(i) == ~Complete(Tops(t)[i]) => Begins(Whole(Tops(t)[i]), Whole(Tops(u)[i]))
           T == {i \in 1..End(t) : ~Right(i)}
<1>e. End(t) \in Nat /\ \A i \in 1..End(t) : i \in 1..End(u)
  BY EndIs DEF Begins
<1>d. /\ \A i \in 1..End(t) : Tops(t)[i] \in Seq(D) /\ ParseCell(t, i, ParseSexp(t)).cell \in D
      /\ \A i \in 1..End(u) : Tops(u)[i] \in Seq(D)
  <2>1. CellsOf(t) \subseteq D /\ CellsOf(u) \subseteq D
    OBVIOUS
  <2> HIDE DEF D
  <2> QED BY <2>1, TopIs, SeqMonotonic
<1>w. \A c \in D : \A s \in Seq(D) :
        /\ Whole(<<c>> \o s) = IF c = Null THEN <<>> ELSE <<c>> \o Whole(s)
        /\ Complete(<<c>> \o s) <=> c # Null /\ Complete(s)
  <2> HIDE DEF D
  <2> QED BY WholeCons
<1>0. T = {}
  <2> SUFFICES ASSUME T # {} PROVE FALSE
    OBVIOUS
  <2>1. PICK i \in T : \A s \in T : s <= i
    <3>1. T \subseteq 1..End(t)
      OBVIOUS
    <3>2. End(t) \in Nat
      BY <1>e
    <3> HIDE DEF T
    <3> QED BY ONLY T # {}, <3>1, <3>2, LastPosition
  <2>2. /\ i \in 1..End(t) /\ ~Complete(Tops(t)[i])
        /\ ~Begins(Whole(Tops(t)[i]), Whole(Tops(u)[i]))
        /\ \A s \in 1..End(t) : s > i => Right(s)
    BY <2>1, <1>e
  <2> DEFINE g == ParseSexp(t)
             r == ParseCell(t, i, g)
             n == r.next
  <2>3. SkipBlanks(t, i) < End(t)
    <3>1. SkipBlanks(t, i) \in i..End(t)
      BY <2>2, SkipIs
    <3>2. SkipBlanks(t, i) # End(t)
      BY <2>2, TopIs, WholeEmpty
    <3> QED BY <1>e, <2>2, <3>1, <3>2
  <2>4. n \in (i+1)..End(t) /\ Tops(t)[i] = <<r.cell>> \o Tops(t)[n]
    BY <2>2, <2>3, TopIs
  <2> HIDE DEF D
  <2>5. /\ n \in 1..End(t) /\ n > i /\ n \in 1..End(u) /\ i \in 1..End(u)
        /\ r.cell \in D /\ Tops(t)[n] \in Seq(D) /\ Tops(u)[n] \in Seq(D)
    <3>1. n \in 1..End(t) /\ n > i
      <4> HIDE DEF n
      <4> QED BY <1>e, <2>2, <2>4
    <3> HIDE DEF n
    <3> QED BY <1>e, <1>d, <2>2, <3>1
  <2>6. r.cell # Null
    <3> SUFFICES ASSUME r.cell = Null PROVE FALSE
      OBVIOUS
    <3>1. Whole(Tops(t)[i]) = <<>>
      <4> HIDE DEF r, n
      <4> QED BY <2>4, <2>5, WholeCons
    <3>2. Whole(Tops(u)[i]) \in Seq(D)
      BY <1>d, <2>5, WholeIs
    <3>3. Begins(<<>>, Whole(Tops(u)[i]))
      BY <3>2 DEF Begins
    <3> QED BY <2>2, <3>1, <3>3
  <2>7. /\ Whole(Tops(t)[i]) = <<r.cell>> \o Whole(Tops(t)[n])
        /\ ~Complete(Tops(t)[n])
    <3> HIDE DEF r, n
    <3>1. /\ Whole(<<r.cell>> \o Tops(t)[n])
               = IF r.cell = Null THEN <<>> ELSE <<r.cell>> \o Whole(Tops(t)[n])
          /\ Complete(<<r.cell>> \o Tops(t)[n]) <=> r.cell # Null /\ Complete(Tops(t)[n])
      BY <2>5, <1>w
    <3> QED BY <2>2, <2>4, <2>6, <3>1
  <2>8. n < End(t)
    <3>1. n # End(t)
      <4> HIDE DEF r, n
      <4> QED BY <2>7, TopEnd, WholeEmpty
    <3> HIDE DEF n
    <3> QED BY <1>e, <2>5, <3>1
  <2>9. ParseCell(u, i, ParseSexp(u)) = r
    <3>1. Firm(t, u, r)
      BY <2>8 DEF Firm
    <3>2. \A s \in 1..End(t) : s > i /\ Firm(t, u, g[s]) => ParseSexp(u)[s] = g[s]
      BY SexpSame
    <3>3. Ends(t, g, i)
      BY <2>2, CellIs
    <3>4. i \in 1..End(t) /\ Firm(t, u, ParseCell(t, i, g))
      BY <2>2, <3>1
    <3> HIDE DEF g, r
    <3>5. ParseCell(u, i, ParseSexp(u)) = ParseCell(t, i, g)
      BY <2>3, <3>2, <3>3, <3>4, CellSame
    <3> QED BY <3>5 DEF r
  <2>10. Tops(u)[i] = <<r.cell>> \o Tops(u)[n]
    <3>1. SkipBlanks(u, i) < End(u)
      <4>1. SkipBlanks(u, i) = SkipBlanks(t, i)
        BY <2>2, <2>3, SkipSame
      <4>2. End(t) <= End(u) /\ End(u) \in Nat /\ SkipBlanks(t, i) \in i..End(t)
        BY <2>2, SkipIs, EndIs DEF Begins
      <4> QED BY <1>e, <2>2, <2>3, <4>1, <4>2
    <3>2. i \in 1..End(u)
      BY <2>2, EndIs DEF Begins
    <3>3. ParseCell(u, i, ParseSexp(u)).next = n
      BY <2>9
    <3> HIDE DEF r, n
    <3> QED BY <2>9, <3>1, <3>2, <3>3, TopIs
  <2>11. Whole(Tops(u)[i]) = <<r.cell>> \o Whole(Tops(u)[n])
    <3> HIDE DEF r, n
    <3> QED BY ZenonT(30), <2>5, <2>6, <2>10, WholeCons
  <2>12. Begins(Whole(Tops(t)[n]), Whole(Tops(u)[n]))
    <3> HIDE DEF n
    <3> QED BY <2>2, <2>5, <2>7
  <2> HIDE DEF r, n
  <2>13. Whole(Tops(t)[n]) \in Seq(D) /\ Whole(Tops(u)[n]) \in Seq(D)
    BY <2>5, WholeIs
  <2> QED BY <2>2, <2>5, <2>7, <2>11, <2>12, <2>13, BeginsCons
<1> QED BY <1>0

(***************************************************************************)
(* What is kept is read again.                                             *)
(***************************************************************************)
LEMMA BeginsPrefix ==
  ASSUME NEW D, NEW a \in Seq(D), NEW b \in Seq(D), Begins(a, b)
  PROVE  IsPrefix(a, b)
<1>1. 1 \in 1..End(a) /\ Len(a) \in 0..Len(a)
  BY EndIs
<1>2. SubSeq(b, 1, Len(a)) = SubSeq(a, 1, Len(a))
  BY <1>1, SubSame
<1> QED BY <1>2 DEF IsPrefix, Begins

LEMMA PrefixForms ==
  ASSUME NEW a \in Seq(Chars), NEW b \in Seq(Chars), ~Complete(Parse(a))
  PROVE  IsPrefix(Whole(Parse(a)), Whole(Parse(a \o b)))
<1> DEFINE t == Format(a)
           u == Format(a \o b)
           D == CellsOf(t) \cup CellsOf(u)
           p == Tops(t)[1]
           q == Tops(u)[1]
<1>1. t \in Seq(Chars) /\ u \in Seq(Chars) /\ u = t \o Format(b) /\ Format(b) \in Seq(Chars)
  <2>1. Blank \in Chars /\ a \o b \in Seq(Chars)
    BY CharsAre
  <2>2. Format(a \o b) = Format(a) \o Format(b) /\ Format(a) \in Seq(Chars)
    BY <2>1, FormatConcat
  <2>3. Format(b) \in Seq(Chars)
    BY <2>1, FormatConcat
  <2>4. Format(a \o b) \in Seq(Chars)
    BY <2>2, <2>3
  <2> QED BY <2>2, <2>3, <2>4
<1> HIDE DEF t, u
<1>2. Begins(t, u)
  BY <1>1 DEF Begins
<1>3. Parse(a) = p /\ Parse(a \o b) = q
  BY <1>1, TopsAre DEF Parse, t, u
<1>4. p \in Seq(D) /\ q \in Seq(D)
  <2>1. 1 \in 1..End(t) /\ 1 \in 1..End(u)
    <3>1. t \in Seq(Chars) /\ u \in Seq(Chars)
      BY <1>1
    <3> QED BY <3>1, EndIs
  <2>2. p \in Seq(CellsOf(t)) /\ q \in Seq(CellsOf(u))
    BY <1>1, <2>1, TopIs
  <2>3. CellsOf(t) \subseteq D /\ CellsOf(u) \subseteq D
    OBVIOUS
  <2> HIDE DEF D, p, q
  <2> QED BY <2>2, <2>3, SeqMonotonic
<1>5. Begins(Whole(p), Whole(q))
  <2>1. 1 \in 1..End(t)
    BY <1>1, EndIs
  <2> QED BY <1>1, <1>2, <1>3, <2>1, FormsBegin
<1> HIDE DEF p, q, D
<1>6. Whole(p) \in Seq(D) /\ Whole(q) \in Seq(D)
  BY <1>4, WholeIs
<1> QED BY <1>3, <1>5, <1>6, BeginsPrefix

(* What is kept is a text with an open list. *)
KeptOpen ==
  /\ in \in Seq(Chars) /\ curLine \in Seq(Chars)
  /\ curLine # <<>> => ~Complete(Parse(curLine))

LEMMA KeptStep == KeptOpen /\ [Next]_vars => KeptOpen'
<1> SUFFICES ASSUME KeptOpen, [Next]_vars PROVE KeptOpen'
  OBVIOUS
<1> USE DEF KeptOpen
<1>t. ASSUME NEW line \in Lines, Typed(line) PROVE in' \in Seq(Chars)
  BY <1>t, ReplAssumption, CharsAre DEF Typed
<1>1. CASE \E line \in Lines : SkipComment(line)
  BY <1>1, <1>t DEF SkipComment
<1>2. ASSUME NEW line \in Lines, Evaluate(line) PROVE KeptOpen'
  <2>1. in' \in Seq(Chars)
    BY <1>t, <1>2 DEF Evaluate
  <2>2. Collected(in') \in Seq(Chars)
    <3>1. curLine \in Seq(Chars) /\ <<Blank>> \in Seq(Chars)
      BY CharsAre
    <3> QED BY <2>1, <3>1 DEF Collected
  <2> DEFINE text == Collected(in')
  <2>3. curLine' = IF Complete(Parse(text)) THEN <<>> ELSE text
    BY <1>2 DEF Evaluate, Kept
  <2> HIDE DEF text
  <2>4. CASE Complete(Parse(text))
    BY <2>1, <2>3, <2>4
  <2>5. CASE ~Complete(Parse(text))
    <3>1. curLine' = text /\ curLine' \in Seq(Chars)
      BY <2>2, <2>3, <2>5 DEF text
    <3> QED BY <2>1, <2>5, <3>1
  <2> QED BY <2>4, <2>5
<1>3. CASE \E line \in Lines : Crash(line)
  BY <1>3, <1>t DEF Crash
<1>4. CASE LoadFile
  BY <1>4 DEF LoadFile
<1>5. CASE Goodbye
  BY <1>5 DEF Goodbye
<1>6. CASE UNCHANGED vars
  BY <1>6 DEF vars
<1> QED BY <1>1, <1>2, <1>3, <1>4, <1>5, <1>6 DEF Next

(* Whatever lines are typed, what has been read of a text that is kept is   *)
(* read again the same when another line is added to it (evalHelper in     *)
(* llisp.cpp, parse.cpp).                                                  *)
THEOREM ReadsAgain == Spec => ReadAgain
<1> DEFINE Again == curLine # <<>> /\ curLine' # <<>> =>
                      IsPrefix(Whole(Parse(curLine)), Whole(Parse(curLine')))
<1>1. Init => KeptOpen
  BY DEF Init, KeptOpen
<1>2. KeptOpen /\ [Next]_vars => [Again]_vars
  <2> SUFFICES ASSUME KeptOpen, Next, curLine # <<>>, curLine' # <<>>, curLine' # curLine
               PROVE  IsPrefix(Whole(Parse(curLine)), Whole(Parse(curLine')))
    <3>1. ASSUME KeptOpen, Next, curLine' = curLine, curLine # <<>>
          PROVE  IsPrefix(Whole(Parse(curLine)), Whole(Parse(curLine')))
      BY <3>1 DEF IsPrefix
    <3> QED BY <3>1
  <2>1. PICK line \in Lines : Evaluate(line)
    BY DEF Next, SkipComment, Crash, LoadFile, Goodbye
  <2>2. in' \in Seq(Chars)
    BY <2>1, ReplAssumption, CharsAre DEF Evaluate, Typed, KeptOpen
  <2> DEFINE b == <<Blank>> \o in'
  <2>3. b \in Seq(Chars) /\ Collected(in') = curLine \o b
    <3>1. curLine \in Seq(Chars)
      BY DEF KeptOpen
    <3> QED BY <2>2, <3>1, CharsAre DEF Collected
  <2>4. curLine' = curLine \o b
    BY <2>1, <2>3 DEF Evaluate, Kept
  <2> HIDE DEF b
  <2> QED BY <2>3, <2>4, PrefixForms DEF KeptOpen
<1>3. Spec => []KeptOpen
  BY <1>1, KeptStep, PTL DEF Spec
<1> QED BY <1>2, <1>3, PTL DEF Spec, ReadAgain

(* When nothing of t is open, its cells come first.                         *)
LEMMA JoinForms ==
  ASSUME NEW C, NEW t \in Seq(C), NEW u \in Seq(C), Begins(t, u), Joins(t, u)
  PROVE  \A i \in 1..End(t) :
           Complete(Tops(t)[i]) => Tops(u)[i] = Tops(t)[i] \o Tops(u)[End(t)]
<1> DEFINE D == CellsOf(t) \cup CellsOf(u)
           Right(i) == Complete(Tops(t)[i]) => Tops(u)[i] = Tops(t)[i] \o Tops(u)[End(t)]
           T == {i \in 1..End(t) : ~Right(i)}
<1>e. /\ Len(t) \in Nat /\ End(t) = Len(t) + 1 /\ Len(u) \in Nat /\ End(u) = Len(u) + 1
      /\ Len(t) < Len(u) /\ End(t) < End(u)
  BY EndIs DEF Joins
<1>u. End(t) \in 1..End(u) /\ \A i \in 1..End(t) : i \in 1..End(u)
  BY <1>e
<1>d. /\ \A i \in 1..End(t) : Tops(t)[i] \in Seq(D) /\ ParseCell(t, i, ParseSexp(t)).cell \in D
      /\ \A i \in 1..End(u) : Tops(u)[i] \in Seq(D)
  <2>1. CellsOf(t) \subseteq D /\ CellsOf(u) \subseteq D
    OBVIOUS
  <2> HIDE DEF D
  <2> QED BY <2>1, TopIs, SeqMonotonic
<1>w. \A c \in D : \A s \in Seq(D) : Complete(<<c>> \o s) <=> c # Null /\ Complete(s)
  <2> HIDE DEF D
  <2> QED BY WholeCons
<1>0. T = {}
  <2> SUFFICES ASSUME T # {} PROVE FALSE
    OBVIOUS
  <2>1. PICK i \in T : \A s \in T : s <= i
    <3>1. T \subseteq 1..End(t)
      OBVIOUS
    <3>2. End(t) \in Nat
      BY <1>e
    <3> HIDE DEF T
    <3> QED BY ONLY T # {}, <3>1, <3>2, LastPosition
  <2>2. /\ i \in 1..End(t) /\ Complete(Tops(t)[i])
        /\ Tops(u)[i] # Tops(t)[i] \o Tops(u)[End(t)]
        /\ \A s \in 1..End(t) : s > i => Right(s)
    <3>1. i \in 1..End(t) /\ ~Right(i)
      BY <2>1
    <3>2. \A s \in 1..End(t) : s > i => Right(s)
      <4> HIDE DEF Right
      <4> QED BY <1>e, <2>1
    <3> QED BY <3>1, <3>2
  <2> DEFINE g == ParseSexp(t)
             h == ParseSexp(u)
             q == SkipBlanks(t, i)
             r == ParseCell(t, i, g)
             n == r.next
  <2>3. q \in i..End(t)
    BY <2>2, SkipIs
  <2> HIDE DEF D
  <2>4. CASE q = End(t)
    <3>1. Tops(t)[i] = <<>>
      BY <2>2, <2>4, TopIs
    <3>2. SkipBlanks(u, i) = SkipBlanks(u, End(t))
      BY <2>2, <2>4, SkipSame
    <3>3. ParseCell(u, i, h) = ParseCell(u, End(t), h)
      BY <3>2 DEF ParseCell
    <3>4. Tops(u)[i] = Tops(u)[End(t)]
      <4>1. CellsFrom(u, i, h, Tops(u)) = CellsFrom(u, End(t), h, Tops(u))
        BY <3>2, <3>3 DEF CellsFrom
      <4> HIDE DEF h
      <4>2. Tops(u)[i] = CellsFrom(u, i, h, Tops(u))
        BY <1>u, <2>2, TopsAre DEF h
      <4>3. Tops(u)[End(t)] = CellsFrom(u, End(t), h, Tops(u))
        BY <1>u, TopsAre DEF h
      <4> QED BY <4>1, <4>2, <4>3
    <3>5. <<>> \o Tops(u)[End(t)] = Tops(u)[End(t)]
      BY <1>d, <1>u, ConcatEmptySeq
    <3> QED BY <2>2, <3>1, <3>4, <3>5
  <2>5. CASE q # End(t)
    <3>1. q < End(t)
      <4> HIDE DEF q
      <4> QED BY <1>e, <2>2, <2>3, <2>5
    <3>2. n \in (i+1)..End(t) /\ Tops(t)[i] = <<r.cell>> \o Tops(t)[n]
      BY <2>2, <3>1, TopIs
    <3>3. /\ n \in 1..End(t) /\ n > i /\ n \in 1..End(u) /\ i \in 1..End(u)
          /\ r.cell \in D /\ Tops(t)[n] \in Seq(D) /\ Tops(u)[n] \in Seq(D)
      <4>1. n \in 1..End(t) /\ n > i
        <5> HIDE DEF n
        <5> QED BY <1>e, <2>2, <3>2
      <4> HIDE DEF n
      <4> QED BY <1>u, <1>d, <2>2, <4>1
    <3>4. r.cell # Null /\ Complete(Tops(t)[n])
      <4> HIDE DEF r, n
      <4> QED BY <1>w, <2>2, <3>2, <3>3
    <3>5. ParseCell(u, i, h) = r
      <4>1. Firm(t, u, r)
        <5> HIDE DEF r
        <5> QED BY <3>4 DEF Firm
      <4>2. \A s \in 1..End(t) : s > i /\ Firm(t, u, g[s]) => h[s] = g[s]
        BY SexpSame
      <4>3. Ends(t, g, i)
        BY <2>2, CellIs
      <4>4. i \in 1..End(t) /\ Firm(t, u, ParseCell(t, i, g))
        BY <2>2, <4>1
      <4> HIDE DEF g, h, r
      <4>5. ParseCell(u, i, h) = ParseCell(t, i, g)
        BY SMTT(30), <3>1, <4>2, <4>3, <4>4, CellSame
      <4> QED BY <4>5 DEF r
    <3>6. Tops(u)[i] = <<r.cell>> \o Tops(u)[n]
      <4>1. SkipBlanks(u, i) < End(u)
        <5>1. SkipBlanks(u, i) = q
          BY <2>2, <3>1, SkipSame
        <5> HIDE DEF q
        <5> QED BY <1>e, <2>2, <2>3, <5>1
      <4> HIDE DEF r
      <4> QED BY <3>3, <3>5, <4>1, TopIs
    <3>7. Tops(u)[n] = Tops(t)[n] \o Tops(u)[End(t)]
      <4> HIDE DEF n
      <4> QED BY <2>2, <3>3, <3>4
    <3> HIDE DEF r, n
    <3>8. <<r.cell>> \in Seq(D) /\ Tops(u)[End(t)] \in Seq(D)
      BY <1>u, <1>d, <3>3
    <3>9. (<<r.cell>> \o Tops(t)[n]) \o Tops(u)[End(t)]
            = <<r.cell>> \o (Tops(t)[n] \o Tops(u)[End(t)])
      <4> DEFINE c == <<r.cell>>
                 v == Tops(t)[n]
                 z == Tops(u)[End(t)]
      <4>1. c \in Seq(D) /\ v \in Seq(D) /\ z \in Seq(D)
        BY <3>3, <3>8
      <4> HIDE DEF c, v, z
      <4>2. (c \o v) \o z = c \o (v \o z)
        BY SMTT(30), <4>1, ConcatAssociative
      <4> QED BY <4>2 DEF c, v, z
    <3> QED BY <2>2, <3>2, <3>6, <3>7, <3>9
  <2> QED BY <2>4, <2>5
<1> QED BY <1>0

-----------------------------------------------------------------------------
(* Plain text: no quote, no string. *)
Plain == Chars \ Marks

(* A text that is kept apart from what is before it. *)
Apart(b) == b = <<>> \/ \E c \in Seq(Plain) : b = <<Blank>> \o c

(* All that can be read. *)
Readings == UNION {CellsOf(Format(x)) : x \in Seq(Chars)}

LEMMA PlainBlank == Blank \in Plain /\ <<Blank>> \in Seq(Plain) /\ Seq(Plain) \subseteq Seq(Chars)
<1>1. Blank \in Plain
  BY DEF Plain, Chars, Marks, Quotes, Blank
<1>2. Plain \subseteq Chars
  BY DEF Plain
<1>3. Seq(Plain) \subseteq Seq(Chars)
  BY <1>2, SeqMonotonic
<1>4. <<Blank>> \in Seq(Plain)
  BY <1>1
<1> QED BY <1>1, <1>3, <1>4

LEMMA ParseIs ==
  ASSUME NEW x \in Seq(Chars)
  PROVE  /\ Format(x) \in Seq(Chars)
         /\ Parse(x) = Tops(Format(x))[1] /\ Parse(x) \in Seq(Readings)
         /\ Whole(Parse(x)) \in Seq(Readings)
<1>1. Format(x) \in Seq(Chars)
  BY CharsAre, FormatConcat
<1> DEFINE t == Format(x)
<1>2. 1 \in 1..End(t)
  BY <1>1, EndIs
<1>3. Parse(x) = Tops(t)[1] /\ Tops(t)[1] \in Seq(CellsOf(t))
  BY <1>1, <1>2, TopsAre DEF Parse
<1>4. CellsOf(t) \subseteq Readings
  BY DEF Readings
<1>5. Parse(x) \in Seq(Readings)
  <2> HIDE DEF t
  <2> QED BY <1>3, <1>4, SeqMonotonic
<1> QED BY <1>1, <1>3, <1>5, WholeIs

LEMMA ParseEmpty == Parse(<<>>) = <<>>
<1>1. <<>> \in Seq(Chars) /\ End(<<>>) = 1
  BY DEF End
<1>2. Tops(<<>>)[1] = <<>>
  BY <1>1, TopEnd
<1> QED BY <1>1, <1>2, ParseIs, FormatBlank

(* The forms of two texts one behind the other. *)
LEMMA ParseConcat ==
  ASSUME NEW a \in Seq(Plain), NEW b \in Seq(Plain), Apart(b), Complete(Parse(a))
  PROVE  /\ Parse(a \o b) = Parse(a) \o Parse(b)
         /\ Whole(Parse(a \o b)) = Parse(a) \o Whole(Parse(b))
         /\ Complete(Parse(a \o b)) <=> Complete(Parse(b))
<1>0. /\ a \in Seq(Chars) /\ b \in Seq(Chars) /\ a \o b \in Seq(Chars)
      /\ Parse(a) \in Seq(Readings) /\ Parse(b) \in Seq(Readings)
  <2>1. a \in Seq(Chars) /\ b \in Seq(Chars)
    BY PlainBlank
  <2> QED BY <2>1, ParseIs
<1>1. CASE b = <<>>
  <2>1. a \o b = a /\ Parse(a) \o <<>> = Parse(a)
    BY <1>0, <1>1, ConcatEmptySeq
  <2>2. Parse(b) = <<>> /\ Whole(Parse(b)) = <<>> /\ Complete(Parse(b))
    BY <1>1, ParseEmpty, WholeEmpty
  <2>3. Whole(Parse(a)) = Parse(a)
    BY DEF Complete
  <2> QED BY <2>1, <2>2, <2>3
<1>2. CASE b # <<>>
  <2>1. PICK c \in Seq(Plain) : b = <<Blank>> \o c
    BY <1>2 DEF Apart
  <2> DEFINE t == Format(a)
             v == Format(b)
             u == Format(a \o b)
             n == Len(t)
  <2>2. /\ t \in Seq(Plain) /\ v \in Seq(Plain) /\ u = t \o v
        /\ v = <<Blank>> \o Format(c) /\ Format(c) \in Seq(Plain)
    <3>1. Format(<<Blank>> \o c) = Format(<<Blank>>) \o Format(c) /\ Format(c) \in Seq(Plain)
      BY PlainBlank, FormatConcat
    <3>2. t \in Seq(Plain) /\ v \in Seq(Plain) /\ u = t \o v
      BY PlainBlank, FormatConcat
    <3> HIDE DEF t, v, u
    <3> QED BY <2>1, <3>1, <3>2, FormatBlank DEF v
  <2>3. /\ Parse(a) = Tops(t)[1] /\ Parse(b) = Tops(v)[1] /\ Parse(a \o b) = Tops(u)[1]
    BY <1>0, ParseIs
  <2> HIDE DEF t, u, v
  <2>4. /\ u \in Seq(Plain) /\ n \in Nat /\ Len(v) \in Nat /\ Len(u) = n + Len(v) /\ Len(v) >= 1
        /\ v[1] = Blank
        /\ \A k \in 1..n : u[k] = t[k]
        /\ \A k \in 1..Len(v) : u[n + k] = v[k]
    <3>1. /\ u \in Seq(Plain) /\ n \in Nat /\ Len(v) \in Nat /\ Len(u) = n + Len(v)
          /\ \A k \in 1..n : u[k] = t[k]
          /\ \A k \in 1..Len(v) : u[n + k] = v[k]
      BY <2>2
    <3>2. Len(v) = 1 + Len(Format(c)) /\ Len(Format(c)) \in Nat /\ v[1] = Blank
      BY <2>2, PlainBlank
    <3> QED BY <3>1, <3>2
  <2>5. Begins(t, u) /\ Behind(u, v, n)
    BY <2>4 DEF Begins, Behind
  <2>6. Joins(t, u)
    <3>1. n < Len(u) /\ u[n + 1] = Blank
      BY <2>4
    <3>2. ASSUME NEW k \in 1..n PROVE t[k] \notin Marks
      <4>1. t[k] \in Plain
        BY <2>2, <3>2, ElementOfSeq
      <4> QED BY <4>1 DEF Plain
    <3> QED BY <3>1, <3>2 DEF Joins, End
  <2>7. /\ 1 \in 1..End(t) /\ 1 \in 1..End(v) /\ End(t) = n + 1
    <3>1. t \in Seq(Plain)
      BY <2>2
    <3>2. v \in Seq(Plain)
      BY <2>2
    <3>3. 1 \in 1..End(t) /\ End(t) = n + 1
      BY <3>1, EndIs
    <3>4. 1 \in 1..End(v)
      BY <3>2, EndIs
    <3> QED BY <3>3, <3>4
  <2>8. Tops(u)[1] = Tops(t)[1] \o Tops(u)[End(t)]
    BY ZenonT(30), <2>2, <2>3, <2>4, <2>5, <2>6, <2>7, JoinForms
  <2>9. Tops(u)[n + 1] = Tops(v)[1]
    <3>1. u \in Seq(Plain) /\ v \in Seq(Plain) /\ n \in Nat
      BY <2>2, <2>4
    <3> HIDE DEF n
    <3>2. \A i \in 1..End(v) : Tops(u)[n + i] = Tops(v)[i]
      BY <2>5, <3>1, TopsShift
    <3> QED BY <2>7, <3>2
  <2>10. Parse(a \o b) = Parse(a) \o Parse(b)
    BY <2>3, <2>7, <2>8, <2>9
  <2> QED BY <1>0, <2>10, WholeConcat
<1> QED BY <1>1, <1>2

(***************************************************************************)
(* What has been evaluated of a program.                                   *)
(***************************************************************************)

(* A line that the loop treats as one expects: it is not empty and all of   *)
(* it is code or a comment.                                                *)
Regular(line) == line # <<>> /\ ~Remarked(line)
Regulars      == {line \in Lines : Regular(line)}

(* No quotes and no strings, other than in comments, empty lines and lines  *)
(* with a ; behind code.                                                   *)
PlainLines ==
  \A line \in Regulars :
    line[1] = Semicolon \/ \A k \in 1..Len(line) : line[k] \notin Marks

LEMMA LineIs ==
  ASSUME PlainLines, NEW line \in Regulars
  PROVE  /\ IsComment(line) => Added(line) = <<>>
         /\ ~IsComment(line) => Added(line) = <<Blank>> \o line /\ line \in Seq(Plain)
         /\ Added(line) \in Seq(Plain) /\ Apart(Added(line))
<1> DEFINE p == Position(line, Semicolon)
           q == Position(line, "(")
<1>e. /\ line \in Seq(STRING) /\ line # <<>> /\ Len(line) \in Nat /\ End(line) = Len(line) + 1
      /\ 1 \in 1..End(line) /\ Len(line) >= 1
  <2>1. line \in Seq(STRING) /\ line # <<>>
    BY ReplAssumption DEF Regulars, Regular
  <2>2. Len(line) # 0 /\ Len(line) \in Nat
    BY <2>1, EmptySeq
  <2> QED BY <2>1, <2>2 DEF End
<1>1. /\ p \in 1..End(line) /\ (p = End(line) \/ line[p] = Semicolon)
      /\ \A k \in 1..(p - 1) : line[k] # Semicolon
  BY <1>e, FindIs DEF Position
<1>2. q \in 1..End(line) /\ (q = End(line) \/ line[q] = "(")
  BY <1>e, FindIs DEF Position
<1> HIDE DEF p, q
<1>3. IsComment(line) <=> p < q
  BY DEF IsComment, p, q
<1>4. Code(line) = SubSeq(line, 1, p - 1)
  BY DEF Code, p
<1>5. CASE line[1] = Semicolon
  <2>1. p = 1
    <3>1. ~(1 \in 1..(p - 1))
      BY <1>1, <1>5
    <3> QED BY <1>1, <1>e, <3>1
  <2>2. q # 1
    <3>1. 1 # End(line) /\ line[1] # "("
      <4>1. Semicolon # "("
        BY DEF Semicolon
      <4> QED BY <1>e, <1>5, <4>1
    <3> QED BY <1>2, <3>1
  <2>3. IsComment(line)
    BY <1>2, <1>3, <1>e, <2>1, <2>2
  <2>4. Added(line) = <<>>
    BY <1>4, <2>1 DEF Added
  <2> QED BY <2>3, <2>4 DEF Apart
<1>c. p - 1 \in 0..Len(line) /\ Code(line) \in Seq(STRING) /\ Len(Code(line)) = p - 1
  <2>1. \A k \in 1..(p - 1) : line[k] \in STRING
    BY <1>1, <1>e, ElementOfSeq
  <2>2. p - 1 \in 0..Len(line) /\ (p - 1) - 1 + 1 = p - 1 /\ (~(1 <= p - 1) => p - 1 = 0)
    BY <1>1, <1>e
  <2> QED BY <1>4, <2>1, <2>2, SubSeqProperties
<1>6. CASE line[1] # Semicolon
  <2>1. p = End(line)
    <3>1. p # 1
      BY <1>1, <1>e, <1>6
    <3>2. Code(line) # <<>>
      BY <1>1, <1>c, <3>1
    <3>3. Code(line) = line
      BY <3>2 DEF Regulars, Regular, Remarked
    <3> QED BY <1>1, <1>c, <1>e, <3>3
  <2>2. ~IsComment(line)
    BY <1>2, <1>3, <1>e, <2>1
  <2>3. Code(line) = line
    <3>1. p - 1 = Len(line)
      BY <1>e, <2>1
    <3> QED BY <1>4, <1>e, <3>1, SubSeqFull
  <2>4. line \in Seq(Plain)
    <3>1. \A k \in 1..Len(line) : line[k] \in Plain
      BY <1>e, <1>6, ElementOfSeq DEF Plain, Chars, PlainLines
    <3>2. line \in [1..Len(line) -> Plain]
      BY <1>e, <3>1, LenProperties
    <3> QED BY <1>e, <3>2, SequenceOfLength
  <2>5. Added(line) = <<Blank>> \o line
    BY <1>e, <2>3 DEF Added
  <2>6. Apart(Added(line)) /\ Added(line) \in Seq(Plain)
    BY <2>4, <2>5, PlainBlank DEF Apart
  <2> QED BY <2>2, <2>4, <2>5, <2>6
<1> QED BY <1>5, <1>6

(* The text of the first n of these lines; does line k close and then open? *)
Text(s, n) == FlattenSeq([k \in 1..n |-> Added(s[k])])
Opens(s, k) == /\ ~Complete(Parse(Text(s, k)))
               /\ Whole(Parse(Text(s, k))) # Whole(Parse(Text(s, k - 1)))

LEMMA TextIs ==
  ASSUME PlainLines, NEW s \in Seq(Regulars), NEW line \in Regulars
  PROVE  /\ Append(s, line) \in Seq(Regulars) /\ Len(Append(s, line)) = Len(s) + 1
         /\ Text(Append(s, line), Len(s) + 1) = Text(s, Len(s)) \o Added(line)
         /\ \A n \in 0..Len(s) : Text(Append(s, line), n) = Text(s, n)
         /\ \A k \in 1..Len(s) : Opens(Append(s, line), k) <=> Opens(s, k)
<1> DEFINE w == Append(s, line)
           n == Len(s)
           m == [k \in 1..n |-> Added(s[k])]
           h == [k \in 1..(n+1) |-> Added(w[k])]
<1>e. /\ n \in Nat /\ w \in Seq(Regulars) /\ Len(w) = n + 1 /\ w[n + 1] = line
      /\ \A k \in 1..n : w[k] = s[k] /\ s[k] \in Regulars
  BY AppendProperties, ElementOfSeq
<1> HIDE DEF w, n
<1>1. m \in Seq(Seq(Plain)) /\ Len(m) = n
  <2>1. \A k \in 1..n : Added(s[k]) \in Seq(Plain)
    BY <1>e, LineIs
  <2>2. m \in [1..n -> Seq(Plain)]
    BY <2>1
  <2> HIDE DEF m
  <2> QED BY <1>e, <2>2, SequenceOfLength
<1>2. h = Append(m, Added(line))
  <2>0. Added(line) \in Seq(Plain)
    BY LineIs
  <2>1. \A k \in 1..(n+1) : h[k] \in Seq(Plain)
    BY <1>e, LineIs, ElementOfSeq
  <2>2. h \in [1..(n+1) -> Seq(Plain)] /\ n + 1 \in Nat
    BY <1>e, <2>1
  <2>3. h \in Seq(Seq(Plain)) /\ Len(h) = n + 1
    <3> HIDE DEF h
    <3> QED BY <2>2, SequenceOfLength
  <2> DEFINE a == Append(m, Added(line))
  <2>4. /\ a \in Seq(Seq(Plain)) /\ Len(a) = n + 1 /\ a[n + 1] = Added(line)
        /\ \A k \in 1..n : a[k] = m[k]
    <3> HIDE DEF m
    <3> QED BY <1>1, <2>0, AppendProperties
  <2>5. ASSUME NEW k \in 1..(n+1) PROVE h[k] = a[k]
    <3> HIDE DEF a
    <3>1. CASE k \in 1..n
      BY <1>e, <2>4, <3>1
    <3>2. CASE k = n + 1
      BY <1>e, <2>4, <3>2
    <3> QED BY <1>e, <2>5, <3>1, <3>2
  <2> HIDE DEF a, h
  <2> QED BY <2>3, <2>4, <2>5, SeqEqual DEF a
<1>3. Text(w, n + 1) = Text(s, n) \o Added(line)
  <2>1. Added(line) \in Seq(Plain)
    BY LineIs
  <2>2. Text(w, n + 1) = FlattenSeq(h) /\ Text(s, n) = FlattenSeq(m)
    BY DEF Text
  <2> HIDE DEF h, m
  <2> QED BY <1>1, <1>2, <2>1, <2>2, FlattenAppend
<1>4. \A k \in 0..n : Text(w, k) = Text(s, k)
  <2> SUFFICES ASSUME NEW k \in 0..n PROVE Text(w, k) = Text(s, k)
    OBVIOUS
  <2>1. \A j \in 1..k : w[j] = s[j]
    BY <1>e
  <2>2. [j \in 1..k |-> Added(w[j])] = [j \in 1..k |-> Added(s[j])]
    BY <2>1
  <2> QED BY <2>2 DEF Text
<1>5. \A k \in 1..n : Opens(w, k) <=> Opens(s, k)
  <2> SUFFICES ASSUME NEW k \in 1..n PROVE Opens(w, k) <=> Opens(s, k)
    OBVIOUS
  <2>1. k \in 0..n /\ k - 1 \in 0..n
    BY <1>e
  <2>2. Text(w, k) = Text(s, k) /\ Text(w, k - 1) = Text(s, k - 1)
    BY <1>4, <2>1
  <2> QED BY <2>2 DEF Opens
<1> QED BY <1>e, <1>3, <1>4, <1>5 DEF w, n

-----------------------------------------------------------------------------
LEMMA ToSetConcat ==
  ASSUME NEW D, NEW a \in Seq(D), NEW b \in Seq(D)
  PROVE  ToSet(a \o b) = ToSet(a) \cup ToSet(b)
<1>1. \A s \in Seq(D) : ToSet(s) = {s[i] : i \in 1..Len(s)}
  BY DEF ToSet
<1>2. /\ a \o b \in Seq(D) /\ Len(a \o b) = Len(a) + Len(b) /\ Len(a) \in Nat /\ Len(b) \in Nat
      /\ \A i \in 1..(Len(a) + Len(b)) : (a \o b)[i] = IF i <= Len(a) THEN a[i] ELSE b[i - Len(a)]
  BY ConcatProperties
<1> DEFINE w == a \o b
<1> HIDE DEF w
<1>3. ASSUME NEW i \in 1..Len(w) PROVE w[i] \in ToSet(a) \cup ToSet(b)
  <2>1. CASE i <= Len(a)
    <3>1. i \in 1..Len(a) /\ w[i] = a[i]
      BY <1>2, <1>3, <2>1 DEF w
    <3> QED BY <1>1, <3>1
  <2>2. CASE ~(i <= Len(a))
    <3>1. i - Len(a) \in 1..Len(b) /\ w[i] = b[i - Len(a)]
      BY <1>2, <1>3, <2>2 DEF w
    <3> QED BY <1>1, <3>1
  <2> QED BY <2>1, <2>2
<1>4. ASSUME NEW i \in 1..Len(a) PROVE a[i] \in ToSet(w)
  <2>1. i \in 1..Len(w) /\ w[i] = a[i]
    BY <1>2, <1>4 DEF w
  <2> QED BY <1>1, <1>2, <2>1 DEF w
<1>6. ToSet(w) = {w[i] : i \in 1..Len(w)}
  BY <1>1, <1>2 DEF w
<1>5. ASSUME NEW i \in 1..Len(b) PROVE b[i] \in ToSet(w)
  <2>1. Len(a) + i \in 1..Len(w) /\ w[Len(a) + i] = b[i]
    BY <1>2, <1>5 DEF w
  <2> QED BY <1>6, <2>1
<1> QED BY ZenonT(30), <1>1, <1>3, <1>4, <1>5, <1>6 DEF w

(* The text a of lines s has been read to its end and evaluated behind what *)
(* was loaded, and cur is kept.  Forms of a are evaluated again as often as *)
(* a line closes forms and then opens one.                                 *)
ReadOn(a, s, cur, ev, loaded) ==
  /\ Text(s, Len(s)) = a \o cur
  /\ Complete(Parse(a)) /\ Apart(cur)
  /\ cur # <<>> => ~Complete(Parse(cur))
  /\ ToSet(loaded \o Parse(a)) \subseteq ToSet(ev)
  /\ (\A k \in 1..Len(s) : ~Opens(s, k)) => ev = loaded \o Parse(a) /\ Whole(Parse(cur)) = <<>>

LEMMA CommentOn ==
  ASSUME PlainLines, NEW s \in Seq(Regulars), NEW line \in Regulars, IsComment(line),
         NEW a \in Seq(Plain), NEW cur \in Seq(Plain), NEW ev, NEW loaded,
         ReadOn(a, s, cur, ev, loaded)
  PROVE  ReadOn(a, Append(s, line), cur, ev, loaded)
<1> DEFINE w == Append(s, line)
           n == Len(s)
<1>1. /\ Len(w) = n + 1 /\ n \in Nat /\ Text(w, n + 1) = Text(s, n) \o Added(line)
      /\ \A k \in 1..n : Opens(w, k) <=> Opens(s, k)
  BY TextIs
<1>2. Added(line) = <<>>
  BY LineIs
<1>3. a \o cur \in Seq(Plain)
  BY ConcatProperties
<1> HIDE DEF w, n
<1>4. Text(w, Len(w)) = a \o cur
  BY <1>1, <1>2, <1>3, ConcatEmptySeq DEF ReadOn, n
<1>5. (\A k \in 1..Len(w) : ~Opens(w, k)) => (\A k \in 1..n : ~Opens(s, k))
  BY <1>1
<1> QED BY <1>4, <1>5 DEF ReadOn, w, n

LEMMA Associates ==
  ASSUME NEW D
  PROVE  \A x, y, z \in Seq(D) : (x \o y) \o z = x \o (y \o z)
<1> SUFFICES ASSUME NEW x \in Seq(D), NEW y \in Seq(D), NEW z \in Seq(D)
             PROVE  (x \o y) \o z = x \o (y \o z)
  OBVIOUS
<1> QED BY ConcatAssociative

LEMMA Associate ==
  /\ \A x, y, z \in Seq(Plain) : (x \o y) \o z = x \o (y \o z)
  /\ \A x, y, z \in Seq(Readings) : (x \o y) \o z = x \o (y \o z)
<1>1. \A x, y, z \in Seq(Plain) : (x \o y) \o z = x \o (y \o z)
  BY Associates
<1>2. \A x, y, z \in Seq(Readings) : (x \o y) \o z = x \o (y \o z)
  BY Associates
<1> QED BY <1>1, <1>2

LEMMA LineOn ==
  ASSUME PlainLines, NEW s \in Seq(Regulars), NEW line \in Regulars, ~IsComment(line),
         NEW a \in Seq(Plain), NEW cur \in Seq(Plain),
         NEW ev \in Seq(Readings), NEW loaded \in Seq(Readings),
         ReadOn(a, s, cur, ev, loaded),
         NEW text, text = cur \o <<Blank>> \o line
  PROVE  /\ Kept(text, Parse(text)) \in Seq(Plain)
         /\ \E a2 \in Seq(Plain) :
              ReadOn(a2, Append(s, line), Kept(text, Parse(text)),
                     ev \o Whole(Parse(text)), loaded)
<1> DEFINE w  == Append(s, line)
           n  == Len(s)
           b  == Added(line)
           cells == Parse(text)
           more == ev \o Whole(cells)
<1>g. \A x, y, z \in Seq(Plain) : (x \o y) \o z = x \o (y \o z)
  BY Associate
<1>h. \A x, y, z \in Seq(Readings) : (x \o y) \o z = x \o (y \o z)
  BY Associate
<1>1. /\ Len(w) = n + 1 /\ n \in Nat /\ Text(w, n + 1) = Text(s, n) \o b
      /\ Text(w, n) = Text(s, n)
      /\ \A k \in 1..n : Opens(w, k) <=> Opens(s, k)
  BY TextIs
<1>2. b = <<Blank>> \o line /\ line \in Seq(Plain) /\ b \in Seq(Plain) /\ Apart(b)
  BY LineIs
<1> HIDE DEF w, n, b
<1>3. text = cur \o b /\ text \in Seq(Plain)
  <2>1. cur \in Seq(Chars) /\ line \in Seq(Chars)
    BY <1>2, PlainBlank
  <2>2. text = cur \o b
    BY <1>2, <2>1, CharsAre
  <2> QED BY <1>2, <2>2, ConcatProperties
<1>4. Apart(text)
  <2>1. CASE cur = <<>>
    BY <1>2, <1>3, <2>1, ConcatEmptySeq
  <2>2. CASE cur # <<>>
    <3>1. PICK c \in Seq(Plain) : cur = <<Blank>> \o c
      BY <2>2 DEF ReadOn, Apart
    <3>2. <<Blank>> \in Seq(Plain) /\ c \in Seq(Plain) /\ b \in Seq(Plain)
      BY <1>2, PlainBlank
    <3>3. (<<Blank>> \o c) \o b = <<Blank>> \o (c \o b)
      BY ZenonT(30), <1>g, <3>2
    <3>4. c \o b \in Seq(Plain)
      BY <3>2, ConcatProperties
    <3> DEFINE d == c \o b
    <3>5. text = <<Blank>> \o d /\ d \in Seq(Plain)
      BY <1>3, <3>1, <3>3, <3>4
    <3> HIDE DEF d
    <3> QED BY <3>5 DEF Apart
  <2> QED BY <2>1, <2>2
<1>5. /\ Parse(a \o text) = Parse(a) \o cells
      /\ Whole(Parse(a \o text)) = Parse(a) \o Whole(cells)
      /\ Complete(Parse(a \o text)) <=> Complete(cells)
  BY <1>3, <1>4, ParseConcat DEF ReadOn
<1>6. Whole(Parse(a \o cur)) = Parse(a) \o Whole(Parse(cur))
  BY ParseConcat DEF ReadOn
<1>7. Text(w, n + 1) = a \o text /\ Text(w, n) = a \o cur
  <2>1. Text(s, n) = a \o cur
    BY DEF ReadOn, n
  <2>2. (a \o cur) \o b = a \o (cur \o b)
    BY <1>g, <1>2
  <2> QED BY <1>1, <1>3, <2>1, <2>2
<1>8. /\ Parse(a) \in Seq(Readings) /\ cells \in Seq(Readings) /\ Whole(cells) \in Seq(Readings)
      /\ Parse(cur) \in Seq(Readings) /\ Whole(Parse(cur)) \in Seq(Readings)
  <2>1. a \in Seq(Chars) /\ cur \in Seq(Chars) /\ text \in Seq(Chars)
    BY <1>3, PlainBlank
  <2> QED BY <2>1, ParseIs
<1> HIDE DEF cells
<1>9. (\A k \in 1..Len(w) : ~Opens(w, k)) =>
        /\ \A k \in 1..n : ~Opens(s, k)
        /\ ~Opens(w, n + 1)
  <2>1. \A k \in 1..n : k \in 1..Len(w)
    BY <1>1
  <2>2. n + 1 \in 1..Len(w)
    BY <1>1
  <2> QED BY <1>1, <2>1, <2>2
<1>10. ToSet(more) = ToSet(ev) \cup ToSet(Whole(cells))
  BY <1>8, ToSetConcat
<1>11. CASE Complete(cells)
  <2>1. Kept(text, cells) = <<>> /\ Whole(cells) = cells
    BY <1>11 DEF Kept, Complete
  <2>2. a \o text \in Seq(Plain) /\ (a \o text) \o <<>> = a \o text
    BY <1>3, ConcatProperties, ConcatEmptySeq
  <2>3. loaded \o Parse(a \o text) = (loaded \o Parse(a)) \o cells
    <3>1. (loaded \o Parse(a)) \o cells = loaded \o (Parse(a) \o cells)
      BY <1>8, <1>h
    <3> QED BY <1>5, <3>1 DEF cells
  <2>4. ToSet(loaded \o Parse(a \o text)) \subseteq ToSet(more)
    <3>1. ToSet(loaded \o Parse(a \o text)) = ToSet(loaded \o Parse(a)) \cup ToSet(cells)
      <4> DEFINE x == loaded \o Parse(a)
      <4>1. x \in Seq(Readings)
        BY <1>8, ConcatProperties
      <4>2. loaded \o Parse(a \o text) = x \o cells
        BY <2>3
      <4> HIDE DEF x
      <4>3. ToSet(x \o cells) = ToSet(x) \cup ToSet(cells)
        BY <1>8, <4>1, ToSetConcat
      <4> QED BY <4>2, <4>3 DEF x
    <3>2. ToSet(loaded \o Parse(a)) \subseteq ToSet(ev)
      BY DEF ReadOn
    <3> QED BY <1>10, <2>1, <3>1, <3>2
  <2>5. (\A k \in 1..Len(w) : ~Opens(w, k)) =>
          more = loaded \o Parse(a \o text) /\ Whole(Parse(<<>>)) = <<>>
    BY <1>9, <2>1, <2>3, ParseEmpty, WholeEmpty DEF ReadOn, n
  <2>6. ReadOn(a \o text, w, <<>>, more, loaded)
    BY <1>1, <1>5, <1>7, <1>11, <2>2, <2>4, <2>5 DEF ReadOn, Apart
  <2>7. <<>> \in Seq(Plain)
    OBVIOUS
  <2> QED BY <2>1, <2>2, <2>6, <2>7 DEF w, cells
<1>12. CASE ~Complete(cells)
  <2>1. Kept(text, cells) = text
    BY <1>12 DEF Kept
  <2>2. ToSet(loaded \o Parse(a)) \subseteq ToSet(more)
    BY <1>10 DEF ReadOn
  <2>3. ASSUME \A k \in 1..Len(w) : ~Opens(w, k)
        PROVE  more = loaded \o Parse(a) /\ Whole(cells) = <<>>
    <3>1. ev = loaded \o Parse(a) /\ Whole(Parse(cur)) = <<>> /\ ~Opens(w, n + 1)
      BY <1>9, <2>3 DEF ReadOn, n
    <3>2. Parse(a) \o Whole(cells) = Parse(a) \o Whole(Parse(cur))
      <4>1. (n + 1) - 1 = n
        BY <1>1
      <4> QED BY <1>5, <1>6, <1>7, <1>12, <3>1, <4>1 DEF Opens
    <3>3. Parse(a) \o Whole(cells) = Parse(a)
      BY <1>8, <3>1, <3>2, ConcatEmptySeq
    <3>4. Whole(cells) = <<>>
      BY <1>8, <3>3, ConcatEqualIffEmpty
    <3> QED BY <1>8, <3>1, <3>4, ConcatEmptySeq
  <2>4. ReadOn(a, w, text, more, loaded)
    BY <1>1, <1>4, <1>7, <1>12, <2>2, <2>3 DEF ReadOn, cells
  <2> QED BY <1>3, <2>1, <2>4 DEF w, cells
<1> QED BY <1>11, <1>12

-----------------------------------------------------------------------------
(* As long as all lines are regular, what has been evaluated are the forms *)
(* of a text a, and what is kept is the text behind it.                    *)
EachRead ==
  /\ file \in Files /\ typed \in Seq(Lines)
  /\ loading => typed = <<>> /\ curLine = <<>> /\ evaluated = <<>>
  /\ alive /\ ~loading /\ typed \in Seq(Regulars) =>
       /\ curLine \in Seq(Plain) /\ evaluated \in Seq(Readings)
       /\ \E a \in Seq(Plain) : ReadOn(a, typed, curLine, evaluated, Loaded)

LEMMA FileIs ==
  ASSUME file \in Files
  PROVE  /\ Loaded \in Seq(Readings)
         /\ file # Missing => Parse(file) \in Seq(Readings) /\ Loaded = Whole(Parse(file))
<1>1. CASE file = Missing
  <2>1. Loaded = <<>>
    BY <1>1 DEF Loaded
  <2> QED BY <1>1, <2>1
<1>2. CASE file # Missing
  <2>1. file \in Seq(Chars)
    BY <1>2, ReplAssumption, CharsAre
  <2> QED BY <1>2, <2>1, ParseIs DEF Loaded
<1> QED BY <1>1, <1>2

LEMMA StartOn ==
  ASSUME NEW loaded \in Seq(Readings)
  PROVE  ReadOn(<<>>, <<>>, <<>>, loaded, loaded)
<1>1. Text(<<>>, 0) = <<>>
  <2> DEFINE f == [k \in 1..0 |-> Added(<<>>[k])]
  <2>1. f = <<>>
    OBVIOUS
  <2> HIDE DEF f
  <2>2. FlattenSeq(f) = <<>>
    BY <2>1 DEF FlattenSeq
  <2> QED BY <2>2 DEF Text, f
<1>2. /\ Parse(<<>>) = <<>> /\ Whole(Parse(<<>>)) = <<>> /\ Complete(Parse(<<>>))
  BY ParseEmpty, WholeEmpty
<1>3. loaded \o <<>> = loaded /\ <<>> \o <<>> = <<>> /\ Len(<<>>) = 0
  BY ConcatEmptySeq
<1> QED BY <1>1, <1>2, <1>3 DEF ReadOn, Apart

LEMMA TypedIs ==
  ASSUME EachRead, NEW line \in Lines, Typed(line)
  PROVE  /\ typed' = Append(typed, line) /\ typed' \in Seq(Lines)
         /\ file' = file /\ loading' = FALSE /\ Loaded' = Loaded
         /\ typed' \in Seq(Regulars) =>
              /\ typed \in Seq(Regulars) /\ line \in Regulars /\ in' = line
              /\ curLine \in Seq(Plain) /\ evaluated \in Seq(Readings)
              /\ \E a \in Seq(Plain) : ReadOn(a, typed, curLine, evaluated, Loaded)
<1> DEFINE n == Len(typed)
<1>1. /\ typed' = Append(typed, line) /\ typed' \in Seq(Lines)
      /\ n \in Nat /\ Len(typed') = n + 1 /\ typed'[n + 1] = line
      /\ \A k \in 1..n : typed'[k] = typed[k]
  BY AppendProperties DEF Typed, EachRead
<1>2. file' = file /\ loading' = FALSE /\ Loaded' = Loaded /\ alive /\ ~loading
  BY DEF Typed, Loaded
<1>3. ASSUME typed' \in Seq(Regulars)
      PROVE  typed \in Seq(Regulars) /\ line \in Regulars /\ in' = line
  <2>1. \A k \in 1..(n + 1) : typed'[k] \in Regulars
    BY <1>1, <1>3, ElementOfSeq
  <2>2. line \in Regulars /\ \A k \in 1..n : typed[k] \in Regulars
    BY <1>1, <2>1
  <2>3. typed \in [1..n -> Regulars]
    BY <2>2, LenProperties DEF EachRead
  <2>4. typed \in Seq(Regulars)
    BY <1>1, <2>3, SequenceOfLength
  <2> QED BY <2>2, <2>4 DEF Typed, Regulars, Regular
<1> QED BY <1>1, <1>2, <1>3 DEF EachRead

LEMMA LineReads ==
  ASSUME PlainLines, NEW line \in Regulars, NEW cur \in Seq(Plain), NEW ev \in Seq(Readings)
  PROVE  ev \o Whole(Parse(cur \o <<Blank>> \o line)) \in Seq(Readings)
<1>1. cur \in Seq(Chars) /\ line \in Seq(Chars) /\ <<Blank>> \in Seq(Chars)
  BY ReplAssumption, PlainBlank, CharsAre DEF Regulars
<1>2. cur \o <<Blank>> \o line \in Seq(Chars)
  BY <1>1, ConcatProperties
<1>3. Whole(Parse(cur \o <<Blank>> \o line)) \in Seq(Readings)
  BY <1>2, ParseIs
<1> QED BY <1>3, ConcatProperties

LEMMA EachReadStep == PlainLines /\ EachRead /\ [Next]_vars => EachRead'
<1> SUFFICES ASSUME PlainLines, EachRead, [Next]_vars PROVE EachRead'
  OBVIOUS
<1>1. ASSUME NEW line \in Lines, SkipComment(line) PROVE EachRead'
  <2>1. Typed(line) /\ curLine' = curLine /\ evaluated' = evaluated
    BY <1>1 DEF SkipComment
  <2>2. ASSUME typed' \in Seq(Regulars)
        PROVE  /\ curLine' \in Seq(Plain) /\ evaluated' \in Seq(Readings)
               /\ \E a \in Seq(Plain) : ReadOn(a, typed', curLine', evaluated', Loaded')
    <3>1. line \in Regulars /\ typed \in Seq(Regulars) /\ IsComment(line)
      BY <1>1, <2>1, <2>2, TypedIs DEF SkipComment
    <3>2. PICK a \in Seq(Plain) : ReadOn(a, typed, curLine, evaluated, Loaded)
      BY <2>1, <2>2, TypedIs
    <3>3. curLine \in Seq(Plain) /\ evaluated \in Seq(Readings)
      BY <2>1, <2>2, TypedIs
    <3>4. ReadOn(a, Append(typed, line), curLine, evaluated, Loaded)
      BY <3>1, <3>2, <3>3, CommentOn
    <3>5. ReadOn(a, typed', curLine', evaluated', Loaded')
      BY <2>1, <3>4, TypedIs
    <3> QED BY <2>1, <3>3, <3>5
  <2> QED BY <2>1, <2>2, TypedIs DEF EachRead
<1>2. ASSUME NEW line \in Lines, Evaluate(line) PROVE EachRead'
  <2> DEFINE text == curLine \o <<Blank>> \o line
  <2>1. Typed(line)
    BY <1>2 DEF Evaluate
  <2>2. ASSUME typed' \in Seq(Regulars)
        PROVE  /\ curLine' \in Seq(Plain) /\ evaluated' \in Seq(Readings)
               /\ \E a \in Seq(Plain) : ReadOn(a, typed', curLine', evaluated', Loaded')
    <3>1. /\ line \in Regulars /\ typed \in Seq(Regulars) /\ in' = line
          /\ curLine \in Seq(Plain) /\ evaluated \in Seq(Readings)
      BY <2>1, <2>2, TypedIs
    <3>2. /\ ~IsComment(line)
          /\ evaluated' = evaluated \o Whole(Parse(text))
          /\ curLine' = Kept(text, Parse(text))
      BY <1>2, <3>1 DEF Evaluate, Collected
    <3>3. PICK a \in Seq(Plain) : ReadOn(a, typed, curLine, evaluated, Loaded)
      BY <2>1, <2>2, TypedIs
    <3>4. Loaded \in Seq(Readings)
      BY FileIs DEF EachRead
    <3>5. /\ curLine' \in Seq(Plain)
          /\ \E a2 \in Seq(Plain) : ReadOn(a2, Append(typed, line), curLine', evaluated', Loaded)
      BY <3>1, <3>2, <3>3, <3>4, LineOn
    <3>6. PICK a2 \in Seq(Plain) : ReadOn(a2, Append(typed, line), curLine', evaluated', Loaded)
      BY <3>5
    <3>7. ReadOn(a2, typed', curLine', evaluated', Loaded')
      BY <2>1, <3>6, TypedIs
    <3>8. evaluated' \in Seq(Readings)
      BY <3>1, <3>2, LineReads
    <3> QED BY <3>5, <3>7, <3>8
  <2> HIDE DEF text
  <2> QED BY <2>1, <2>2, TypedIs DEF EachRead
<1>3. ASSUME NEW line \in Lines, Crash(line) PROVE EachRead'
  <2>1. Typed(line) /\ alive' = FALSE
    BY <1>3 DEF Crash
  <2> QED BY <2>1, TypedIs DEF EachRead
<1>4. ASSUME LoadFile PROVE EachRead'
  <2> DEFINE cells == IF file = Missing THEN <<>> ELSE Parse(file)
  <2>1. /\ file' = file /\ curLine' = <<>> /\ typed' = <<>> /\ evaluated = <<>>
        /\ evaluated' = evaluated \o Whole(cells)
        /\ loading' = (file = Missing)
    BY <1>4 DEF LoadFile, EachRead
  <2>2. Loaded' = Loaded
    BY <2>1 DEF Loaded
  <2>3. Whole(cells) = Loaded
    BY WholeEmpty DEF Loaded
  <2> HIDE DEF cells
  <2>4. Loaded \in Seq(Readings)
    BY FileIs DEF EachRead
  <2>5. evaluated' = Loaded
    BY <2>1, <2>3, <2>4, ConcatEmptySeq
  <2>6. loading' => evaluated' = <<>>
    BY <2>1, <2>5 DEF Loaded
  <2>7. ReadOn(<<>>, typed', curLine', evaluated', Loaded')
    BY <2>1, <2>2, <2>4, <2>5, StartOn
  <2>8. <<>> \in Seq(Plain) /\ <<>> \in Seq(Lines)
    OBVIOUS
  <2> QED BY <2>1, <2>4, <2>5, <2>6, <2>7, <2>8 DEF EachRead
<1>5. CASE Goodbye
  BY <1>5 DEF Goodbye, EachRead, Loaded
<1>6. CASE UNCHANGED vars
  BY <1>6 DEF vars, EachRead, Loaded
<1> QED BY <1>1, <1>2, <1>3, <1>4, <1>5, <1>6 DEF Next

LEMMA EachReadAlways == PlainLines => (Spec => []EachRead)
<1> SUFFICES ASSUME PlainLines PROVE Spec => []EachRead
  OBVIOUS
<1>1. Init => EachRead
  BY DEF Init, EachRead
<1>2. EachRead /\ [Next]_vars => EachRead'
  BY EachReadStep
<1> QED BY <1>1, <1>2, PTL DEF Spec

(* The lines typed are regular if each of them is. *)
LEMMA RegularsTyped ==
  ASSUME typed \in Seq(Lines), \A k \in 1..Len(typed) : Regular(typed[k])
  PROVE  typed \in Seq(Regulars)
<1>1. \A k \in 1..Len(typed) : typed[k] \in Regulars
  BY ElementOfSeq DEF Regulars
<1>2. typed \in [1..Len(typed) -> Regulars] /\ Len(typed) \in Nat
  BY <1>1, LenProperties
<1> QED BY <1>2, SequenceOfLength

(* What is closed of the program so far. *)
LEMMA FormsAre ==
  ASSUME NEW a \in Seq(Plain), curLine \in Seq(Plain), file \in Files,
         ReadOn(a, typed, curLine, evaluated, Loaded),
         Whole(Parse(curLine)) = <<>>
  PROVE  Forms = Loaded \o Parse(a)
<1>1. Program(Len(typed)) = a \o curLine
  BY DEF ReadOn, Program, Text
<1>2. Whole(Parse(a \o curLine)) = Parse(a) \o Whole(Parse(curLine))
  BY ParseConcat DEF ReadOn
<1>3. Parse(a) \in Seq(Readings)
  BY PlainBlank, ParseIs
<1>4. Parse(a) \o <<>> = Parse(a)
  BY <1>3, ConcatEmptySeq
<1> QED BY <1>1, <1>2, <1>4 DEF Forms

(* Whatever lines are typed, if they have no quotes and strings: as long as *)
(* none was empty, none had a ; behind code and none closed a form and then *)
(* opened one, what has been evaluated are the forms of the program, each   *)
(* once and in their order (the loop of main and evalHelper in llisp.cpp).  *)
(* For the lines that are excepted it does not hold: see EachFormOnce.      *)
THEOREM FormsOnce == PlainLines => (Spec => []EachFormOnce)
<1> SUFFICES ASSUME PlainLines PROVE Spec => []EachFormOnce
  OBVIOUS
<1>1. EachRead => EachFormOnce
  <2> SUFFICES ASSUME EachRead, alive, ~loading,
                      \A k \in 1..Len(typed) :
                        typed[k] # <<>> /\ ~Remarked(typed[k]) /\ ~ClosesThenOpens(k)
               PROVE  evaluated = Forms
    BY DEF EachFormOnce
  <2>1. typed \in Seq(Regulars)
    BY RegularsTyped DEF EachRead, Regular
  <2>2. PICK a \in Seq(Plain) : ReadOn(a, typed, curLine, evaluated, Loaded)
    BY <2>1 DEF EachRead
  <2>3. \A k \in 1..Len(typed) : ~Opens(typed, k)
    BY DEF ClosesThenOpens, Opens, Program, Text
  <2>4. evaluated = Loaded \o Parse(a) /\ Whole(Parse(curLine)) = <<>>
    BY <2>2, <2>3 DEF ReadOn
  <2> QED BY <2>1, <2>2, <2>4, FormsAre DEF EachRead
<1> QED BY <1>1, EachReadAlways, PTL

(* Of lines without quotes and strings, none of which is empty, none is     *)
(* lost: as long as none had a ; behind code, every form of the file and of *)
(* the lines has been evaluated at a prompt where no text is kept, also     *)
(* where lines close a form and open another (evalHelper in llisp.cpp).     *)
THEOREM FormsKept == PlainLines /\ <<>> \notin Lines => (Spec => []NoneLost)
<1> SUFFICES ASSUME PlainLines, <<>> \notin Lines PROVE Spec => []NoneLost
  OBVIOUS
<1>1. EachRead => NoneLost
  <2> SUFFICES ASSUME EachRead, alive, ~loading, curLine = <<>>,
                      \A k \in 1..Len(typed) : ~Remarked(typed[k])
               PROVE  ToSet(Forms) \subseteq ToSet(evaluated)
    BY DEF NoneLost
  <2>1. typed \in Seq(Regulars)
    <3>1. \A k \in 1..Len(typed) : typed[k] \in Lines
      BY ElementOfSeq DEF EachRead
    <3> QED BY <3>1, RegularsTyped DEF EachRead, Regular
  <2>2. PICK a \in Seq(Plain) : ReadOn(a, typed, curLine, evaluated, Loaded)
    BY <2>1 DEF EachRead
  <2>3. Whole(Parse(curLine)) = <<>>
    BY ParseEmpty, WholeEmpty
  <2> QED BY <2>1, <2>2, <2>3, FormsAre DEF EachRead, ReadOn
<1> QED BY <1>1, EachReadAlways, PTL
=============================================================================
