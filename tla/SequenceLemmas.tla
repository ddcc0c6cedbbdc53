--------------------------- MODULE SequenceLemmas ---------------------------
(***************************************************************************)
(* Lists without repetitions, which the pool of endpoints and the list of  *)
(* networks are: what removing from them, cutting them and adding to them  *)
(* does to their elements.  And texts: induction on them, recursion from   *)
(* their end, and the concatenation of their pieces.                       *)
(***************************************************************************)
EXTENDS SequencesExt, SequenceTheorems, WellFoundedInduction, TLAPS

\* A set of numbers has a least one.
LEMMA MinNat ==
    ASSUME NEW T \in SUBSET Nat, T # {}
    PROVE  Min(T) \in T /\ \A m \in T : Min(T) <= m
<1> DEFINE Less == {ss \in Nat \X Nat : ss[1] < ss[2]}
<1>1. IsWellFoundedOn(Less, Nat)
    BY NatLessThanWellFounded DEF OpToRel
<1>2. PICK n \in T : \A m \in T : <<m, n>> \notin Less
    <2> HIDE DEF Less
    <2> QED
        BY <1>1, WFMin
<1>3. \A m \in T : n <= m
    <2> SUFFICES ASSUME NEW m \in T, m < n PROVE FALSE
        OBVIOUS
    <2>1. <<m, n>> \in Less
        OBVIOUS
    <2> QED
        BY <1>2, <2>1
<1> QED
    BY <1>3 DEF Min

\* The elements of a list whose i-th place is closed up.
LEMMA WithoutOne ==
    ASSUME NEW n \in Nat, NEW i \in 1..n, NEW s, NEW t,
           DOMAIN s = 1..n, IsInjective(s), DOMAIN t = 1..(n - 1),
           \A j \in 1..(n - 1) : t[j] = IF j < i THEN s[j] ELSE s[j + 1]
    PROVE  ToSet(t) = ToSet(s) \ {s[i]} /\ IsInjective(t)
<1>1. IsInjective(t)
    BY DEF IsInjective
<1>2. \A j \in 1..(n - 1) : \E l \in 1..n : l # i /\ t[j] = s[l]
    OBVIOUS
<1>3. \A l \in 1..n : l # i => \E j \in 1..(n - 1) : t[j] = s[l]
    <2> SUFFICES ASSUME NEW l \in 1..n, l # i
                 PROVE  \E j \in 1..(n - 1) : t[j] = s[l]
        OBVIOUS
    <2>1. CASE l < i
        BY <2>1
    <2>2. CASE l > i
        <3>1. l - 1 \in 1..(n - 1) /\ t[l - 1] = s[l]
            BY <2>2
        <3> QED
            BY <3>1
    <2> QED
        BY <2>1, <2>2
<1>4. ToSet(t) = {t[j] : j \in 1..(n - 1)} /\ ToSet(s) = {s[j] : j \in 1..n}
    BY DEF ToSet
<1>5. \A l \in 1..n : s[l] = s[i] => l = i
    BY DEF IsInjective
<1>6. \A x : x \in ToSet(t) => x \in ToSet(s) \ {s[i]}
    BY <1>2, <1>4, <1>5
<1>7. \A x : x \in ToSet(s) \ {s[i]} => x \in ToSet(t)
    BY <1>3, <1>4
<1> QED
    BY <1>1, <1>6, <1>7

\* RemoveAt takes one element away and keeps the others apart.
LEMMA RemoveAtElements ==
    ASSUME NEW S, NEW s \in Seq(S), IsInjective(s), NEW i \in 1..Len(s)
    PROVE  /\ RemoveAt(s, i) \in Seq(S)
           /\ Len(RemoveAt(s, i)) = Len(s) - 1
           /\ ToSet(RemoveAt(s, i)) = ToSet(s) \ {s[i]}
           /\ IsInjective(RemoveAt(s, i))
<1> DEFINE n == Len(s)
           u == SubSeq(s, 1, i - 1)
           v == SubSeq(s, i + 1, n)
           t == RemoveAt(s, i)
<1>1. n \in Nat /\ DOMAIN s = 1..n /\ \A j \in 1..n : s[j] \in S
    BY LenProperties, ElementOfSeq
<1>2. i \in 1..n /\ t = u \o v
    BY DEF RemoveAt
<1> HIDE DEF n, t
<1>3. /\ u \in Seq(S) /\ Len(u) = IF 1 <= i - 1 THEN i - 1 - 1 + 1 ELSE 0
      /\ \A j \in 1..(i - 1 - 1 + 1) : u[j] = s[1 + j - 1]
    <2>1. i - 1 \in Int /\ \A j \in 1..(i - 1) : s[j] \in S
        BY <1>1, <1>2
    <2> QED
        BY <2>1, SubSeqProperties
<1>4. /\ v \in Seq(S) /\ Len(v) = IF i + 1 <= n THEN n - (i + 1) + 1 ELSE 0
      /\ \A j \in 1..(n - (i + 1) + 1) : v[j] = s[(i + 1) + j - 1]
    <2>1. i + 1 \in Int /\ n \in Int /\ \A j \in (i + 1)..n : s[j] \in S
        BY <1>1, <1>2
    <2> QED
        BY <2>1, SubSeqProperties
<1> HIDE DEF u, v
<1> DEFINE lu == Len(u)  lv == Len(v)
<1>5. /\ t \in Seq(S) /\ Len(t) = lu + lv
      /\ \A j \in 1..(lu + lv) : t[j] = IF j <= lu THEN u[j] ELSE v[j - lu]
    BY <1>2, <1>3, <1>4, ConcatProperties
<1>6. Len(t) \in Nat /\ DOMAIN t = 1..Len(t)
    BY <1>5, LenProperties
<1>7. /\ lu = IF 1 <= i - 1 THEN i - 1 - 1 + 1 ELSE 0
      /\ lv = IF i + 1 <= n THEN n - (i + 1) + 1 ELSE 0
    BY <1>3, <1>4
<1> DEFINE lt == Len(t)
<1>8. lt = lu + lv
    BY <1>5
<1> HIDE DEF lu, lv, lt
<1>9. lu = i - 1 /\ lv = n - i /\ lt = n - 1
    BY <1>1, <1>2, <1>7, <1>8
<1>10. \A j \in 1..(n - 1) : t[j] = IF j < i THEN s[j] ELSE s[j + 1]
    <2> TAKE j \in 1..(n - 1)
    <2>1. CASE j < i
        <3>1. j \in 1..(i - 1 - 1 + 1) /\ 1 + j - 1 = j /\ j <= lu /\ j \in 1..(lu + lv)
            BY <1>1, <1>2, <1>9, <2>1
        <3> QED
            BY <1>3, <1>5, <2>1, <3>1
    <2>2. CASE ~(j < i)
        <3> DEFINE l == j - lu
        <3>1. /\ l \in 1..(n - (i + 1) + 1) /\ (i + 1) + l - 1 = j + 1
              /\ ~(j <= lu) /\ j \in 1..(lu + lv)
            BY <1>1, <1>2, <1>9, <2>2
        <3>2. t[j] = v[l]
            BY <1>5, <3>1
        <3> HIDE DEF l
        <3> QED
            BY <1>4, <2>2, <3>1, <3>2
    <2> QED
        BY <2>1, <2>2
<1>11. DOMAIN t = 1..(n - 1) /\ Len(t) = n - 1
    BY <1>6, <1>9 DEF lt
<1>12. ToSet(t) = ToSet(s) \ {s[i]} /\ IsInjective(t)
    <2>1. n \in Nat /\ i \in 1..n /\ DOMAIN s = 1..n /\ DOMAIN t = 1..(n - 1)
        BY <1>1, <1>2, <1>11
    <2> QED
        BY <1>10, <2>1, WithoutOne, Zenon
<1> QED
    BY <1>5, <1>11, <1>12 DEF t, n

\* RemoveFirst takes the element away wherever it is.
LEMMA RemoveFirstElements ==
    ASSUME NEW S, NEW s \in Seq(S), IsInjective(s), NEW e
    PROVE  /\ RemoveFirst(s, e) \in Seq(S)
           /\ ToSet(RemoveFirst(s, e)) = ToSet(s) \ {e}
           /\ IsInjective(RemoveFirst(s, e))
<1>1. CASE \E j \in 1..Len(s): s[j] = e
    <2> DEFINE I == {j \in 1..Len(s) : s[j] = e}
               i == Min(I)
    <2>1. PICK j \in 1..Len(s) : s[j] = e
      BY <1>1
    <2>2. I = {j}
      BY <2>1 DEF IsInjective
    <2>3. i = j
      BY <2>1, <2>2 DEF Min
    <2>4. RemoveFirst(s, e) = RemoveAt(s, j)
      BY <1>1, <2>2, <2>3 DEF RemoveFirst, SelectInSeq
    <2> QED BY <2>1, <2>4, RemoveAtElements
<1>2. CASE ~ \E j \in 1..Len(s): s[j] = e
    BY <1>2 DEF RemoveFirst, ToSet
<1> QED
    BY <1>1, <1>2

\* Cutting a list in two divides its elements.
LEMMA CutElements ==
    ASSUME NEW S, NEW s \in Seq(S), IsInjective(s), NEW i \in 0..Len(s)
    PROVE  LET front == SubSeq(s, 1, i)
               rest == SubSeq(s, i + 1, Len(s))
           IN /\ rest \in Seq(S) /\ IsInjective(rest)
              /\ ToSet(front) \subseteq ToSet(s)
              /\ ToSet(rest) = ToSet(s) \ ToSet(front)
<1> DEFINE n == Len(s)
           u == SubSeq(s, 1, i)
           v == SubSeq(s, i + 1, n)
<1>1. n \in Nat /\ DOMAIN s = 1..n /\ \A j \in 1..n : s[j] \in S
    BY LenProperties, ElementOfSeq
<1>2. i \in 0..n
    OBVIOUS
<1> HIDE DEF n
<1>3. /\ u \in Seq(S) /\ Len(u) = IF 1 <= i THEN i - 1 + 1 ELSE 0
      /\ \A j \in 1..(i - 1 + 1) : u[j] = s[1 + j - 1]
    <2>1. i \in Int /\ \A j \in 1..i : s[j] \in S
        BY <1>1, <1>2
    <2> QED
        BY <2>1, SubSeqProperties
<1>4. /\ v \in Seq(S) /\ Len(v) = IF i + 1 <= n THEN n - (i + 1) + 1 ELSE 0
      /\ \A j \in 1..(n - (i + 1) + 1) : v[j] = s[(i + 1) + j - 1]
    <2>1. i + 1 \in Int /\ n \in Int /\ \A j \in (i + 1)..n : s[j] \in S
        BY <1>1, <1>2
    <2> QED
        BY <2>1, SubSeqProperties
<1> HIDE DEF u, v
<1>5. DOMAIN u = 1..Len(u) /\ DOMAIN v = 1..Len(v)
    BY <1>3, <1>4, LenProperties
<1> DEFINE lu == Len(u)  lv == Len(v)
<1>6. /\ lu = IF 1 <= i THEN i - 1 + 1 ELSE 0
      /\ lv = IF i + 1 <= n THEN n - (i + 1) + 1 ELSE 0
    BY <1>3, <1>4
<1> HIDE DEF lu, lv
<1>7. lu = i /\ lv = n - i
    BY <1>1, <1>2, <1>6
<1>8. DOMAIN u = 1..i /\ DOMAIN v = 1..(n - i)
    BY <1>5, <1>7 DEF lu, lv
<1>9. \A j \in 1..i : u[j] = s[j]
    <2> TAKE j \in 1..i
    <2>1. j \in 1..(i - 1 + 1) /\ 1 + j - 1 = j
        BY <1>2
    <2> QED
        BY <1>3, <2>1
<1>10. \A j \in 1..(n - i) : v[j] = s[i + j]
    <2> TAKE j \in 1..(n - i)
    <2>1. j \in 1..(n - (i + 1) + 1) /\ (i + 1) + j - 1 = i + j
        BY <1>1, <1>2
    <2> QED
        BY <1>4, <2>1
<1>11. IsInjective(v)
    BY <1>1, <1>2, <1>8, <1>10 DEF IsInjective
<1>12. /\ ToSet(u) = {u[j] : j \in 1..i} /\ ToSet(v) = {v[j] : j \in 1..(n - i)}
       /\ ToSet(s) = {s[j] : j \in 1..n}
    BY <1>1, <1>8 DEF ToSet
<1>13. ToSet(u) \subseteq ToSet(s)
    BY <1>1, <1>2, <1>9, <1>12
<1>14. ASSUME NEW x \in ToSet(s) \ ToSet(u) PROVE x \in ToSet(v)
    <2>1. PICK l \in 1..n : s[l] = x
        BY <1>12
    <2>2. l \notin 1..i
        BY <1>9, <1>12, <2>1
    <2>3. l - i \in 1..(n - i) /\ i + (l - i) = l
        BY <1>1, <1>2, <2>2
    <2>4. v[l - i] = x
        BY <1>10, <2>1, <2>3
    <2> QED
        BY <1>12, <2>3, <2>4
<1>15. ASSUME NEW x \in ToSet(v) PROVE x \in ToSet(s) \ ToSet(u)
    <2>1. PICK j \in 1..(n - i) : v[j] = x
        BY <1>12
    <2>2. i + j \in 1..n /\ i + j \notin 1..i /\ s[i + j] = x
        BY <1>1, <1>2, <1>10, <2>1
    <2>3. \A l \in 1..i : l \in 1..n /\ (s[l] = s[i + j] => l = i + j)
        BY <1>1, <1>2, <2>2 DEF IsInjective
    <2> QED
        BY <1>9, <1>12, <2>2, <2>3
<1> QED
    BY <1>4, <1>11, <1>13, <1>14, <1>15 DEF u, v, n

\* Append puts one more element into a list.
LEMMA AppendElements ==
    ASSUME NEW S, NEW s \in Seq(S), NEW e \in S
    PROVE  /\ Append(s, e) \in Seq(S)
           /\ ToSet(Append(s, e)) = ToSet(s) \cup {e}
           /\ IsInjective(s) /\ e \notin ToSet(s) => IsInjective(Append(s, e))
<1> DEFINE n == Len(s)
           t == Append(s, e)
<1>1. n \in Nat /\ DOMAIN s = 1..n
    BY LenProperties
<1>2. /\ t \in Seq(S) /\ Len(t) = n + 1
      /\ \A j \in 1..n : t[j] = s[j]
      /\ t[n + 1] = e
    BY AppendProperties
<1> HIDE DEF n, t
<1>3. DOMAIN t = 1..(n + 1)
    BY <1>2, LenProperties
<1>4. /\ ToSet(s) = {s[j] : j \in 1..n} /\ ToSet(t) = {t[j] : j \in 1..(n + 1)}
    BY <1>1, <1>3 DEF ToSet
<1>5. ToSet(t) = ToSet(s) \cup {e}
    BY <1>1, <1>2, <1>4
<1>6. IsInjective(s) /\ e \notin ToSet(s) => IsInjective(t)
    BY <1>1, <1>2, <1>3, <1>4 DEF IsInjective
<1> QED
    BY <1>2, <1>5, <1>6 DEF t

(***************************************************************************)
(* Induction and recursion on sequences.                                   *)
(***************************************************************************)

\* Induction on numbers, for a property given as the set of the numbers that
\* have it.
LEMMA NatSetInduction ==
    ASSUME NEW X, 0 \in X, \A n \in Nat : n \in X => n + 1 \in X
    PROVE  Nat \subseteq X
<1> SUFFICES ASSUME NEW n \in Nat, n \notin X PROVE FALSE
    OBVIOUS
<1> DEFINE N == Nat \ X
<1>1. N \in SUBSET Nat /\ N # {}
    OBVIOUS
<1>2. PICK m \in N : \A k \in N : m <= k
    <2> HIDE DEF N
    <2> QED
        BY <1>1, MinNat
<1>3. m # 0 /\ m - 1 \in Nat
    OBVIOUS
<1>4. m - 1 \in X
    BY <1>2, <1>3
<1>5. m - 1 + 1 = m
    BY <1>3
<1> QED
    BY <1>3, <1>4, <1>5

\* An element put before a sequence shifts the places of the others.
LEMMA ConsProperties ==
    ASSUME NEW S, NEW c \in S, NEW t \in Seq(S)
    PROVE  /\ Cons(c, t) \in Seq(S)
           /\ Len(Cons(c, t)) = Len(t) + 1
           /\ DOMAIN Cons(c, t) = 1..(Len(t) + 1)
           /\ Cons(c, t)[1] = c
           /\ \A i \in 1..Len(t) : Cons(c, t)[i + 1] = t[i]
           /\ Len(t) # 0 => Cons(c, t)[2] = t[1]
<1>1. <<c>> \in Seq(S) /\ Len(<<c>>) = 1 /\ <<c>>[1] = c
    OBVIOUS
<1>2. Len(t) \in Nat
    BY LenProperties
<1>3. /\ <<c>> \o t \in Seq(S) /\ Len(<<c>> \o t) = Len(t) + 1
      /\ \A i \in 1..(1 + Len(t)) :
           (<<c>> \o t)[i] = IF i <= 1 THEN <<c>>[i] ELSE t[i - 1]
    BY <1>1, <1>2, ConcatProperties
<1>4. DOMAIN (<<c>> \o t) = 1..(Len(t) + 1)
    BY <1>3, LenProperties
<1>5. \A i \in 1..Len(t) : i + 1 \in 1..(1 + Len(t)) /\ ~(i + 1 <= 1) /\ (i + 1) - 1 = i
    BY <1>2
<1>6. \A i \in 1..Len(t) : (<<c>> \o t)[i + 1] = t[i]
    BY <1>3, <1>5
<1>7. Len(t) # 0 => 1 \in 1..Len(t) /\ 1 + 1 = 2
    BY <1>2
<1>8. Len(t) # 0 => (<<c>> \o t)[2] = t[1]
    BY <1>6, <1>7
<1> QED
    BY <1>2, <1>3, <1>4, <1>6, <1>8 DEF Cons

\* The part of it that says nothing of the places.
LEMMA ConsInSeq ==
    ASSUME NEW S, NEW c \in S, NEW t \in Seq(S)
    PROVE  Cons(c, t) \in Seq(S)
BY ConsProperties

\* The part of it that makes no new sequence.
LEMMA ConsElements ==
    ASSUME NEW S, NEW c \in S, NEW t \in Seq(S)
    PROVE  /\ Len(Cons(c, t)) = Len(t) + 1
           /\ Cons(c, t)[1] = c
           /\ \A i \in 1..Len(t) : Cons(c, t)[i + 1] = t[i]
           /\ Len(t) # 0 => Cons(c, t)[2] = t[1]
BY ConsProperties

\* Induction on sequences, from the end to the front, for a property given as
\* a set.
LEMMA SeqSetInduction ==
    ASSUME NEW S, NEW X, <<>> \in X,
           \A c \in S, t \in Seq(S) : t \in X => Cons(c, t) \in X
    PROVE  Seq(S) \subseteq X
<1> DEFINE N == {n \in Nat : \A s \in Seq(S) : Len(s) = n => s \in X}
<1>1. 0 \in N
    <2> SUFFICES ASSUME NEW s \in Seq(S), Len(s) = 0 PROVE s \in X
        OBVIOUS
    <2> QED
        BY EmptySeq
<1>2. ASSUME NEW n \in Nat, n \in N PROVE n + 1 \in N
    <2> SUFFICES ASSUME NEW s \in Seq(S), Len(s) = n + 1 PROVE s \in X
        OBVIOUS
    <2> DEFINE t == SubSeq(s, 2, Len(s))
    <2>1. s[1] \in S
        BY ElementOfSeq
    <2>2. t \in Seq(S) /\ Len(t) = n
        <3>1. \A i \in 2..Len(s) : s[i] \in S
            BY ElementOfSeq
        <3> QED
            BY <3>1, SubSeqProperties
    <2>3. s = Cons(s[1], t)
        BY SubSeqFull, SubSeqRecursiveFirst DEF Cons
    <2> HIDE DEF t
    <2> QED
        BY <1>2, <2>1, <2>2, <2>3
<1>3. Nat \subseteq N
    <2> HIDE DEF N
    <2> QED
        BY <1>1, <1>2, NatSetInduction
<1> QED
    BY <1>3, LenProperties

\* The functions on 1..(n + 2) whose value at a place comes from the two next
\* values.
Backward(n, V, base, step) ==
    {f \in [1..(n + 2) -> V] : \A k \in 1..(n + 2) :
       f[k] = IF k > n THEN base ELSE step[k][<<f[k + 1], f[k + 2]>>]}

\* There is one, so a definition by such a recursion has its equation.
LEMMA BackwardRecursion ==
    ASSUME NEW n \in Nat, NEW V, NEW base \in V, NEW step \in [1..n -> [V \X V -> V]]
    PROVE  Backward(n, V, base, step) # {}
<1> DEFINE D == 1..(n + 2)
           Good(f, k) == f[k] = IF k > n THEN base ELSE step[k][<<f[k + 1], f[k + 2]>>]
           From(m) == {f \in [D -> V] : \A k \in D : k > n - m => Good(f, k)}
           N == {m \in Nat : m <= n => From(m) # {}}
<1>1. 0 \in N
    <2> DEFINE f == [k \in D |-> base]
    <2>1. f \in [D -> V]
        OBVIOUS
    <2>2. \A k \in D : k > n - 0 => Good(f, k)
        OBVIOUS
    <2> HIDE DEF f
    <2>3. f \in From(0)
        BY <2>1, <2>2
    <2> QED
        BY <2>3
<1>2. ASSUME NEW m \in Nat, m \in N PROVE m + 1 \in N
    <2> SUFFICES ASSUME m + 1 <= n PROVE From(m + 1) # {}
        <3> HIDE DEF From
        <3> QED
            OBVIOUS
    <2>1. PICK f \in From(m) : TRUE
        <3> HIDE DEF From
        <3> QED
            BY <1>2
    <2>2. f \in [D -> V] /\ \A k \in D : k > n - m => Good(f, k)
        <3> HIDE DEF Good
        <3> QED
            BY <2>1
    <2> DEFINE j == n - m
               v == step[j][<<f[j + 1], f[j + 2]>>]
               g == [f EXCEPT ![j] = v]
    <2>3. j \in 1..n /\ j + 1 \in D /\ j + 2 \in D /\ j \in D
        OBVIOUS
    <2>4. v \in V
        <3>1. step[j] \in [V \X V -> V] /\ <<f[j + 1], f[j + 2]>> \in V \X V
            BY <2>2, <2>3
        <3> QED
            BY <3>1
    <2>5. v = step[j][<<f[j + 1], f[j + 2]>>]
        OBVIOUS
    <2> HIDE DEF v
    <2>6. g \in [D -> V]
        BY <2>2, <2>3, <2>4
    <2>7. g[j] = v /\ \A k \in D : k # j => g[k] = f[k]
        BY <2>2, <2>3
    <2> HIDE DEF g
    <2>8. ASSUME NEW k \in D, k > n - (m + 1) PROVE Good(g, k)
        <3>1. CASE k = j
            <4>1. g[j + 1] = f[j + 1] /\ g[j + 2] = f[j + 2] /\ ~(j > n)
                BY <2>3, <2>7
            <4> QED
                BY <3>1, <4>1, <2>5, <2>7
        <3>2. CASE k > n
            <4>1. k > n - m /\ k # j
                BY <3>2, <2>3
            <4>2. Good(f, k)
                <5> HIDE DEF Good
                <5> QED
                    BY <2>2, <4>1
            <4>3. f[k] = base /\ g[k] = f[k]
                BY <4>1, <4>2, <3>2, <2>7
            <4> QED
                BY <4>3, <3>2
        <3>3. CASE k # j /\ k <= n
            <4>1. k > j /\ k > n - m /\ k + 1 \in D /\ k + 2 \in D /\ k + 1 # j /\ k + 2 # j
                BY <3>3, <2>8
            <4>2. g[k] = f[k] /\ g[k + 1] = f[k + 1] /\ g[k + 2] = f[k + 2]
                <5> HIDE DEF j, D
                <5> QED
                    BY <2>7, <4>1, <3>3
            <4>3. Good(f, k)
                <5> HIDE DEF Good
                <5> QED
                    BY <2>2, <4>1
            <4> QED
                BY <4>2, <4>3
        <3> QED
            BY <2>3, <3>1, <3>2, <3>3
    <2>9. g \in From(m + 1)
        <3> HIDE DEF Good
        <3> QED
            BY <2>6, <2>8
    <2> QED
        BY <2>9
<1>3. Nat \subseteq N
    <2> HIDE DEF N
    <2> QED
        BY <1>1, <1>2, NatSetInduction
<1>4. From(n) # {}
    <2> HIDE DEF From
    <2> QED
        BY <1>3
<1>5. PICK f \in From(n) : TRUE
    <2> HIDE DEF From
    <2> QED
        BY <1>4
<1>6. \A k \in D : Good(f, k)
    <2>1. \A k \in D : k > n - n
        OBVIOUS
    <2> HIDE DEF Good
    <2> QED
        BY <1>5, <2>1
<1>7. f \in Backward(n, V, base, step)
    BY <1>5, <1>6 DEF Backward
<1> QED
    BY <1>7

\* The concatenations that FlattenSeq goes through.
Flattened(ss) == CHOOSE f : f = [i \in 1..Len(ss) |-> IF i = 1 THEN ss[i] ELSE f[i - 1] \o ss[i]]

\* They are sequences, and each is the one before with a piece more.
LEMMA FlattenedProperties ==
    ASSUME NEW S, NEW ss \in Seq(Seq(S))
    PROVE  /\ Flattened(ss) \in [1..Len(ss) -> Seq(S)]
           /\ \A i \in 1..Len(ss) :
                Flattened(ss)[i] = IF i = 1 THEN ss[i] ELSE Flattened(ss)[i - 1] \o ss[i]
<1> DEFINE n == Len(ss)
           D == 1..n
           Good(f, i) == f[i] = IF i = 1 THEN ss[i] ELSE f[i - 1] \o ss[i]
           Upto(m) == {f \in [D -> Seq(S)] : \A i \in D : i <= m => Good(f, i)}
           N == {m \in Nat : m <= n => Upto(m) # {}}
<1>1. n \in Nat /\ \A i \in D : ss[i] \in Seq(S)
    BY LenProperties, ElementOfSeq
<1> HIDE DEF n
<1>2. 0 \in N
    <2> DEFINE f == [i \in D |-> ss[i]]
    <2>1. f \in [D -> Seq(S)] /\ \A i \in D : ~(i <= 0)
        BY <1>1
    <2> HIDE DEF f
    <2>2. f \in Upto(0)
        BY <2>1
    <2> QED
        BY <2>2
<1>3. ASSUME NEW m \in Nat, m \in N PROVE m + 1 \in N
    <2> SUFFICES ASSUME m + 1 <= n PROVE Upto(m + 1) # {}
        <3> HIDE DEF Upto
        <3> QED
            OBVIOUS
    <2>1. PICK f \in Upto(m) : TRUE
        <3>1. m <= n
            BY <1>1
        <3> HIDE DEF Upto
        <3> QED
            BY <1>3, <3>1
    <2>2. f \in [D -> Seq(S)] /\ \A i \in D : i <= m => Good(f, i)
        <3> HIDE DEF Good
        <3> QED
            BY <2>1
    <2> DEFINE j == m + 1
               v == IF j = 1 THEN ss[j] ELSE f[j - 1] \o ss[j]
               g == [f EXCEPT ![j] = v]
    <2>3. j \in D /\ (j # 1 => j - 1 \in D)
        BY <1>1
    <2>4. v \in Seq(S)
        BY <1>1, <2>2, <2>3, ConcatProperties
    <2>5. v = IF j = 1 THEN ss[j] ELSE f[j - 1] \o ss[j]
        OBVIOUS
    <2> HIDE DEF v
    <2>6. g \in [D -> Seq(S)] /\ g[j] = v /\ \A i \in D : i # j => g[i] = f[i]
        BY <2>2, <2>3, <2>4
    <2> HIDE DEF g
    <2>7. ASSUME NEW i \in D, i <= m + 1 PROVE Good(g, i)
        <3>1. CASE i = j
            <4>1. j # 1 => g[j - 1] = f[j - 1]
                BY <2>3, <2>6
            <4> QED
                BY <3>1, <4>1, <2>5, <2>6
        <3>2. CASE i # j
            <4>1. i <= m /\ i \in Nat /\ (i # 1 => i - 1 \in D /\ i - 1 # j)
                BY <1>1, <3>2, <2>7
            <4>2. g[i] = f[i] /\ (i # 1 => g[i - 1] = f[i - 1])
                BY <3>2, <4>1, <2>6
            <4>3. Good(f, i)
                <5> HIDE DEF Good
                <5> QED
                    BY <2>2, <4>1
            <4> QED
                BY <4>2, <4>3
        <3> QED
            BY <3>1, <3>2
    <2>8. g \in Upto(m + 1)
        <3> HIDE DEF Good
        <3> QED
            BY <2>6, <2>7
    <2> QED
        BY <2>8
<1>4. Nat \subseteq N
    <2> HIDE DEF N
    <2> QED
        BY <1>2, <1>3, NatSetInduction
<1>5. PICK f \in Upto(n) : TRUE
    <2>1. n \in N /\ n <= n
        <3> HIDE DEF N
        <3> QED
            BY <1>1, <1>4
    <2> HIDE DEF Upto
    <2> QED
        BY <2>1
<1>6. f \in [D -> Seq(S)] /\ \A i \in D : Good(f, i)
    <2>1. \A i \in D : i <= n
        BY <1>1
    <2> HIDE DEF Good
    <2> QED
        BY <1>5, <2>1
<1>7. f = [i \in D |-> IF i = 1 THEN ss[i] ELSE f[i - 1] \o ss[i]]
    <2>1. f = [i \in D |-> f[i]]
        BY <1>6
    <2>2. \A i \in D : f[i] = IF i = 1 THEN ss[i] ELSE f[i - 1] \o ss[i]
        BY <1>6
    <2> QED
        BY <2>1, <2>2
<1> DEFINE p == Flattened(ss)
<1>8. p = [i \in D |-> IF i = 1 THEN ss[i] ELSE p[i - 1] \o ss[i]]
    BY <1>7 DEF Flattened, n
<1> HIDE DEF p
<1>9. \A i \in D : p[i] = IF i = 1 THEN ss[i] ELSE p[i - 1] \o ss[i]
    BY <1>8
<1> DEFINE M == {m \in Nat : m \in D => p[m] \in Seq(S)}
<1>10. 0 \in M
    OBVIOUS
<1>11. ASSUME NEW m \in Nat, m \in M PROVE m + 1 \in M
    <2> SUFFICES ASSUME m + 1 \in D PROVE p[m + 1] \in Seq(S)
        OBVIOUS
    <2>1. CASE m = 0
        <3>1. p[m + 1] = ss[m + 1]
            BY <2>1, <1>9
        <3> QED
            BY <3>1, <1>1
    <2>2. CASE m # 0
        <3>1. m \in D /\ m + 1 # 1 /\ (m + 1) - 1 = m
            BY <1>1, <2>2
        <3>2. p[m + 1] = p[m] \o ss[m + 1]
            BY <1>9, <3>1
        <3>3. p[m] \in Seq(S) /\ ss[m + 1] \in Seq(S)
            BY <1>1, <1>11, <3>1
        <3> QED
            BY <3>2, <3>3, ConcatProperties
    <2> QED
        BY <2>1, <2>2
<1>12. \A i \in D : p[i] \in Seq(S)
    <2>1. Nat \subseteq M
        <3> HIDE DEF M
        <3> QED
            BY <1>10, <1>11, NatSetInduction
    <2> QED
        BY <2>1, <1>1
<1>13. p = [i \in D |-> p[i]]
    BY <1>8
<1>14. p \in [D -> Seq(S)]
    BY <1>12, <1>13
<1> QED
    BY <1>9, <1>14 DEF n, p

\* FlattenSeq is the last of them.
LEMMA FlattenIsLast ==
    ASSUME NEW ss
    PROVE  FlattenSeq(ss) = IF Len(ss) = 0 THEN ss ELSE Flattened(ss)[Len(ss)]
BY DEF FlattenSeq, Flattened

\* A piece put in front stays in front.
LEMMA FlattenCons ==
    ASSUME NEW S, NEW x \in Seq(S), NEW ss \in Seq(Seq(S))
    PROVE  /\ FlattenSeq(ss) \in Seq(S)
           /\ FlattenSeq(Cons(x, ss)) = x \o FlattenSeq(ss)
<1> DEFINE tt == Cons(x, ss)
           p == Flattened(ss)
           q == Flattened(tt)
           n == Len(ss)
<1>1. /\ tt \in Seq(Seq(S)) /\ Len(tt) = n + 1 /\ n \in Nat
      /\ tt[1] = x /\ \A i \in 1..n : tt[i + 1] = ss[i]
    BY ConsProperties, LenProperties
<1>2. /\ p \in [1..n -> Seq(S)]
      /\ \A i \in 1..n : p[i] = IF i = 1 THEN ss[i] ELSE p[i - 1] \o ss[i]
    BY FlattenedProperties
<1>3. \A i \in 1..(n + 1) : q[i] = IF i = 1 THEN tt[i] ELSE q[i - 1] \o tt[i]
    BY <1>1, FlattenedProperties
<1>4. \A i \in 1..n : ss[i] \in Seq(S)
    BY ElementOfSeq
<1>5. /\ FlattenSeq(ss) = IF n = 0 THEN ss ELSE p[n]
      /\ FlattenSeq(tt) = q[n + 1]
    <2>1. FlattenSeq(ss) = IF n = 0 THEN ss ELSE p[n]
        BY FlattenIsLast
    <2>2. FlattenSeq(tt) = IF Len(tt) = 0 THEN tt ELSE q[Len(tt)]
        BY FlattenIsLast
    <2>3. Len(tt) = n + 1 /\ n + 1 # 0
        BY <1>1
    <2> HIDE DEF tt, p, q, n
    <2> QED
        BY <2>1, <2>2, <2>3
<1> HIDE DEF tt, p, q, n
<1>6. q[1] = x
    BY <1>1, <1>3
<1> DEFINE M == {m \in Nat : m \in 1..n => q[m + 1] = x \o p[m]}
<1>7. 0 \in M
    OBVIOUS
<1>8. ASSUME NEW m \in Nat, m \in M PROVE m + 1 \in M
    <2> DEFINE k == m + 1
    <2> SUFFICES ASSUME k \in 1..n PROVE q[k + 1] = x \o p[k]
        OBVIOUS
    <2>1. q[k + 1] = q[k] \o ss[k]
        <3>1. k + 1 \in 1..(n + 1) /\ k + 1 # 1 /\ (k + 1) - 1 = k
            BY <1>1
        <3>2. q[k + 1] = q[k] \o tt[k + 1]
            BY <1>3, <3>1
        <3> QED
            BY <3>2, <1>1
    <2>2. CASE m = 0
        <3>1. k = 1 /\ p[k] = ss[k]
            <4>1. k = 1
                BY <2>2
            <4> QED
                BY <1>2, <4>1
        <3> QED
            BY <3>1, <2>1, <1>6
    <2>3. CASE m # 0
        <3>1. m \in 1..n /\ k # 1 /\ k - 1 = m
            BY <1>1, <2>3
        <3>2. p[k] = p[m] \o ss[k]
            BY <1>2, <3>1
        <3>3. q[k] = x \o p[m]
            BY <1>8, <3>1
        <3>4. p[m] \in Seq(S) /\ ss[k] \in Seq(S)
            BY <1>2, <1>4, <3>1
        <3>5. (x \o p[m]) \o ss[k] = x \o (p[m] \o ss[k])
            <4>1. \A a, b \in Seq(S) : (x \o a) \o b = x \o (a \o b)
                BY ConcatAssociative
            <4> QED
                BY <3>4, <4>1
        <3> QED
            BY <2>1, <3>2, <3>3, <3>5
    <2> QED
        BY <2>2, <2>3
<1>9. \A i \in 1..n : q[i + 1] = x \o p[i]
    <2>1. Nat \subseteq M
        <3> HIDE DEF M
        <3> QED
            BY <1>7, <1>8, NatSetInduction
    <2> SUFFICES ASSUME NEW i \in 1..n PROVE q[i + 1] = x \o p[i]
        OBVIOUS
    <2>2. i \in Nat
        BY <1>1
    <2>3. i \in M
        <3> HIDE DEF M
        <3> QED
            BY <2>1, <2>2
    <2> QED
        BY <2>3
<1>10. CASE n = 0
    <2>1. ss = <<>>
        BY <1>10, EmptySeq DEF n
    <2>2. FlattenSeq(ss) = <<>> /\ FlattenSeq(tt) = x
        BY <1>5, <1>6, <1>10, <2>1
    <2>3. <<>> \in Seq(S) /\ x \o <<>> = x
        BY EmptySeq, ConcatEmptySeq
    <2> QED
        BY <2>2, <2>3 DEF tt
<1>11. CASE n # 0
    <2>1. n \in 1..n
        BY <1>1, <1>11
    <2>2. p[n] \in Seq(S) /\ q[n + 1] = x \o p[n]
        BY <2>1, <1>2, <1>9
    <2> QED
        BY <2>2, <1>5, <1>11 DEF tt
<1> QED
    BY <1>10, <1>11

\* A pair in front is one element and another in front.
LEMMA PairIsCons ==
    ASSUME NEW S, NEW a \in S, NEW b \in S, NEW t \in Seq(S)
    PROVE  <<a, b>> \o t = Cons(a, Cons(b, t))
<1>1. /\ <<a>> \in Seq(S) /\ Len(<<a>>) = 1 /\ <<a>>[1] = a
      /\ <<b>> \in Seq(S) /\ Len(<<b>>) = 1 /\ <<b>>[1] = b
      /\ <<a, b>> \in Seq(S) /\ Len(<<a, b>>) = 2 /\ <<a, b>>[1] = a /\ <<a, b>>[2] = b
    OBVIOUS
<1>2. <<a, b>> = <<a>> \o <<b>>
    <2> DEFINE z == <<b>>
               u == Cons(a, z)
    <2>0. z \in Seq(S) /\ Len(z) = 1 /\ z[1] = b
        BY <1>1
    <2> HIDE DEF z
    <2>1. u \in Seq(S) /\ Len(u) = 2 /\ u[1] = a /\ u[2] = b
        <3>1. u \in Seq(S)
            BY <2>0, ConsInSeq
        <3>2. Len(u) = Len(z) + 1
            BY <2>0, ConsElements
        <3>3. u[1] = a
            BY <2>0, ConsElements
        <3>4. Len(z) # 0
            BY <2>0
        <3>5. u[2] = z[1]
            BY <2>0, <3>4, ConsElements
        <3> QED
            BY <2>0, <3>1, <3>2, <3>3, <3>5
    <2> HIDE DEF u
    <2>2. Len(<<a, b>>) = Len(u) /\ \A i \in 1..2 : <<a, b>>[i] = u[i]
        BY <1>1, <2>1
    <2>3. <<a, b>> = u
        BY <1>1, <2>1, <2>2, SeqEqual
    <2> QED
        BY <2>3 DEF u, z, Cons
<1> QED
    BY <1>1, <1>2, ConcatAssociative DEF Cons

\* A pair of elements from a place on.
PairAt(s, k, a, b) == SubSeq(s, k, k + 1) = <<a, b>>

\* It is found by its two elements.
LEMMA PairAtPlace ==
    ASSUME NEW S, NEW s \in Seq(S), NEW a, NEW b
    PROVE  \A k \in 1..Len(s) : k < Len(s) =>
             (PairAt(s, k, a, b) <=> s[k] = a /\ s[k + 1] = b)
<1> SUFFICES ASSUME NEW k \in 1..Len(s), k < Len(s)
             PROVE  PairAt(s, k, a, b) <=> s[k] = a /\ s[k + 1] = b
    OBVIOUS
<1>1. Len(s) \in Nat /\ \A i \in 1..Len(s) : s[i] \in S
    BY LenProperties, ElementOfSeq
<1>2. k \in Int /\ k + 1 \in Int /\ k + 1 \in 1..Len(s) /\ (k + 1) - k + 1 = 2
    BY <1>1
<1> DEFINE u == SubSeq(s, k, k + 1)
<1>3. \A i \in k..(k + 1) : s[i] \in S
    BY <1>1, <1>2
<1>4. /\ u \in Seq(S) /\ Len(u) = 2
      /\ \A i \in 1..2 : u[i] = s[k + i - 1]
    BY <1>2, <1>3, SubSeqProperties
<1>5. u[1] = s[k] /\ u[2] = s[k + 1]
    <2>1. 1 \in 1..2 /\ 2 \in 1..2 /\ k + 1 - 1 = k /\ k + 2 - 1 = k + 1
        BY <1>2
    <2> HIDE DEF u
    <2> QED
        BY <1>4, <2>1
<1>6. u = <<s[k], s[k + 1]>>
    <2>1. <<s[k], s[k + 1]>> \in Seq(S) /\ Len(<<s[k], s[k + 1]>>) = 2
        BY <1>1, <1>2
    <2> HIDE DEF u
    <2> QED
        BY <1>4, <1>5, <2>1, SeqEqual
<1> QED
    BY <1>6 DEF PairAt

\* A part from the front has the same elements at the same places.
LEMMA FrontOfSequence ==
    ASSUME NEW S, NEW l \in Seq(S), NEW n \in 0..Len(l)
    PROVE  /\ SubSeq(l, 1, n) \in Seq(S) /\ Len(SubSeq(l, 1, n)) = n
           /\ \A k \in 1..n : SubSeq(l, 1, n)[k] = l[k]
<1> DEFINE y == SubSeq(l, 1, n)
<1>0. n \in Nat /\ \A k \in 1..n : l[k] \in S
    <2>1. Len(l) \in Nat /\ \A k \in 1..Len(l) : l[k] \in S
        BY LenProperties, ElementOfSeq
    <2> QED
        BY <2>1
<1>1. /\ y \in Seq(S) /\ Len(y) = IF 1 <= n THEN n - 1 + 1 ELSE 0
      /\ \A k \in 1..(n - 1 + 1) : y[k] = l[1 + k - 1]
    BY <1>0, SubSeqProperties
<1> HIDE DEF y
<1>2. Len(y) = n
    BY <1>0, <1>1
<1>3. \A k \in 1..n : k \in 1..(n - 1 + 1) /\ 1 + k - 1 = k
    BY <1>0
<1>4. \A k \in 1..n : y[k] = l[k]
    BY <1>1, <1>3
<1> QED
    BY <1>1, <1>2, <1>4 DEF y
=============================================================================
