--------------------------- MODULE TomlText_proof ---------------------------
(***************************************************************************)
(* A value that is written into a text is read again as it was, for values *)
(* of any length.  The argument goes by induction on the value, from its   *)
(* last character to its first, which is how Replaced and IsQuoted go; the *)
(* scanner goes the other way, so what it has seen of the slashes is given *)
(* as the set of the places they escape.  A property to be shown by        *)
(* induction is given as a set (NatSetInduction, SeqSetInduction).         *)
(***************************************************************************)
EXTENDS TomlText, SequenceLemmas

(***************************************************************************)
(* Escaping, and taking the escapes back.                                  *)
(***************************************************************************)

\* What Escaped makes of one character.
Piece(c, char) == IF c = char THEN <<Slash, char>> ELSE <<c>>

\* The characters are different.
LEMMA CharsAreDistinct ==
    /\ Quote \in Chars /\ Slash \in Chars /\ Tick \in Chars
    /\ Hash \in Chars /\ Other \in Chars
    /\ Quote # Slash /\ Quote # Tick /\ Quote # Hash
    /\ Slash # Tick /\ Slash # Hash /\ Tick # Hash
BY DEF Chars, Quote, Slash, Tick, Hash, Other

\* Escaping is done character by character (encodeTOML).
LEMMA EscapedCons ==
    ASSUME NEW c \in Chars, NEW t \in Seq(Chars), NEW char \in Chars
    PROVE  /\ Escaped(<<>>, char) = <<>>
           /\ Escaped(t, char) \in Seq(Chars)
           /\ Escaped(Cons(c, t), char) =
                IF c = char THEN Cons(Slash, Cons(char, Escaped(t, char)))
                ELSE Cons(c, Escaped(t, char))
<1> DEFINE pieces(s) == [k \in DOMAIN s |-> Piece(s[k], char)]
           w == Cons(c, t)
           n == Len(t)
<1>1. \A s : Escaped(s, char) = FlattenSeq(pieces(s))
    BY DEF Escaped, Piece
<1>2. \A d \in Chars : Piece(d, char) \in Seq(Chars)
    BY CharsAreDistinct DEF Piece
<1>3. Escaped(<<>>, char) = <<>>
    <2>1. pieces(<<>>) = <<>>
        OBVIOUS
    <2> HIDE DEF pieces
    <2> QED
        BY <1>1, <2>1, FlattenIsLast, EmptySeq
<1>4. n \in Nat /\ DOMAIN t = 1..n /\ \A i \in 1..n : t[i] \in Chars
    BY LenProperties, ElementOfSeq
<1>5. pieces(t) \in Seq(Seq(Chars)) /\ Len(pieces(t)) = n
    <2>1. pieces(t) \in [1..n -> Seq(Chars)]
        BY <1>2, <1>4
    <2> HIDE DEF pieces
    <2> QED
        BY <1>4, <2>1
<1> HIDE DEF pieces
<1>6. /\ DOMAIN w = 1..(n + 1) /\ w[1] = c
      /\ \A i \in 1..n : w[i + 1] = t[i]
    <2>1. DOMAIN w = 1..(n + 1)
        BY ConsProperties
    <2>2. w[1] = c
        BY ConsProperties
    <2>3. \A i \in 1..n : w[i + 1] = t[i]
        BY ConsProperties
    <2> QED
        BY <2>1, <2>2, <2>3
<1> USE DEF pieces
<1>7. pieces(w) = Cons(Piece(c, char), pieces(t))
    <2> DEFINE u == Cons(Piece(c, char), pieces(t))
    <2>1. /\ u \in Seq(Seq(Chars)) /\ Len(u) = n + 1
          /\ u[1] = Piece(c, char) /\ \A i \in 1..n : u[i + 1] = pieces(t)[i]
        <3> DEFINE d == Piece(c, char)
                   v == pieces(t)
        <3>1. d \in Seq(Chars) /\ v \in Seq(Seq(Chars)) /\ Len(v) = n
            BY <1>2, <1>5
        <3> HIDE DEF pieces, d, v
        <3>2. Cons(d, v) \in Seq(Seq(Chars))
            BY <3>1, ConsProperties
        <3>3. Len(Cons(d, v)) = n + 1 /\ Cons(d, v)[1] = d
            BY <3>1, ConsProperties
        <3>4. \A i \in 1..n : Cons(d, v)[i + 1] = v[i]
            BY <3>1, ConsProperties
        <3> QED
            BY <3>2, <3>3, <3>4 DEF d, v
    <2>2. u = [i \in 1..(n + 1) |-> u[i]]
        <3> HIDE DEF u
        <3>1. DOMAIN u = 1..(n + 1)
            BY <2>1, LenProperties
        <3> QED
            BY <2>1, <3>1
    <2>3. pieces(w) = [i \in 1..(n + 1) |-> Piece(w[i], char)]
        BY <1>6
    <2>4. \A i \in 1..(n + 1) : u[i] = Piece(w[i], char)
        <3> SUFFICES ASSUME NEW i \in 1..(n + 1) PROVE u[i] = Piece(w[i], char)
            OBVIOUS
        <3>1. CASE i = 1
            BY <3>1, <2>1, <1>6
        <3>2. CASE i # 1
            <4>1. i - 1 \in 1..n /\ (i - 1) + 1 = i
                BY <1>4, <3>2
            <4>2. u[i] = pieces(t)[i - 1] /\ w[i] = t[i - 1]
                BY <2>1, <1>6, <4>1
            <4> QED
                BY <4>1, <4>2, <1>4
        <3> QED
            BY <3>1, <3>2
    <2> HIDE DEF u, w, pieces
    <2> QED
        BY <2>2, <2>3, <2>4 DEF u
<1> HIDE DEF pieces
<1>8. /\ FlattenSeq(pieces(t)) \in Seq(Chars)
      /\ FlattenSeq(pieces(w)) = Piece(c, char) \o FlattenSeq(pieces(t))
    BY <1>2, <1>5, <1>7, FlattenCons
<1>9. \A u \in Seq(Chars) :
        Piece(c, char) \o u = IF c = char THEN Cons(Slash, Cons(char, u)) ELSE Cons(c, u)
    <2>1. \A u \in Seq(Chars) : <<Slash, char>> \o u = Cons(Slash, Cons(char, u))
        BY CharsAreDistinct, PairIsCons
    <2> QED
        BY <2>1 DEF Piece, Cons
<1>10. Escaped(w, char) = Piece(c, char) \o Escaped(t, char) /\ Escaped(t, char) \in Seq(Chars)
    BY <1>1, <1>8
<1> HIDE DEF w
<1>11. Escaped(w, char) = IF c = char THEN Cons(Slash, Cons(char, Escaped(t, char)))
                          ELSE Cons(c, Escaped(t, char))
    BY <1>9, <1>10
<1> QED
    BY <1>3, <1>10, <1>11 DEF w

\* The results of Replaced from each place on.
Rest(s, pair, by) ==
    CHOOSE f : f = [k \in 1..(Len(s) + 2) |->
        IF k > Len(s) THEN <<>>
        ELSE IF k < Len(s) /\ SubSeq(s, k, k + 1) = pair THEN by \o f[k + 2]
        ELSE <<s[k]>> \o f[k + 1]]

\* Replaced is the first of them.
LEMMA ReplacedIsRest ==
    ASSUME NEW s, NEW pair, NEW by
    PROVE  Replaced(s, pair, by) = Rest(s, pair, by)[1]
BY DEF Replaced, Rest

\* They have the equation of the recursion.
LEMMA RestProperties ==
    ASSUME NEW S, NEW s \in Seq(S), NEW a, NEW b, NEW by \in Seq(S)
    PROVE  LET p == Rest(s, <<a, b>>, by)
               n == Len(s)
           IN \A k \in 1..(n + 2) :
                /\ p[k] \in Seq(S)
                /\ p[k] = IF k > n THEN <<>>
                          ELSE IF k < n /\ s[k] = a /\ s[k + 1] = b THEN by \o p[k + 2]
                          ELSE <<s[k]>> \o p[k + 1]
<1>0. \A k \in 1..Len(s) : k < Len(s) => (PairAt(s, k, a, b) <=> s[k] = a /\ s[k + 1] = b)
    BY PairAtPlace
<1> DEFINE p == Rest(s, <<a, b>>, by)
           n == Len(s)
           D == 1..(n + 2)
           V == Seq(S)
           here(k) == k < n /\ PairAt(s, k, a, b)
           step == [k \in 1..n |-> [x \in V \X V |->
                      IF here(k) THEN by \o x[2] ELSE <<s[k]>> \o x[1]]]
<1>1. n \in Nat /\ \A i \in 1..n : s[i] \in S /\ <<s[i]>> \in V
    BY LenProperties, ElementOfSeq
<1>2. \A k \in 1..n : here(k) <=> k < n /\ s[k] = a /\ s[k + 1] = b
    BY <1>0
<1>3. <<>> \in V
    BY EmptySeq
<1>4. \A x, y \in V : x \o y \in V
    BY ConcatProperties
<1>5. p = [k \in D |-> IF k > n THEN <<>> ELSE IF here(k) THEN by \o p[k + 2]
                                           ELSE <<s[k]>> \o p[k + 1]]
    <2>1. step \in [1..n -> [V \X V -> V]]
        <3> HIDE DEF here, V, n
        <3> QED
            BY <1>1, <1>4 DEF V
    <2>2. \A k \in 1..n, y, z \in V :
            step[k][<<y, z>>] = IF here(k) THEN by \o z ELSE <<s[k]>> \o y
        <3> HIDE DEF here, V, n
        <3> QED
            OBVIOUS
    <2> HIDE DEF step
    <2>3. PICK f \in Backward(n, V, <<>>, step) : TRUE
        <3> HIDE DEF V, n, here
        <3> QED
            BY <1>1, <1>3, <2>1, BackwardRecursion
    <2>7. f \in [D -> V] /\ \A k \in D :
            f[k] = IF k > n THEN <<>> ELSE step[k][<<f[k + 1], f[k + 2]>>]
        <3> HIDE DEF V, n, here
        <3> QED
            BY <2>3 DEF Backward
    <2> HIDE DEF here, V
    <2>4. \A k \in D : f[k] = IF k > n THEN <<>> ELSE IF here(k) THEN by \o f[k + 2]
                                                      ELSE <<s[k]>> \o f[k + 1]
        <3> SUFFICES ASSUME NEW k \in D, ~(k > n)
                     PROVE  f[k] = IF here(k) THEN by \o f[k + 2] ELSE <<s[k]>> \o f[k + 1]
            BY <2>7
        <3>1. k \in 1..n /\ k + 1 \in D /\ k + 2 \in D
            BY <1>1
        <3>2. f[k + 1] \in V /\ f[k + 2] \in V
            BY <2>7, <3>1
        <3>3. f[k] = step[k][<<f[k + 1], f[k + 2]>>]
            BY <2>7
        <3> QED
            BY <2>2, <3>1, <3>2, <3>3
    <2>5. f = [k \in D |-> f[k]]
        BY <2>7
    <2>6. f = [k \in D |-> IF k > n THEN <<>> ELSE IF here(k) THEN by \o f[k + 2]
                                           ELSE <<s[k]>> \o f[k + 1]]
        BY <2>4, <2>5
    <2> QED
        BY <2>6 DEF Rest, here, PairAt
<1> HIDE DEF p, n, V
<1>6. \A k \in D : p[k] = IF k > n THEN <<>>
                          ELSE IF k < n /\ s[k] = a /\ s[k + 1] = b THEN by \o p[k + 2]
                          ELSE <<s[k]>> \o p[k + 1]
    <2> SUFFICES ASSUME NEW k \in D
                 PROVE  p[k] = IF k > n THEN <<>>
                          ELSE IF k < n /\ s[k] = a /\ s[k + 1] = b THEN by \o p[k + 2]
                          ELSE <<s[k]>> \o p[k + 1]
        OBVIOUS
    <2>1. ~(k > n) => k \in 1..n
        BY <1>1
    <2>2. p[k] = IF k > n THEN <<>> ELSE IF here(k) THEN by \o p[k + 2]
                                           ELSE <<s[k]>> \o p[k + 1]
        <3> HIDE DEF here
        <3> QED
            BY <1>5
    <2> HIDE DEF here, D
    <2> QED
        BY <1>2, <2>1, <2>2
<1> HIDE DEF here
<1> DEFINE M == {m \in Nat : \A k \in D : k > n - m => p[k] \in V}
<1>7. 0 \in M
    <2>1. \A k \in D : k > n - 0 => k > n
        BY <1>1
    <2>2. \A k \in D : k > n => p[k] = <<>>
        BY <1>6
    <2> QED
        BY <1>3, <2>1, <2>2
<1>8. ASSUME NEW m \in Nat, m \in M PROVE m + 1 \in M
    <2> SUFFICES ASSUME NEW k \in D, k > n - (m + 1) PROVE p[k] \in V
        OBVIOUS
    <2>1. CASE k > n
        BY <2>1, <1>3, <1>6
    <2>2. CASE ~(k > n)
        <3>1. k \in 1..n /\ k + 1 \in D /\ k + 2 \in D /\ k + 1 > n - m /\ k + 2 > n - m
            BY <1>1, <2>2
        <3>2. p[k + 1] \in V /\ p[k + 2] \in V
            BY <1>8, <3>1
        <3>3. p[k] = by \o p[k + 2] \/ p[k] = <<s[k]>> \o p[k + 1]
            BY <2>2, <1>6
        <3>4. by \in V /\ <<s[k]>> \in V
            BY <1>1, <3>1 DEF V
        <3> QED
            BY <1>4, <3>2, <3>3, <3>4
    <2> QED
        BY <2>1, <2>2
<1>9. \A k \in D : p[k] \in V
    <2>1. Nat \subseteq M
        <3> HIDE DEF M
        <3> QED
            BY <1>7, <1>8, NatSetInduction
    <2>2. n \in M
        <3> HIDE DEF M
        <3> QED
            BY <1>1, <2>1
    <2>3. \A k \in D : k > n - n
        BY <1>1
    <2> QED
        BY <2>2, <2>3
<1> QED
    BY <1>6, <1>9 DEF p, n, V

\* An element in front shifts their places.
LEMMA RestShift ==
    ASSUME NEW S, NEW c \in S, NEW v \in Seq(S), NEW a, NEW b, NEW by \in Seq(S)
    PROVE  \A k \in 1..(Len(v) + 2) :
             Rest(Cons(c, v), <<a, b>>, by)[k + 1] = Rest(v, <<a, b>>, by)[k]
<1> DEFINE w == Cons(c, v)
           n == Len(v)
           D == 1..(n + 2)
           p == Rest(v, <<a, b>>, by)
           q == Rest(w, <<a, b>>, by)
<1>1. n \in Nat /\ w \in Seq(S) /\ Len(w) = n + 1 /\ \A i \in 1..n : w[i + 1] = v[i]
    BY ConsProperties, LenProperties
<1>2. \A k \in D : p[k] = IF k > n THEN <<>>
                          ELSE IF k < n /\ v[k] = a /\ v[k + 1] = b THEN by \o p[k + 2]
                          ELSE <<v[k]>> \o p[k + 1]
    BY RestProperties
<1> HIDE DEF w, n, p
<1>3. \A k \in 1..(Len(w) + 2) :
        q[k] = IF k > Len(w) THEN <<>>
               ELSE IF k < Len(w) /\ w[k] = a /\ w[k + 1] = b THEN by \o q[k + 2]
               ELSE <<w[k]>> \o q[k + 1]
    <2>1. \A s \in Seq(S) : \A k \in 1..(Len(s) + 2) :
            Rest(s, <<a, b>>, by)[k] =
              IF k > Len(s) THEN <<>>
              ELSE IF k < Len(s) /\ s[k] = a /\ s[k + 1] = b
                     THEN by \o Rest(s, <<a, b>>, by)[k + 2]
              ELSE <<s[k]>> \o Rest(s, <<a, b>>, by)[k + 1]
        BY RestProperties
    <2> QED
        BY <1>1, <2>1, Zenon
<1> HIDE DEF q
<1>4. \A k \in D : q[k + 1] = IF k > n THEN <<>>
                              ELSE IF k < n /\ v[k] = a /\ v[k + 1] = b THEN by \o q[k + 3]
                              ELSE <<v[k]>> \o q[k + 2]
    <2> SUFFICES ASSUME NEW k \in D
                 PROVE  q[k + 1] = IF k > n THEN <<>>
                              ELSE IF k < n /\ v[k] = a /\ v[k + 1] = b THEN by \o q[k + 3]
                              ELSE <<v[k]>> \o q[k + 2]
        OBVIOUS
    <2> DEFINE j == k + 1
    <2>1. /\ j \in 1..(Len(w) + 2) /\ j + 1 = k + 2 /\ j + 2 = k + 3
          /\ (j > Len(w) <=> k > n) /\ (j < Len(w) <=> k < n)
        BY <1>1
    <2>2. ~(k > n) => w[j] = v[k]
        BY <1>1
    <2>3. k < n => w[j + 1] = v[k + 1]
        BY <1>1
    <2>4. q[j] = IF j > Len(w) THEN <<>>
               ELSE IF j < Len(w) /\ w[j] = a /\ w[j + 1] = b THEN by \o q[j + 2]
               ELSE <<w[j]>> \o q[j + 1]
        BY <1>3, <2>1
    <2> HIDE DEF j, D
    <2>5. q[j] = IF k > n THEN <<>>
                 ELSE IF k < n /\ v[k] = a /\ v[k + 1] = b THEN by \o q[k + 3]
                 ELSE <<v[k]>> \o q[k + 2]
        BY <2>1, <2>2, <2>3, <2>4
    <2> QED
        BY <2>5 DEF j
<1> DEFINE M == {m \in Nat : \A k \in D : k > n - m => q[k + 1] = p[k]}
<1>5. 0 \in M
    <2>1. \A k \in D : k > n - 0 => k > n
        BY <1>1
    <2>2. \A k \in D : k > n => q[k + 1] = p[k]
        BY <1>2, <1>4
    <2> QED
        BY <2>1, <2>2
<1>6. ASSUME NEW m \in Nat, m \in M PROVE m + 1 \in M
    <2> SUFFICES ASSUME NEW k \in D, k > n - (m + 1) PROVE q[k + 1] = p[k]
        OBVIOUS
    <2>1. CASE k > n
        BY <2>1, <1>2, <1>4
    <2>2. CASE ~(k > n)
        <3>1. /\ k + 1 \in D /\ k + 2 \in D /\ k + 1 > n - m /\ k + 2 > n - m
              /\ (k + 1) + 1 = k + 2 /\ (k + 2) + 1 = k + 3
            BY <1>1, <2>2
        <3>2. \A l \in D : l > n - m => q[l + 1] = p[l]
            BY <1>6
        <3>3. q[(k + 1) + 1] = p[k + 1] /\ q[(k + 2) + 1] = p[k + 2]
            BY <3>1, <3>2
        <3>4. q[k + 2] = p[k + 1] /\ q[k + 3] = p[k + 2]
            BY <3>1, <3>3
        <3> HIDE DEF D, M
        <3> QED
            BY <1>2, <1>4, <2>2, <3>4
    <2> QED
        BY <2>1, <2>2
<1>7. n \in M
    <2>1. Nat \subseteq M
        <3> HIDE DEF M
        <3> QED
            BY <1>5, <1>6, NatSetInduction
    <2> HIDE DEF M
    <2> QED
        BY <1>1, <2>1
<1>8. \A k \in D : q[k + 1] = p[k]
    <2>1. \A k \in D : k > n - n
        BY <1>1
    <2> QED
        BY <1>7, <2>1
<1> QED
    BY <1>8 DEF n, p, q, w

\* A pair of characters that becomes one.
Joined(s, a, b, d) == Replaced(s, <<a, b>>, <<d>>)

\* Replacing goes from the left: a pair at the front is replaced, and else
\* the first element stays.
LEMMA JoinedCons ==
    ASSUME NEW S, NEW c \in S, NEW v \in Seq(S), NEW a \in S, NEW b \in S, NEW d \in S
    PROVE  /\ Joined(<<>>, a, b, d) = <<>>
           /\ Joined(v, a, b, d) \in Seq(S)
           /\ c # a \/ v = <<>> \/ v[1] # b =>
                Joined(Cons(c, v), a, b, d) = Cons(c, Joined(v, a, b, d))
           /\ Joined(Cons(a, Cons(b, v)), a, b, d) = Cons(d, Joined(v, a, b, d))
<1> DEFINE by == <<d>>
<1>0. by \in Seq(S)
    OBVIOUS
<1>1. \A s : Joined(s, a, b, d) = Rest(s, <<a, b>>, by)[1]
    BY ReplacedIsRest DEF Joined
<1> HIDE DEF by
<1> DEFINE R(s) == Rest(s, <<a, b>>, by)
           n == Len(v)
           w == Cons(c, v)
           x == Cons(b, v)
           y == Cons(a, x)
<1>2. \A s \in Seq(S) : \A k \in 1..(Len(s) + 2) :
        /\ R(s)[k] \in Seq(S)
        /\ R(s)[k] = IF k > Len(s) THEN <<>>
                     ELSE IF k < Len(s) /\ s[k] = a /\ s[k + 1] = b THEN by \o R(s)[k + 2]
                     ELSE <<s[k]>> \o R(s)[k + 1]
    BY <1>0, RestProperties
<1>3. \A e \in S, s \in Seq(S) : \A k \in 1..(Len(s) + 2) : R(Cons(e, s))[k + 1] = R(s)[k]
    BY <1>0, RestShift
<1>4. n \in Nat /\ (v = <<>> <=> n = 0)
    BY LenProperties, EmptySeq
<1>5. /\ w \in Seq(S) /\ Len(w) = n + 1 /\ w[1] = c /\ (n # 0 => w[2] = v[1])
      /\ x \in Seq(S) /\ Len(x) = n + 1 /\ x[1] = b
    <2>1. n # 0 => w[1 + 1] = v[1]
        BY <1>4, ConsProperties
    <2> QED
        BY <2>1, ConsProperties
<1> HIDE DEF x
<1>6. y \in Seq(S) /\ Len(y) = n + 2 /\ y[1] = a /\ y[2] = b
    <2>1. Len(x) # 0
        BY <1>4, <1>5
    <2>2. y[2] = x[1]
        BY <1>5, <2>1, ConsElements
    <2>3. y \in Seq(S) /\ Len(y) = Len(x) + 1 /\ y[1] = a
        BY <1>5, ConsProperties
    <2> QED
        BY <1>4, <1>5, <2>2, <2>3
<1> HIDE DEF R, n
<1>7. 1 \in 1..(n + 2) /\ 2 \in 1..(n + 1 + 2) /\ 1 \in 1..(n + 1 + 2) /\ 1 \in 1..(n + 2 + 2)
    BY <1>4
<1>8. Joined(<<>>, a, b, d) = <<>>
    <2>1. <<>> \in Seq(S) /\ Len(<<>>) = 0 /\ 1 \in 1..(0 + 2)
        BY EmptySeq
    <2>2. R(<<>>)[1] = IF 1 > Len(<<>>) THEN <<>>
                       ELSE IF 1 < Len(<<>>) /\ <<>>[1] = a /\ <<>>[1 + 1] = b
                              THEN by \o R(<<>>)[1 + 2]
                       ELSE <<(<<>>)[1]>> \o R(<<>>)[1 + 1]
        BY <1>2, <2>1, Zenon
    <2>3. R(<<>>)[1] = <<>>
        BY <2>1, <2>2
    <2> QED
        BY <1>1, <2>3 DEF R
<1>9. Joined(v, a, b, d) \in Seq(S)
    BY <1>1, <1>2, <1>7 DEF n, R
<1>10. ASSUME c # a \/ v = <<>> \/ v[1] # b
       PROVE  R(w)[1] = Cons(c, R(v)[1])
    <2>1. R(w)[1] = IF 1 > Len(w) THEN <<>>
                     ELSE IF 1 < Len(w) /\ w[1] = a /\ w[1 + 1] = b THEN by \o R(w)[1 + 2]
                     ELSE <<w[1]>> \o R(w)[1 + 1]
        BY <1>2, <1>5, <1>7
    <2>2. ~(1 > Len(w)) /\ ~(1 < Len(w) /\ w[1] = a /\ w[2] = b)
        BY <1>4, <1>5, <1>10
    <2>3. R(w)[1 + 1] = R(v)[1]
        BY <1>3, <1>7 DEF n
    <2>4. 1 + 1 = 2
        OBVIOUS
    <2> HIDE DEF w
    <2>5. R(w)[1] = <<c>> \o R(v)[1]
        BY <1>5, <2>1, <2>2, <2>3, <2>4
    <2> QED
        BY <2>5, Zenon DEF Cons
<1>11. R(y)[1] = by \o R(v)[1]
    <2>1. R(y)[1] = IF 1 > Len(y) THEN <<>>
                     ELSE IF 1 < Len(y) /\ y[1] = a /\ y[1 + 1] = b THEN by \o R(y)[1 + 2]
                     ELSE <<y[1]>> \o R(y)[1 + 1]
        BY <1>2, <1>6, <1>7
    <2>2. ~(1 > Len(y)) /\ 1 < Len(y) /\ 1 + 1 = 2 /\ 1 + 2 = 2 + 1
        BY <1>4, <1>6
    <2>3. R(y)[2 + 1] = R(x)[2]
        BY <1>3, <1>5, <1>7
    <2>4. R(x)[1 + 1] = R(v)[1]
        BY <1>3, <1>7 DEF n, x
    <2> HIDE DEF y
    <2> QED
        BY <1>6, <2>1, <2>2, <2>3, <2>4
<1> QED
    BY <1>1, <1>8, <1>9, <1>10, <1>11 DEF w, x, y, R, by, Cons

\* A value as it stands between its quotes.
Enc(s) == Escaped(Escaped(s, Slash), Quote)

\* Both rounds of escaping, character by character.
LEMMA EncCons ==
    ASSUME NEW c \in Chars, NEW t \in Seq(Chars)
    PROVE  /\ Enc(<<>>) = <<>> /\ Enc(t) \in Seq(Chars)
           /\ Enc(Cons(c, t)) = IF c \in {Slash, Quote} THEN Cons(Slash, Cons(c, Enc(t)))
                                ELSE Cons(c, Enc(t))
<1>1. Quote \in Chars /\ Slash \in Chars /\ Quote # Slash
    BY CharsAreDistinct
<1> DEFINE E(x) == Escaped(x, Quote)
           e == Escaped(t, Slash)
<1>2. /\ Escaped(<<>>, Slash) = <<>> /\ E(<<>>) = <<>> /\ e \in Seq(Chars)
      /\ Escaped(Cons(c, t), Slash) = IF c = Slash THEN Cons(Slash, Cons(Slash, e)) ELSE Cons(c, e)
    BY <1>1, EscapedCons
<1>3. \A d \in Chars, x \in Seq(Chars) :
        /\ E(x) \in Seq(Chars)
        /\ E(Cons(d, x)) = IF d = Quote THEN Cons(Slash, Cons(Quote, E(x))) ELSE Cons(d, E(x))
    BY <1>1, EscapedCons
<1>4. Enc(<<>>) = <<>> /\ Enc(t) = E(e) /\ Enc(Cons(c, t)) = E(Escaped(Cons(c, t), Slash))
    BY <1>2 DEF Enc
<1> HIDE DEF E, e
<1>5. CASE c = Slash
    <2>1. Cons(Slash, e) \in Seq(Chars)
        BY <1>1, <1>2, ConsProperties
    <2>2. E(Cons(Slash, Cons(Slash, e))) = Cons(Slash, Cons(Slash, E(e)))
        BY <1>1, <1>2, <1>3, <2>1
    <2> QED
        BY <1>2, <1>3, <1>4, <1>5, <2>2
<1>6. CASE c # Slash
    BY <1>2, <1>3, <1>4, <1>6
<1> QED
    BY <1>5, <1>6

\* What is between the quotes does not begin with a quote.
LEMMA EncFront ==
    ASSUME NEW s \in Seq(Chars), Enc(s) # <<>>
    PROVE  Enc(s)[1] # Quote
<1> DEFINE X == {x \in Seq(Chars) : Enc(x) # <<>> => Enc(x)[1] # Quote}
<1>1. Quote \in Chars /\ Slash \in Chars /\ Quote # Slash
    BY CharsAreDistinct
<1>2. <<>> \in X
    BY <1>1, EmptySeq, EncCons
<1>3. ASSUME NEW c \in Chars, NEW t \in Seq(Chars), t \in X
      PROVE  Cons(c, t) \in X
    <2> DEFINE u == Enc(t)
    <2>1. /\ u \in Seq(Chars)
          /\ Enc(Cons(c, t)) = IF c \in {Slash, Quote} THEN Cons(Slash, Cons(c, u)) ELSE Cons(c, u)
        BY EncCons
    <2> HIDE DEF u
    <2>2. Cons(c, t) \in Seq(Chars) /\ Cons(c, u) \in Seq(Chars) /\ Cons(c, u)[1] = c
        BY <2>1, ConsProperties
    <2>3. Cons(Slash, Cons(c, u))[1] = Slash
        BY <1>1, <2>2, ConsProperties
    <2> QED
        BY <1>1, <2>1, <2>2, <2>3
<1>4. Seq(Chars) \subseteq X
    <2> HIDE DEF X
    <2> QED
        BY <1>2, <1>3, SeqSetInduction
<1> QED
    BY <1>4

\* Unquoting takes the escapes of the quotes back first: no slash of an
\* escaped slash is taken for one before a quote.
LEMMA QuotesComeBack ==
    ASSUME NEW s \in Seq(Chars)
    PROVE  Joined(Enc(s), Slash, Quote, Quote) = Escaped(s, Slash)
<1> DEFINE R(x) == Joined(x, Slash, Quote, Quote)
           X == {x \in Seq(Chars) : R(Enc(x)) = Escaped(x, Slash)}
<1>1. Quote \in Chars /\ Slash \in Chars /\ Quote # Slash
    BY CharsAreDistinct
<1>2. \A c \in Chars, v \in Seq(Chars) :
        /\ R(<<>>) = <<>>
        /\ c # Slash \/ v = <<>> \/ v[1] # Quote => R(Cons(c, v)) = Cons(c, R(v))
        /\ R(Cons(Slash, Cons(Quote, v))) = Cons(Quote, R(v))
    BY <1>1, JoinedCons
<1> HIDE DEF R
<1>3. <<>> \in X
    BY <1>1, <1>2, EmptySeq, EncCons, EscapedCons
<1>4. ASSUME NEW c \in Chars, NEW t \in Seq(Chars), t \in X
      PROVE  Cons(c, t) \in X
    <2> DEFINE u == Enc(t)
               e == Escaped(t, Slash)
    <2>1. /\ Enc(Cons(c, t)) = IF c \in {Slash, Quote} THEN Cons(Slash, Cons(c, u)) ELSE Cons(c, u)
          /\ Escaped(Cons(c, t), Slash) = IF c = Slash THEN Cons(Slash, Cons(Slash, e))
                                          ELSE Cons(c, e)
          /\ u \in Seq(Chars)
        BY <1>1, EncCons, EscapedCons
    <2>2. R(u) = e
        BY <1>4
    <2>3. u = <<>> \/ u[1] # Quote
        BY EncFront
    <2> HIDE DEF u, e
    <2>4. /\ Cons(c, t) \in Seq(Chars) /\ Cons(Slash, u) \in Seq(Chars)
          /\ Cons(Slash, u)[1] = Slash
        BY <1>1, <2>1, ConsProperties
    <2>5. CASE c = Slash
        <3>1. R(Cons(Slash, u)) = Cons(Slash, e)
            BY <1>1, <1>2, <2>1, <2>2, <2>3
        <3>2. R(Cons(Slash, Cons(Slash, u))) = Cons(Slash, Cons(Slash, e))
            BY <1>1, <1>2, <2>4, <3>1
        <3> QED
            BY <2>1, <2>4, <2>5, <3>2
    <2>6. CASE c = Quote
        <3>1. R(Cons(Slash, Cons(Quote, u))) = Cons(Quote, e)
            BY <1>1, <1>2, <2>1, <2>2
        <3> QED
            BY <1>1, <2>1, <2>4, <2>6, <3>1
    <2>7. CASE c # Slash /\ c # Quote
        <3>1. R(Cons(c, u)) = Cons(c, e)
            BY <1>2, <2>1, <2>2, <2>7
        <3> QED
            BY <2>1, <2>4, <2>7, <3>1
    <2> QED
        BY <2>5, <2>6, <2>7
<1>5. Seq(Chars) \subseteq X
    <2> HIDE DEF X
    <2> QED
        BY <1>3, <1>4, SeqSetInduction
<1> QED
    BY <1>5 DEF R

\* Then it takes the escapes of the slashes back.
LEMMA SlashesComeBack ==
    ASSUME NEW s \in Seq(Chars)
    PROVE  Joined(Escaped(s, Slash), Slash, Slash, Slash) = s
<1> DEFINE R(x) == Joined(x, Slash, Slash, Slash)
           X == {x \in Seq(Chars) : R(Escaped(x, Slash)) = x}
<1>1. Slash \in Chars
    BY CharsAreDistinct
<1>2. \A c \in Chars, v \in Seq(Chars) :
        /\ R(<<>>) = <<>>
        /\ c # Slash => R(Cons(c, v)) = Cons(c, R(v))
        /\ R(Cons(Slash, Cons(Slash, v))) = Cons(Slash, R(v))
    BY <1>1, JoinedCons
<1> HIDE DEF R
<1>3. <<>> \in X
    BY <1>1, <1>2, EmptySeq, EscapedCons
<1>4. ASSUME NEW c \in Chars, NEW t \in Seq(Chars), t \in X
      PROVE  Cons(c, t) \in X
    <2> DEFINE e == Escaped(t, Slash)
    <2>1. /\ Escaped(Cons(c, t), Slash) = IF c = Slash THEN Cons(Slash, Cons(Slash, e))
                                          ELSE Cons(c, e)
          /\ e \in Seq(Chars)
        BY <1>1, EscapedCons
    <2>2. R(e) = t /\ Cons(c, t) \in Seq(Chars)
        BY <1>4, ConsProperties
    <2> HIDE DEF e
    <2>3. R(Escaped(Cons(c, t), Slash)) = Cons(c, t)
        BY <1>1, <1>2, <2>1, <2>2
    <2> QED
        BY <2>2, <2>3
<1>5. Seq(Chars) \subseteq X
    <2> HIDE DEF X
    <2> QED
        BY <1>3, <1>4, SeqSetInduction
<1> QED
    BY <1>5 DEF R

(***************************************************************************)
(* What is escaped, and that a quoted text is taken for one.               *)
(***************************************************************************)

\* The places of a text that a slash escapes, as the scanner counts them: no
\* quote stands elsewhere, and the last slash escapes something.
Places(u, E) ==
    /\ E \subseteq 2..Len(u)
    /\ \A k \in 1..Len(u) : /\ k + 1 \in E <=> k \notin E /\ u[k] = Slash
                            /\ u[k] = Quote => k \in E

\* One more character in front, that needs no escape.
LEMMA PlacesOfOne ==
    ASSUME NEW n \in Nat, NEW u, NEW E, Places(u, E), Len(u) = n,
           NEW c, c # Slash, c # Quote,
           NEW w, Len(w) = n + 1, w[1] = c, \A i \in 1..n : w[i + 1] = u[i]
    PROVE  \E F : Places(w, F)
<1> DEFINE F == {k \in 2..(n + 1) : k - 1 \in E}
<1>1. /\ E \subseteq 2..n
      /\ \A k \in 1..n : /\ k + 1 \in E <=> k \notin E /\ u[k] = Slash
                         /\ u[k] = Quote => k \in E
    BY DEF Places
<1>2. \A k \in 2..(n + 1) : k - 1 \in 1..n /\ w[k] = u[k - 1] /\ (k - 1) + 1 = k /\ (k + 1) - 1 = k
    <2> SUFFICES ASSUME NEW k \in 2..(n + 1) PROVE w[k] = u[k - 1]
        OBVIOUS
    <2>1. k - 1 \in 1..n /\ (k - 1) + 1 = k
        OBVIOUS
    <2>2. w[(k - 1) + 1] = u[k - 1]
        BY <2>1
    <2> QED
        BY <2>1, <2>2
<1>3. ASSUME NEW k \in 1..(n + 1)
      PROVE  /\ k + 1 \in F <=> k \notin F /\ w[k] = Slash
             /\ w[k] = Quote => k \in F
    <2>1. CASE k = 1
        <3>1. 1 \notin F /\ 1 \notin E
            BY <1>1
        <3>2. 1 + 1 \notin F
            BY <3>1
        <3> QED
            BY <2>1, <3>1, <3>2
    <2>2. CASE k # 1
        <3>1. k \in 2..(n + 1)
            BY <2>2
        <3>2. k \in F <=> k - 1 \in E
            BY <3>1
        <3>3. k + 1 \in F <=> k \in E
            <4>1. k \in E => k + 1 \in 2..(n + 1)
                BY <1>1, <3>1
            <4>2. (k + 1) - 1 = k
                OBVIOUS
            <4> QED
                BY <4>1, <4>2
        <3>4. /\ (k - 1) + 1 \in E <=> k - 1 \notin E /\ u[k - 1] = Slash
              /\ u[k - 1] = Quote => k - 1 \in E
            BY <1>1, <1>2, <3>1
        <3>5. w[k] = u[k - 1] /\ (k - 1) + 1 = k
            BY <1>2, <3>1
        <3> HIDE DEF F
        <3> QED
            BY <3>2, <3>3, <3>4, <3>5
    <2> QED
        BY <2>1, <2>2
<1>4. F \subseteq 2..(n + 1)
    OBVIOUS
<1> HIDE DEF F
<1> QED
    BY <1>3, <1>4 DEF Places

\* One more character in front, with a slash before it.
LEMMA PlacesOfTwo ==
    ASSUME NEW u, Len(u) \in Nat, NEW E, Places(u, E), NEW w,
           Len(w) = Len(u) + 2, w[1] = Slash, \A i \in 1..Len(u) : w[i + 2] = u[i]
    PROVE  \E F : Places(w, F)
<1> DEFINE n == Len(u)
<1>0. n \in Nat /\ Len(w) = n + 2 /\ \A i \in 1..n : w[i + 2] = u[i]
    OBVIOUS
<1>1. /\ E \subseteq 2..n
      /\ \A k \in 1..n : /\ k + 1 \in E <=> k \notin E /\ u[k] = Slash
                         /\ u[k] = Quote => k \in E
    BY DEF Places
<1>2. Quote # Slash
    BY CharsAreDistinct
<1> HIDE DEF n
<1> DEFINE F == {k \in 2..(n + 2) : k = 2 \/ k - 2 \in E}
<1>3. ASSUME NEW k \in 1..(n + 2)
      PROVE  /\ k + 1 \in F <=> k \notin F /\ w[k] = Slash
             /\ w[k] = Quote => k \in F
    <2>1. 1 \notin F /\ 2 \in F /\ 3 \notin F
        BY <1>0, <1>1
    <2>2. CASE k = 1
        BY <1>2, <2>1, <2>2
    <2>3. CASE k = 2
        BY <2>1, <2>3
    <2>4. CASE k > 2
        <3>1. k - 2 \in 1..n /\ (k - 2) + 2 = k /\ (k - 2) + 1 = k - 1
            BY <1>0, <2>4
        <3>2. k \in F <=> k - 2 \in E
            BY <2>4
        <3>3. k + 1 \in F <=> k - 1 \in E
            <4>1. k - 1 \in E => k + 1 \in 2..(n + 2)
                BY <1>0, <1>1, <2>4
            <4>2. (k + 1) - 2 = k - 1 /\ k + 1 # 2
                BY <2>4
            <4> QED
                BY <4>1, <4>2
        <3>4. /\ (k - 2) + 1 \in E <=> k - 2 \notin E /\ u[k - 2] = Slash
              /\ u[k - 2] = Quote => k - 2 \in E
            BY <1>1, <3>1
        <3>5. w[(k - 2) + 2] = u[k - 2]
            BY <1>0, <3>1
        <3> HIDE DEF F
        <3> QED
            BY <3>1, <3>2, <3>3, <3>4, <3>5
    <2> QED
        BY <1>0, <2>2, <2>3, <2>4
<1>4. F \subseteq 2..(n + 2)
    BY <1>0
<1> HIDE DEF F
<1> QED
    BY <1>0, <1>3, <1>4 DEF Places

\* What is between the quotes has such places.
LEMMA PlacesExist ==
    ASSUME NEW s \in Seq(Chars)
    PROVE  \E E : Places(Enc(s), E)
<1> DEFINE X == {x \in Seq(Chars) : \E E : Places(Enc(x), E)}
<1>1. Quote \in Chars /\ Slash \in Chars /\ Quote # Slash
    BY CharsAreDistinct
<1>2. <<>> \in X
    <2>1. Enc(<<>>) = <<>>
        BY <1>1, EmptySeq, EncCons
    <2>2. Places(<<>>, {})
        BY EmptySeq DEF Places
    <2>3. \E E : Places(Enc(<<>>), E)
        BY <2>1, <2>2, Zenon
    <2> QED
        BY <2>3, EmptySeq
<1>3. ASSUME NEW c \in Chars, NEW t \in Seq(Chars), t \in X
      PROVE  Cons(c, t) \in X
    <2> DEFINE u == Enc(t)
               v == Cons(c, u)
               w == Cons(Slash, v)
    <2>1. /\ u \in Seq(Chars)
          /\ Enc(Cons(c, t)) = IF c \in {Slash, Quote} THEN w ELSE v
        BY EncCons
    <2>2. PICK E : Places(u, E)
        BY <1>3
    <2>3. Len(u) \in Nat
        BY <2>1, LenProperties
    <2> HIDE DEF u
    <2>4. /\ v \in Seq(Chars) /\ Len(v) = Len(u) + 1 /\ v[1] = c
          /\ \A i \in 1..Len(u) : v[i + 1] = u[i]
        BY <2>1, ConsProperties
    <2> HIDE DEF v
    <2>5. CASE c \in {Slash, Quote}
        <3>1. Len(w) = Len(v) + 1 /\ w[1] = Slash /\ \A i \in 1..Len(v) : w[i + 1] = v[i]
            BY <1>1, <2>4, ConsElements
        <3> HIDE DEF w
        <3>2. \A i \in 1..Len(u) : w[i + 2] = u[i]
            <4> SUFFICES ASSUME NEW i \in 1..Len(u) PROVE w[i + 2] = u[i]
                OBVIOUS
            <4>1. i + 1 \in 1..Len(v) /\ (i + 1) + 1 = i + 2
                BY <2>3, <2>4
            <4>2. w[(i + 1) + 1] = v[i + 1] /\ v[i + 1] = u[i]
                BY <2>4, <3>1, <4>1
            <4> QED
                BY <4>1, <4>2
        <3>3. Len(w) = Len(u) + 2
            BY <2>3, <2>4, <3>1
        <3>4. \E F : Places(w, F)
            BY <2>2, <2>3, <3>1, <3>2, <3>3, PlacesOfTwo
        <3>5. \E F : Places(Enc(Cons(c, t)), F)
            BY <2>1, <2>5, <3>4
        <3> QED
            BY <3>5, ConsInSeq
    <2>6. CASE c \notin {Slash, Quote}
        <3>1. \E F : Places(v, F)
            BY <2>2, <2>3, <2>4, <2>6, PlacesOfOne
        <3>2. \E F : Places(Enc(Cons(c, t)), F)
            BY <2>1, <2>6, <3>1
        <3> QED
            BY <3>2, ConsInSeq
    <2> QED
        BY <2>5, <2>6
<1>4. Seq(Chars) \subseteq X
    <2> HIDE DEF X
    <2> QED
        BY <1>2, <1>3, SeqSetInduction
<1> QED
    BY <1>4

\* From which places on nothing is wrong with a text between quotes.
Free(inner) ==
    CHOOSE f : f = [k \in 1..(Len(inner) + 2) |->
        k > Len(inner)
          \/ IF inner[k] = Slash THEN k < Len(inner) /\ f[k + 2]
             ELSE inner[k] # Quote /\ f[k + 1]]

\* The expression of str asks that nothing is wrong from the first place on.
LEMMA IsQuotedIsFree ==
    ASSUME NEW v
    PROVE  IsQuoted(v) <=> /\ Len(v) > 1 /\ v[1] = Quote /\ v[Len(v)] = Quote
                           /\ Free(SubSeq(v, 2, Len(v) - 1))[1]
BY DEF IsQuoted, Free

\* So a text with such places is taken for a quoted one.
LEMMA FreeAtTheFront ==
    ASSUME NEW u \in Seq(Chars), NEW E, Places(u, E)
    PROVE  Free(u)[1]
<1> DEFINE n == Len(u)
           D == 1..(n + 2)
           p == Free(u)
           step == [k \in 1..n |-> [x \in BOOLEAN \X BOOLEAN |->
                      IF u[k] = Slash THEN k < n /\ x[2] ELSE u[k] # Quote /\ x[1]]]
<1>1. n \in Nat
    BY LenProperties
<1>2. /\ E \subseteq 2..n
      /\ \A k \in 1..n : /\ k + 1 \in E <=> k \notin E /\ u[k] = Slash
                         /\ u[k] = Quote => k \in E
    BY DEF Places
<1> HIDE DEF n
<1>3. p = [k \in D |-> k > n \/ IF u[k] = Slash THEN k < n /\ p[k + 2]
                                ELSE u[k] # Quote /\ p[k + 1]]
    <2>1. step \in [1..n -> [BOOLEAN \X BOOLEAN -> BOOLEAN]]
        OBVIOUS
    <2>2. \A k \in 1..n, y, z \in BOOLEAN :
            step[k][<<y, z>>] = IF u[k] = Slash THEN k < n /\ z ELSE u[k] # Quote /\ y
        OBVIOUS
    <2> HIDE DEF step
    <2>3. PICK f \in Backward(n, BOOLEAN, TRUE, step) : TRUE
        BY <1>1, <2>1, BackwardRecursion
    <2>4. f \in [D -> BOOLEAN] /\ \A k \in D :
            f[k] = IF k > n THEN TRUE ELSE step[k][<<f[k + 1], f[k + 2]>>]
        BY <2>3 DEF Backward
    <2>5. \A k \in D : f[k] = (k > n \/ IF u[k] = Slash THEN k < n /\ f[k + 2]
                                        ELSE u[k] # Quote /\ f[k + 1])
        <3> SUFFICES ASSUME NEW k \in D
                     PROVE  f[k] = (k > n \/ IF u[k] = Slash THEN k < n /\ f[k + 2]
                                             ELSE u[k] # Quote /\ f[k + 1])
            OBVIOUS
        <3>1. CASE k > n
            BY <2>4, <3>1
        <3>2. CASE ~(k > n)
            <4>1. k \in 1..n /\ k + 1 \in D /\ k + 2 \in D
                BY <1>1, <3>2
            <4>2. f[k + 1] \in BOOLEAN /\ f[k + 2] \in BOOLEAN /\ f[k] \in BOOLEAN
                BY <2>4, <4>1
            <4>3. f[k] = step[k][<<f[k + 1], f[k + 2]>>]
                BY <2>4, <3>2
            <4>4. f[k] = IF u[k] = Slash THEN k < n /\ f[k + 2] ELSE u[k] # Quote /\ f[k + 1]
                BY <2>2, <4>1, <4>2, <4>3
            <4> QED
                BY <3>2, <4>2, <4>4
        <3> QED
            BY <3>1, <3>2
    <2>6. f = [k \in D |-> f[k]]
        BY <2>4
    <2>7. f = [k \in D |-> k > n \/ IF u[k] = Slash THEN k < n /\ f[k + 2]
                                    ELSE u[k] # Quote /\ f[k + 1]]
        BY <2>5, <2>6
    <2> QED
        BY <2>7 DEF Free, n
<1> HIDE DEF p
<1>4. \A k \in D : p[k] <=> k > n \/ IF u[k] = Slash THEN k < n /\ p[k + 2]
                                      ELSE u[k] # Quote /\ p[k + 1]
    BY <1>3
<1> DEFINE M == {m \in Nat : \A k \in D : k > n - m /\ k \notin E => p[k]}
<1>5. 0 \in M
    BY <1>1, <1>4
<1>6. ASSUME NEW m \in Nat, m \in M PROVE m + 1 \in M
    <2> SUFFICES ASSUME NEW k \in D, k > n - (m + 1), k \notin E PROVE p[k]
        OBVIOUS
    <2>1. CASE k > n
        BY <2>1, <1>4
    <2>2. CASE ~(k > n)
        <3>1. /\ k \in 1..n /\ k + 1 \in D /\ k + 2 \in D /\ k + 1 > n - m /\ k + 2 > n - m
              /\ (k + 1) + 1 = k + 2
            BY <1>1, <2>2
        <3>2. \A l \in D : l > n - m /\ l \notin E => p[l]
            BY <1>6
        <3>3. CASE u[k] = Slash
            <4>1. k + 1 \in E
                BY <1>2, <3>1, <3>3
            <4>2. k + 1 \in 1..n
                BY <1>1, <1>2, <3>1, <4>1
            <4>3. k + 2 \notin E
                BY <1>2, <3>1, <4>1, <4>2
            <4>4. p[k + 2]
                BY <3>1, <3>2, <4>3
            <4>5. k < n
                BY <1>1, <3>1, <4>2
            <4> QED
                BY <1>4, <3>3, <4>4, <4>5
        <3>4. CASE u[k] # Slash
            <4>1. u[k] # Quote /\ k + 1 \notin E
                BY <1>2, <3>1, <3>4
            <4>2. p[k + 1]
                BY <3>1, <3>2, <4>1
            <4> QED
                BY <1>4, <3>4, <4>1, <4>2
        <3> QED
            BY <3>3, <3>4
    <2> QED
        BY <2>1, <2>2
<1>7. n \in M
    <2>1. Nat \subseteq M
        <3> HIDE DEF M
        <3> QED
            BY <1>5, <1>6, NatSetInduction
    <2> HIDE DEF M
    <2> QED
        BY <1>1, <2>1
<1>8. 1 \in D /\ 1 > n - n /\ 1 \notin E
    BY <1>1, <1>2
<1>9. p[1]
    BY <1>7, <1>8
<1> QED
    BY <1>9 DEF p

\* The text of a value has its quotes around it.
LEMMA TextOfValue ==
    ASSUME NEW s \in Seq(Chars)
    PROVE  LET u == Enc(s)
               v == T(s)
           IN /\ u \in Seq(Chars) /\ v \in Seq(Chars) /\ Len(v) = Len(u) + 2
              /\ v[1] = Quote /\ v[Len(v)] = Quote
              /\ \A k \in 1..Len(u) : v[k + 1] = u[k]
              /\ SubSeq(v, 2, Len(v) - 1) = u
<1> DEFINE u == Enc(s)
           v == T(s)
           q == <<Quote>>
           x == q \o u
           n == Len(u)
<1>1. u \in Seq(Chars)
    BY EncCons, CharsAreDistinct
<1>2. n \in Nat /\ \A k \in 1..n : u[k] \in Chars
    BY <1>1, LenProperties, ElementOfSeq
<1>3. v = x \o q
    BY DEF T, Quoted, Enc
<1>4. q \in Seq(Chars) /\ Len(q) = 1 /\ q[1] = Quote
    BY CharsAreDistinct
<1> HIDE DEF u, v, q, n
<1>5. /\ x \in Seq(Chars) /\ Len(x) = n + 1
      /\ \A k \in 1..(n + 1) : x[k] = IF k <= 1 THEN q[k] ELSE u[k - 1]
    <2>1. /\ x \in Seq(Chars) /\ Len(x) = Len(q) + Len(u)
          /\ \A k \in 1..(Len(q) + Len(u)) : x[k] = IF k <= Len(q) THEN q[k] ELSE u[k - Len(q)]
        BY <1>1, <1>4, ConcatProperties
    <2>2. Len(q) + Len(u) = n + 1
        BY <1>2, <1>4 DEF n
    <2> HIDE DEF x
    <2> QED
        BY <2>1, <2>2, <1>4
<1> HIDE DEF x
<1>6. /\ v \in Seq(Chars) /\ Len(v) = n + 2
      /\ \A k \in 1..(n + 2) : v[k] = IF k <= n + 1 THEN x[k] ELSE q[k - (n + 1)]
    <2>1. /\ v \in Seq(Chars) /\ Len(v) = Len(x) + Len(q)
          /\ \A k \in 1..(Len(x) + Len(q)) : v[k] = IF k <= Len(x) THEN x[k] ELSE q[k - Len(x)]
        BY <1>3, <1>4, <1>5, ConcatProperties
    <2>2. Len(x) + Len(q) = n + 2
        BY <1>2, <1>4, <1>5
    <2> QED
        BY <2>1, <2>2, <1>5
<1>7. v[1] = Quote /\ v[n + 2] = Quote
    <2>1. 1 \in 1..(n + 2) /\ n + 2 \in 1..(n + 2) /\ (n + 2) - (n + 1) = 1 /\ 1 <= n + 1
          /\ ~(n + 2 <= n + 1) /\ 1 \in 1..(n + 1) /\ 1 <= 1
        BY <1>2
    <2>2. v[1] = x[1] /\ x[1] = q[1]
        BY <1>5, <1>6, <2>1
    <2>3. v[n + 2] = q[1]
        BY <1>6, <2>1
    <2> QED
        BY <1>4, <2>2, <2>3
<1>8. \A k \in 1..n : v[k + 1] = u[k]
    <2> SUFFICES ASSUME NEW k \in 1..n PROVE v[k + 1] = u[k]
        OBVIOUS
    <2>1. /\ k + 1 \in 1..(n + 2) /\ k + 1 \in 1..(n + 1) /\ k + 1 <= n + 1 /\ ~(k + 1 <= 1)
          /\ (k + 1) - 1 = k
        BY <1>2
    <2>2. v[k + 1] = x[k + 1] /\ x[k + 1] = u[k]
        BY <1>5, <1>6, <2>1
    <2> QED
        BY <2>2
<1>9. SubSeq(v, 2, n + 1) = u
    <2> DEFINE y == SubSeq(v, 2, n + 1)
    <2>1. 2 \in Int /\ n + 1 \in Int /\ \A k \in 2..(n + 1) : v[k] \in Chars
        <3> SUFFICES ASSUME NEW k \in 2..(n + 1) PROVE v[k] \in Chars
            BY <1>2
        <3>1. k \in 1..Len(v)
            BY <1>2, <1>6
        <3> QED
            BY <1>6, <3>1, ElementOfSeq
    <2>2. /\ y \in Seq(Chars) /\ Len(y) = IF 2 <= n + 1 THEN (n + 1) - 2 + 1 ELSE 0
          /\ \A k \in 1..((n + 1) - 2 + 1) : y[k] = v[2 + k - 1]
        BY <2>1, SubSeqProperties
    <2> HIDE DEF y
    <2>3. Len(y) = n
        BY <1>2, <2>2
    <2>4. \A k \in 1..n : y[k] = u[k]
        <3> SUFFICES ASSUME NEW k \in 1..n PROVE y[k] = u[k]
            OBVIOUS
        <3>1. k \in 1..((n + 1) - 2 + 1) /\ 2 + k - 1 = k + 1
            BY <1>2
        <3> QED
            BY <1>8, <2>2, <3>1
    <2>5. Len(y) = Len(u)
        BY <2>3 DEF n
    <2>6. y = u
        BY <1>1, <2>2, <2>3, <2>4, <2>5, SeqEqual
    <2> QED
        BY <2>6 DEF y
<1>10. Len(v) - 1 = n + 1
    BY <1>2, <1>6
<1> QED
    BY <1>1, <1>6, <1>7, <1>8, <1>9, <1>10 DEF n, u, v

\* A text that was quoted is read as it was: whatever is escaped, str finds
\* the quotes and undoes both escapes (toml-codec.ts).
LEMMA StrOfText ==
    ASSUME NEW s \in Seq(Chars)
    PROVE  str(T(s)) = s
<1> DEFINE u == Enc(s)
           v == T(s)
<1>1. /\ u \in Seq(Chars) /\ Len(v) = Len(u) + 2 /\ v[1] = Quote /\ v[Len(v)] = Quote
      /\ SubSeq(v, 2, Len(v) - 1) = u
    BY TextOfValue
<1>2. PICK E : Places(u, E)
    BY PlacesExist
<1>3. IsQuoted(v)
    <2>1. Free(u)[1]
        BY <1>1, <1>2, FreeAtTheFront
    <2>2. Len(v) > 1
        BY <1>1, LenProperties
    <2> HIDE DEF u, v
    <2> QED
        BY <1>1, <2>1, <2>2, IsQuotedIsFree, Zenon
<1>4. Unquoted(v) = Joined(Joined(u, Slash, Quote, Quote), Slash, Slash, Slash)
    BY <1>1, Zenon DEF Unquoted, Joined
<1>5. Unquoted(v) = s
    BY <1>4, QuotesComeBack, SlashesComeBack, Zenon
<1> QED
    BY <1>3, <1>5, Zenon DEF str

(***************************************************************************)
(* The scanner.                                                            *)
(***************************************************************************)

\* What may follow a value in its line.
Comments == {<<>>, <<Hash, Quote, Other>>}

\* Where the text of the value stands in its line.
LEMMA LineOfText ==
    ASSUME NEW s \in Seq(Chars), NEW l, \E comment \in Comments : l = T(s) \o comment
    PROVE  LET u == Enc(s)
               n == Len(T(s))
           IN /\ l \in Seq(Chars) /\ n \in Nat /\ n = Len(u) + 2 /\ Len(u) \in Nat
              /\ l[1] = Quote /\ l[n] = Quote
              /\ \A k \in 2..(n - 1) : l[k] = u[k - 1]
              /\ SubSeq(l, 1, n) = T(s)
              /\ \/ Len(l) = n /\ l = T(s)
                 \/ Len(l) = n + 3 /\ l[n + 1] = Hash
<1> DEFINE u == Enc(s)
           v == T(s)
           n == Len(v)
<1>1. PICK comment \in Comments : l = v \o comment
    OBVIOUS
<1>2. /\ u \in Seq(Chars) /\ v \in Seq(Chars) /\ n = Len(u) + 2
      /\ v[1] = Quote /\ v[n] = Quote
      /\ \A k \in 1..Len(u) : v[k + 1] = u[k]
    BY TextOfValue
<1>3. n \in Nat /\ Len(u) \in Nat /\ v = SubSeq(v, 1, n)
    BY <1>2, LenProperties, SubSeqFull
<1> HIDE DEF u, v, n
<1>4. \A k \in 2..(n - 1) : v[k] = u[k - 1]
    <2> SUFFICES ASSUME NEW k \in 2..(n - 1) PROVE v[k] = u[k - 1]
        OBVIOUS
    <2>1. k - 1 \in 1..Len(u) /\ (k - 1) + 1 = k
        BY <1>2, <1>3
    <2>2. v[(k - 1) + 1] = u[k - 1]
        BY <1>2, <2>1
    <2> QED
        BY <2>1, <2>2
<1>5. CASE comment = <<>>
    <2>1. l = v
        BY <1>1, <1>2, <1>5, ConcatEmptySeq
    <2>2. Len(l) = n /\ SubSeq(l, 1, n) = v
        BY <1>3, <2>1 DEF n
    <2> QED
        BY <1>2, <1>3, <1>4, <2>1, <2>2 DEF u, v, n
<1>6. CASE comment = <<Hash, Quote, Other>>
    <2> DEFINE c == <<Hash, Quote, Other>>
    <2>1. c \in Seq(Chars) /\ Len(c) = 3 /\ c[1] = Hash
        BY CharsAreDistinct
    <2>2. l = v \o c
        BY <1>1, <1>6
    <2> HIDE DEF c
    <2>3. /\ l \in Seq(Chars) /\ Len(l) = Len(v) + Len(c)
          /\ \A k \in 1..(Len(v) + Len(c)) : l[k] = IF k <= Len(v) THEN v[k] ELSE c[k - Len(v)]
        BY <1>2, <2>1, <2>2, ConcatProperties
    <2>4. Len(v) = n
        BY DEF n
    <2>5. /\ Len(l) = n + 3
          /\ \A k \in 1..(n + 3) : l[k] = IF k <= n THEN v[k] ELSE c[k - n]
        BY <1>3, <2>1, <2>3, <2>4
    <2>6. \A k \in 1..n : l[k] = v[k]
        <3>1. \A k \in 1..n : k \in 1..(n + 3) /\ k <= n
            BY <1>3
        <3> QED
            BY <2>5, <3>1
    <2>7. l[n + 1] = Hash
        <3>1. n + 1 \in 1..(n + 3) /\ ~(n + 1 <= n) /\ (n + 1) - n = 1
            BY <1>3
        <3> QED
            BY <2>1, <2>5, <3>1
    <2>8. SubSeq(l, 1, n) = v
        <3> DEFINE y == SubSeq(l, 1, n)
        <3>1. n \in 0..Len(l)
            BY <1>3, <2>5
        <3>2. y \in Seq(Chars) /\ Len(y) = n /\ \A k \in 1..n : y[k] = l[k]
            BY <2>3, <3>1, FrontOfSequence
        <3>3. \A k \in 1..n : y[k] = v[k]
            BY <2>6, <3>2
        <3> HIDE DEF y
        <3>4. y = v
            BY <1>2, <2>4, <3>2, <3>3, SeqEqual
        <3> QED
            BY <3>4 DEF y
    <2>9. l[1] = Quote /\ l[n] = Quote
        <3>1. 1 \in 1..n /\ n \in 1..n
            BY <1>2, <1>3
        <3> QED
            BY <1>2, <2>6, <3>1
    <2>10. \A k \in 2..(n - 1) : l[k] = u[k - 1]
        <3> SUFFICES ASSUME NEW k \in 2..(n - 1) PROVE l[k] = u[k - 1]
            OBVIOUS
        <3>1. k \in 1..n
            BY <1>3
        <3>2. l[k] = v[k] /\ v[k] = u[k - 1]
            BY <1>4, <2>6, <3>1
        <3> QED
            BY <3>2
    <2> QED
        BY <1>2, <1>3, <2>3, <2>5, <2>7, <2>8, <2>9, <2>10 DEF u, v, n
<1> QED
    BY <1>5, <1>6 DEF Comments

\* The escaped places of the value, and the place of its last quote.
Escapes == CHOOSE E : Places(Enc(value), E)
End == Len(T(value))

\* The scanner at a place of the line: inside the text of the value it is
\* between double quotes, and it has seen a slash that escapes just where one
\* stands before.  ValueComesBack alone says nothing before the end.
Scanned ==
    /\ value \in Seq(Chars)
    /\ \E comment \in Comments : line = T(value) \o comment
    /\ at \in 1..(Len(line) + 1)
    /\ inDouble \in BOOLEAN /\ escaped \in BOOLEAN /\ inSingle = FALSE
    /\ at = 1 => ~inDouble /\ ~escaped /\ cut = 0
    /\ at \in 2..End => inDouble /\ (escaped <=> at - 1 \in Escapes) /\ cut = 0
    /\ at = End + 1 => ~inDouble /\ ~escaped /\ cut = 0
    /\ at > End + 1 => at = End + 2 /\ cut = End + 1

\* It begins before the first quote.
LEMMA ScannedAtFirst == TextInit => Scanned
<1> SUFFICES ASSUME TextInit PROVE Scanned
    OBVIOUS
<1>1. value \in Seq(Chars)
    <2>1. PICK m \in 0..MaxText : value \in [1..m -> Chars]
        BY DEF TextInit, SeqOf
    <2>2. m \in Nat
        OBVIOUS
    <2> QED
        BY <2>1, <2>2
<1>2. \E comment \in Comments : line = T(value) \o comment
    BY DEF TextInit, Comments
<1>3. Len(line) \in Nat /\ End \in Nat /\ End > 1
    <2>1. line \in Seq(Chars) /\ End \in Nat /\ End = Len(Enc(value)) + 2 /\ Len(Enc(value)) \in Nat
        BY <1>1, <1>2, LineOfText DEF End
    <2> QED
        BY <2>1, LenProperties
<1>4. /\ at = 1 /\ cut = 0
      /\ inDouble = FALSE /\ inSingle = FALSE /\ escaped = FALSE
    BY DEF TextInit
<1>5. 1 \in 1..(Len(line) + 1) /\ 1 \notin 2..End /\ 1 # End + 1 /\ ~(1 > End + 1)
    BY <1>3
<1>6. inDouble \in BOOLEAN /\ escaped \in BOOLEAN
    BY <1>4
<1> QED
    BY <1>1, <1>2, <1>4, <1>5, <1>6, Zenon DEF Scanned

\* Every turn of the loop keeps to it: only the last quote ends the text, and
\* only a hash behind it cuts the line (stripInlineComment).
LEMMA ScannedKept ==
    ASSUME Scanned, [TextNext]_textVars
    PROVE  Scanned'
<1> DEFINE n == End
           u == Enc(value)
<1>1. /\ value \in Seq(Chars) /\ at \in 1..(Len(line) + 1)
      /\ \E comment \in Comments : line = T(value) \o comment
      /\ inDouble \in BOOLEAN /\ escaped \in BOOLEAN /\ inSingle = FALSE
    BY DEF Scanned
<1>2. /\ line \in Seq(Chars) /\ n \in Nat /\ n = Len(u) + 2 /\ Len(u) \in Nat
      /\ line[1] = Quote /\ line[n] = Quote
      /\ \A k \in 2..(n - 1) : line[k] = u[k - 1]
      /\ \/ Len(line) = n
         \/ Len(line) = n + 3 /\ line[n + 1] = Hash
    BY <1>1, LineOfText DEF End
<1>3. Places(u, Escapes)
    BY <1>1, PlacesExist DEF Escapes
<1>4. /\ Escapes \subseteq 2..Len(u)
      /\ \A k \in 1..Len(u) : /\ k + 1 \in Escapes <=> k \notin Escapes /\ u[k] = Slash
                              /\ u[k] = Quote => k \in Escapes
    BY <1>3 DEF Places
<1>5. /\ at = 1 => ~inDouble /\ ~escaped /\ cut = 0
      /\ at \in 2..n => inDouble /\ (escaped <=> at - 1 \in Escapes) /\ cut = 0
      /\ at = n + 1 => ~inDouble /\ ~escaped /\ cut = 0
      /\ at > n + 1 => at = n + 2 /\ cut = n + 1
    BY DEF Scanned
<1>6. Quote # Slash /\ Quote # Hash /\ Quote # Tick /\ Slash # Hash
    BY CharsAreDistinct
<1>7. CASE UNCHANGED textVars
    BY <1>7, Zenon DEF textVars, Scanned, End, Escapes
<1>8. CASE stripInlineComment
    <2> DEFINE ch == line[at]
               double == ch = Quote /\ ~escaped
    <2>1. /\ at <= Len(line) /\ cut = 0 /\ at' = at + 1
          /\ value' = value /\ line' = line
          /\ escaped' = (~escaped /\ ch = Slash /\ inDouble)
          /\ inDouble' = (inDouble # (ch = Quote /\ ~escaped /\ ~inSingle))
          /\ inSingle' = (inSingle # (ch = Tick /\ ~escaped /\ ~inDouble))
          /\ cut' = IF ch = Hash /\ ~escaped /\ ~inDouble /\ ~inSingle THEN at ELSE 0
        BY <1>8 DEF stripInlineComment
    <2>2. End' = n /\ Escapes' = Escapes
        BY <2>1 DEF End, Escapes
    <2>3. Len(line) \in Nat /\ at \in Nat /\ at >= 1 /\ at' \in 1..(Len(line) + 1)
        BY <1>1, <1>2, <2>1, LenProperties
    <2>4. inDouble' \in BOOLEAN /\ escaped' \in BOOLEAN
        BY <2>1
    <2> HIDE DEF n, u
    <2>5. CASE at = 1
        <3>1. ch = Quote /\ ~inDouble /\ ~escaped
            BY <1>2, <1>5, <2>5
        <3>2. inDouble' /\ ~escaped' /\ cut' = 0
            BY <1>1, <1>6, <2>1, <3>1
        <3>3. inSingle' = FALSE
            BY <1>1, <1>6, <2>1, <3>1
        <3>4. at' = 2 /\ 2 \in 2..n /\ 2 # n + 1 /\ ~(2 > n + 1)
            BY <1>2, <2>1, <2>5
        <3>5. 2 - 1 \notin Escapes
            BY <1>2, <1>4
        <3> QED
            BY <1>1, <2>1, <2>2, <2>3, <2>4, <3>2, <3>3, <3>4, <3>5 DEF Scanned, n
    <2>6. CASE at \in 2..(n - 1)
        <3>1. inDouble /\ (escaped <=> at - 1 \in Escapes)
            BY <1>2, <1>5, <2>6
        <3>2. ch = u[at - 1] /\ at - 1 \in 1..Len(u) /\ (at - 1) + 1 = at
            BY <1>2, <2>6
        <3>3. /\ at \in Escapes <=> at - 1 \notin Escapes /\ ch = Slash
              /\ ch = Quote => at - 1 \in Escapes
            BY <1>4, <3>2
        <3> HIDE DEF ch
        <3>4. inDouble' /\ inSingle' = FALSE /\ cut' = 0
            BY <1>1, <2>1, <3>1, <3>3
        <3>5. escaped' <=> at \in Escapes
            BY <2>1, <3>1, <3>3
        <3>6. /\ at' \in 2..n /\ at' - 1 = at /\ at' # 1 /\ at' # n + 1 /\ ~(at' > n + 1)
            BY <1>2, <2>1, <2>6
        <3> QED
            BY <1>1, <2>1, <2>2, <2>3, <2>4, <3>4, <3>5, <3>6 DEF Scanned, n
    <2>7. CASE at = n
        <3>1. inDouble /\ (escaped <=> n - 1 \in Escapes)
            BY <1>2, <1>5, <2>7
        <3>2. ch = Quote /\ n - 1 \notin Escapes
            BY <1>2, <1>4, <2>7
        <3> HIDE DEF ch
        <3>3. ~inDouble' /\ ~escaped' /\ inSingle' = FALSE /\ cut' = 0
            BY <1>1, <1>6, <2>1, <3>1, <3>2
        <3>4. at' = n + 1 /\ n + 1 # 1 /\ n + 1 \notin 2..n /\ ~(n + 1 > n + 1)
            BY <1>2, <2>1, <2>7
        <3> QED
            BY <1>1, <2>1, <2>2, <2>3, <2>4, <3>3, <3>4 DEF Scanned, n
    <2>8. CASE at = n + 1
        <3>1. ~inDouble /\ ~escaped
            BY <1>5, <2>8
        <3>2. ch = Hash
            BY <1>2, <2>1, <2>8
        <3> HIDE DEF ch
        <3>3. inSingle' = FALSE /\ cut' = n + 1
            BY <1>1, <2>1, <2>8, <3>1, <3>2, CharsAreDistinct
        <3>4. at' = n + 2 /\ n + 2 # 1 /\ n + 2 \notin 2..n /\ n + 2 # n + 1
            BY <1>2, <2>1, <2>8
        <3> QED
            BY <1>1, <2>1, <2>2, <2>3, <2>4, <3>3, <3>4 DEF Scanned, n
    <2>9. CASE at > n + 1
        <3>1. cut = n + 1 /\ n + 1 # 0
            BY <1>2, <1>5, <2>9
        <3> QED
            BY <2>1, <3>1
    <2> QED
        BY <1>2, <2>3, <2>5, <2>6, <2>7, <2>8, <2>9
<1> QED
    BY <1>7, <1>8 DEF TextNext

\* So the line is cut behind the text, and what is left is the value.
LEMMA ScannedMeans ==
    ASSUME Scanned
    PROVE  ValueComesBack /\ TextTypeOK
<1>1. /\ value \in Seq(Chars) /\ at \in 1..(Len(line) + 1)
      /\ \E comment \in Comments : line = T(value) \o comment
      /\ inDouble \in BOOLEAN /\ escaped \in BOOLEAN /\ inSingle = FALSE
    BY DEF Scanned
<1>2. /\ line \in Seq(Chars) /\ End \in Nat /\ End > 1
      /\ SubSeq(line, 1, End) = T(value)
      /\ \/ Len(line) = End /\ line = T(value)
         \/ Len(line) = End + 3
    <2>1. /\ line \in Seq(Chars) /\ End \in Nat
          /\ End = Len(Enc(value)) + 2 /\ Len(Enc(value)) \in Nat
          /\ SubSeq(line, 1, End) = T(value)
          /\ \/ Len(line) = End /\ line = T(value)
             \/ Len(line) = End + 3
        BY <1>1, LineOfText DEF End
    <2> QED
        BY <2>1
<1>3. Len(line) \in Nat /\ at \in Nat
    BY <1>1, <1>2, LenProperties
<1>4. /\ at <= End + 1 => cut = 0
      /\ at > End + 1 => at = End + 2 /\ cut = End + 1
    BY <1>1, <1>2, <1>3 DEF Scanned
<1>5. cut \in 0..Len(line)
    BY <1>1, <1>2, <1>3, <1>4
<1>6. ASSUME cut # 0 \/ at > Len(line) PROVE str(Stripped) = value
    <2>1. CASE cut # 0
        <3>1. cut - 1 = End
            BY <1>2, <1>3, <1>4, <2>1
        <3>2. Stripped = T(value)
            BY <1>2, <2>1, <3>1 DEF Stripped
        <3> QED
            BY <1>1, <3>2, StrOfText, Zenon
    <2>2. CASE cut = 0
        <3>1. at > Len(line) /\ at <= End + 1
            BY <1>2, <1>3, <1>4, <1>6, <2>2
        <3>2. line = T(value)
            BY <1>2, <1>3, <3>1
        <3>3. Stripped = T(value)
            BY <2>2, <3>2 DEF Stripped
        <3> QED
            BY <1>1, <3>3, StrOfText, Zenon
    <2> QED
        BY <2>1, <2>2
<1> QED
    BY <1>1, <1>5, <1>6 DEF ValueComesBack, TextTypeOK

\* A value that was written is read again as it was, with or without a
\* comment behind it, for values of any length and whatever quotes, slashes
\* and hashes they have (encodeTOML, stripInlineComment, str).
THEOREM ValueComesBackAlways == TextSpec => []ValueComesBack /\ []TextTypeOK
<1>1. TextInit => Scanned
    BY ScannedAtFirst
<1>2. Scanned /\ [TextNext]_textVars => Scanned'
    BY ScannedKept
<1>3. Scanned => ValueComesBack /\ TextTypeOK
    BY ScannedMeans
<1> QED
    BY <1>1, <1>2, <1>3, PTL DEF TextSpec
=============================================================================
