----------------------------- MODULE SequenceLemmas -----------------------------
(***************************************************************************)
(* Facts about sequences that several proofs need: least elements of sets  *)
(* of numbers, and FlattenSeq of the community modules.                    *)
(***************************************************************************)
EXTENDS Naturals, Sequences, SequencesExt, SequenceTheorems, WellFoundedInduction, TLAPS

\* A set of numbers has a least one.
LEMMA LeastNatural ==
    ASSUME NEW S \in SUBSET Nat, S # {}
    PROVE  \E x \in S : \A y \in S : x <= y
<1> DEFINE R == OpToRel(<, Nat)
<1>1. PICK x \in S : \A y \in S : ~(<<y, x>> \in R)
    <2> HIDE DEF R
    <2>1. IsWellFoundedOn(R, Nat)
        BY NatLessThanWellFounded DEF R
    <2> QED BY <2>1, WFMin
<1>2. \A y \in S : ~(y < x)
    BY <1>1 DEF OpToRel
<1> QED BY <1>2

\* A set that has 0, and with a number the next, has them all.
LEMMA Induction ==
    ASSUME NEW n \in Nat, NEW P, 0 \in P, \A k \in 0..(n - 1) : k \in P => k + 1 \in P
    PROVE  0..n \subseteq P
<1> DEFINE bad == {k \in 0..n : k \notin P}
<1> SUFFICES ASSUME bad # {} PROVE FALSE
    OBVIOUS
<1>1. PICK k \in bad : \A j \in bad : k <= j
    <2>1. bad \in SUBSET Nat
        OBVIOUS
    <2> HIDE DEF bad
    <2> QED BY <2>1, LeastNatural
<1>2. k \in 1..n /\ k \notin P
    OBVIOUS
<1>3. k - 1 \in 0..(n - 1) /\ k - 1 \in 0..n /\ k - 1 < k /\ k - 1 + 1 = k
    BY <1>2
<1>4. k - 1 \in P
    BY <1>1, <1>3
<1> QED BY <1>2, <1>3, <1>4

LEMMA MaxOf ==
    ASSUME NEW n \in Nat, NEW s \in SUBSET (1..n), s # {}
    PROVE  /\ Max(s) \in s /\ \A y \in s : Max(s) >= y
           /\ n \in s => Max(s) = n
<1> DEFINE below == {t \in 0..n : n - t \in s}
<1>1. below \in SUBSET Nat /\ below # {}
    <2>1. PICK y \in s : y \in 1..n
        OBVIOUS
    <2>2. n - y \in 0..n /\ n - (n - y) = y
        BY <2>1
    <2>3. n - y \in below
        BY <2>1, <2>2
    <2>4. below \subseteq Nat
        OBVIOUS
    <2> HIDE DEF below
    <2> QED BY <2>3, <2>4
<1>2. PICK x \in below : \A y \in below : x <= y
    <2> HIDE DEF below
    <2> QED BY <1>1, LeastNatural
<1>3. PICK m \in s : m \in 1..n /\ x = n - m
    <2>1. n - x \in s /\ x \in 0..n /\ n - x \in 1..n
        OBVIOUS
    <2>2. n - (n - x) = x
        BY <2>1
    <2> QED BY <2>1, <2>2
<1>4. \A y \in s : m >= y
    <2> SUFFICES ASSUME NEW y \in s PROVE m >= y
        OBVIOUS
    <2>0. y \in 1..n /\ n - y \in 0..n /\ n - (n - y) = y
        OBVIOUS
    <2>1. n - y \in below
        BY <2>0
    <2>2. x <= n - y
        <3> HIDE DEF below
        <3> QED BY <1>2, <2>1
    <2> QED BY <1>3, <2>0, <2>2
<1>5. Max(s) \in s /\ \A y \in s : Max(s) >= y
    BY <1>4 DEF Max
<1>6. ASSUME n \in s PROVE Max(s) = n
    <2>1. Max(s) >= n /\ Max(s) \in 1..n
        BY <1>5, <1>6
    <2> QED BY <2>1
<1> QED BY <1>5, <1>6

LEMMA LengthIs ==
    ASSUME NEW A, NEW q \in Seq(A), NEW n \in Nat, DOMAIN q = 1..n
    PROVE  Len(q) = n
<1>1. PICK m : m = Len(q)
    OBVIOUS
<1>2. m \in Nat /\ 1..m = 1..n
    BY <1>1, LenProperties
<1>3. CASE n = 0
    <2>1. m \notin 1..m
        BY <1>2, <1>3
    <2> QED BY <1>1, <1>2, <1>3, <2>1
<1>4. CASE n # 0
    <2>1. n \in 1..m /\ (m # 0 => m \in 1..n)
        BY <1>2, <1>4
    <2> QED BY <1>1, <1>2, <1>4, <2>1
<1> QED BY <1>3, <1>4

\* A part of a sequence that ends one further on.
LEMMA OneMore ==
    ASSUME NEW T, NEW s \in Seq(T), NEW m \in Nat \ {0}, NEW n \in Nat, m <= n + 1, n < Len(s)
    PROVE  /\ SubSeq(s, m, n) \in Seq(T) /\ s[n + 1] \in T
           /\ Len(SubSeq(s, m, n)) = n - m + 1
           /\ SubSeq(s, m, n + 1) = Append(SubSeq(s, m, n), s[n + 1])
<1>0. Len(s) \in Nat
    OBVIOUS
<1>1. \A i \in m..n : s[i] \in T
    BY <1>0
<1>2. SubSeq(s, m, n) \in Seq(T) /\ Len(SubSeq(s, m, n)) = n - m + 1
    <2>1. n >= m \/ n - m + 1 = 0
        OBVIOUS
    <2> QED BY <1>1, <2>1, SubSeqProperties
<1>3. s[n + 1] \in T
    BY <1>0
<1>4. SubSeq(s, m, n + 1) = SubSeq(s, m, n) \o <<s[n + 1]>>
    <2>1. m \in 1..Len(s) /\ n + 1 \in m..Len(s) /\ n + 1 - 1 = n
        BY <1>0
    <2> QED BY <2>1, SubSeqRecursiveSecond
<1>5. \A p \in Seq(T), t \in T : p \o <<t>> = Append(p, t)
    OBVIOUS
<1> QED BY <1>2, <1>3, <1>4, <1>5

-----------------------------------------------------------------------------
(* Joining a sequence of sequences, one more at a time.                    *)

\* f[i] joins the first i sequences of ss.
Joins(ss, f) == f = [i \in 1..Len(ss) |-> IF i = 1 THEN ss[i] ELSE f[i-1] \o ss[i]]

TheJoins(ss) == CHOOSE f : Joins(ss, f)

LEMMA JoinsUnique ==
    ASSUME NEW ss, Len(ss) \in Nat, NEW f, NEW g, Joins(ss, f), Joins(ss, g)
    PROVE  f = g
<1>1. /\ DOMAIN f = 1..Len(ss) /\ f = [i \in 1..Len(ss) |-> f[i]]
      /\ \A i \in 1..Len(ss) : f[i] = IF i = 1 THEN ss[i] ELSE f[i-1] \o ss[i]
    BY DEF Joins
<1>2. /\ DOMAIN g = 1..Len(ss) /\ g = [i \in 1..Len(ss) |-> g[i]]
      /\ \A i \in 1..Len(ss) : g[i] = IF i = 1 THEN ss[i] ELSE g[i-1] \o ss[i]
    BY DEF Joins
<1> DEFINE bad == {i \in 1..Len(ss) : f[i] # g[i]}
<1>3. bad = {}
    <2> SUFFICES ASSUME bad # {} PROVE FALSE
        OBVIOUS
    <2>1. bad \in SUBSET Nat
        OBVIOUS
    <2>2. PICK i \in bad : \A j \in bad : i <= j
        <3> HIDE DEF bad
        <3> QED BY <2>1, LeastNatural
    <2>3. i \in 1..Len(ss) /\ f[i] # g[i]
        OBVIOUS
    <2>4. i # 1
        BY <1>1, <1>2, <2>3
    <2>5. i - 1 \in 1..Len(ss) /\ i - 1 < i
        BY <2>3, <2>4
    <2>6. i - 1 \notin bad
        <3> HIDE DEF bad
        <3> QED BY <2>1, <2>2, <2>5
    <2>7. f[i - 1] = g[i - 1]
        BY <2>5, <2>6
    <2> QED BY <1>1, <1>2, <2>3, <2>4, <2>7
<1>4. \A i \in 1..Len(ss) : f[i] = g[i]
    BY <1>3
<1> QED BY <1>1, <1>2, <1>4

LEMMA JoinsAppend ==
    ASSUME NEW A, NEW ss \in Seq(Seq(A)), NEW x \in Seq(A),
           NEW f \in Seq(Seq(A)), Len(f) = Len(ss), Joins(ss, f)
    PROVE  LET last == IF ss = <<>> THEN x ELSE f[Len(ss)] \o x
           IN  last \in Seq(A) /\ Joins(Append(ss, x), Append(f, last))
<1> DEFINE n == Len(ss)
           last == IF ss = <<>> THEN x ELSE f[n] \o x
           tt == Append(ss, x)
           g == Append(f, last)
<1>1. n \in Nat /\ (ss = <<>> <=> n = 0)
    OBVIOUS
<1>2. last \in Seq(A)
    <2>1. ss # <<>> => f[n] \in Seq(A)
        BY <1>1
    <2> QED BY <2>1
<1>3. /\ Len(tt) = n + 1 /\ tt[n + 1] = x /\ \A i \in 1..n : tt[i] = ss[i]
    OBVIOUS
<1>4. /\ g \in Seq(Seq(A)) /\ Len(g) = n + 1 /\ g[n + 1] = last /\ \A i \in 1..n : g[i] = f[i]
    <2> HIDE DEF last
    <2> QED BY <1>2
<1>5. \A i \in 1..n : f[i] = IF i = 1 THEN ss[i] ELSE f[i-1] \o ss[i]
    BY DEF Joins
<1> DEFINE h == [i \in 1..(n + 1) |-> IF i = 1 THEN tt[i] ELSE g[i-1] \o tt[i]]
<1>6. \A i \in 1..(n + 1) : g[i] = h[i]
    <2> SUFFICES ASSUME NEW i \in 1..(n + 1) PROVE g[i] = h[i]
        OBVIOUS
    <2>0. h[i] = IF i = 1 THEN tt[i] ELSE g[i-1] \o tt[i]
        OBVIOUS
    <2> HIDE DEF h, g, tt
    <2>1. CASE i \in 1..n
        <3>1. i # 1 => i - 1 \in 1..n
            BY <1>1, <2>1
        <3>2. g[i] = f[i] /\ tt[i] = ss[i] /\ (i # 1 => g[i - 1] = f[i - 1])
            BY <1>3, <1>4, <2>1, <3>1
        <3> HIDE DEF n
        <3> QED BY <1>5, <2>0, <2>1, <3>2
    <2>2. CASE i \notin 1..n
        <3>1. i = n + 1 /\ i - 1 = n
            BY <1>1, <2>2
        <3>2. CASE n = 0
            BY <1>1, <1>3, <1>4, <2>0, <3>1, <3>2
        <3>3. CASE n # 0
            <4>1. n \in 1..n /\ i # 1
                BY <1>1, <3>1, <3>3
            <4>2. g[i - 1] = f[n] /\ tt[i] = x
                BY <1>3, <1>4, <3>1, <4>1
            <4>3. g[i] = f[n] \o x
                BY <1>1, <1>4, <3>1, <3>3
            <4> QED BY <2>0, <4>1, <4>2, <4>3
        <3> QED BY <3>2, <3>3
    <2> QED BY <2>1, <2>2
<1>7. g = h
    <2>1. g = [i \in 1..(n + 1) |-> g[i]]
        <3> HIDE DEF g
        <3> QED BY <1>4
    <2>2. h = [i \in 1..(n + 1) |-> h[i]]
        OBVIOUS
    <2> HIDE DEF g, h
    <2> QED BY <1>6, <2>1, <2>2
<1>8. Joins(tt, g)
    <2> HIDE DEF g, tt
    <2> QED BY <1>3, <1>7 DEF Joins
<1> QED BY <1>2, <1>8

LEMMA JoinsExists ==
    ASSUME NEW A
    PROVE  \A ss \in Seq(Seq(A)) : \E f \in Seq(Seq(A)) : Len(f) = Len(ss) /\ Joins(ss, f)
<1> DEFINE Has(ss) == \E f \in Seq(Seq(A)) : Len(f) = Len(ss) /\ Joins(ss, f)
           bad == {n \in Nat : \E ss \in Seq(Seq(A)) : Len(ss) = n /\ ~Has(ss)}
<1>1. bad = {}
    <2> SUFFICES ASSUME bad # {} PROVE FALSE
        OBVIOUS
    <2>1. bad \in SUBSET Nat
        OBVIOUS
    <2>2. PICK n \in bad : \A m \in bad : n <= m
        <3> HIDE DEF bad
        <3> QED BY <2>1, LeastNatural
    <2> HIDE DEF Has
    <2>4. n \in Nat /\ \E ss \in Seq(Seq(A)) : Len(ss) = n /\ ~Has(ss)
        OBVIOUS
    <2>3. PICK ss \in Seq(Seq(A)) : Len(ss) = n /\ ~Has(ss)
        BY <2>4
    <2>5. CASE n = 0
        <3> DEFINE f == <<>>
        <3>1. f \in Seq(Seq(A)) /\ Len(f) = Len(ss)
            BY <2>3, <2>5, EmptySeq
        <3>2. Joins(ss, f)
            BY <2>3, <2>5 DEF Joins
        <3> QED BY <2>3, <3>1, <3>2 DEF Has
    <2>6. CASE n # 0
        <3> DEFINE front == SubSeq(ss, 1, n - 1)
        <3>1. /\ front \in Seq(Seq(A)) /\ Len(front) = n - 1 /\ ss[n] \in Seq(A)
              /\ ss = Append(front, ss[n])
            BY <2>3, <2>4, <2>6
        <3> HIDE DEF front
        <3>2. n - 1 \in Nat /\ n - 1 \notin bad
            <4> HIDE DEF bad
            <4> QED BY <2>2, <2>4, <2>6
        <3>3. Has(front)
            BY <3>1, <3>2
        <3>4. PICK f \in Seq(Seq(A)) : Len(f) = Len(front) /\ Joins(front, f)
            BY <3>3 DEF Has
        <3> DEFINE last == IF front = <<>> THEN ss[n] ELSE f[Len(front)] \o ss[n]
        <3>5. last \in Seq(A) /\ Joins(Append(front, ss[n]), Append(f, last))
            BY <3>1, <3>4, JoinsAppend
        <3> HIDE DEF last
        <3>6. Append(f, last) \in Seq(Seq(A)) /\ Len(Append(f, last)) = Len(ss)
            BY <2>3, <2>4, <3>1, <3>4, <3>5
        <3> QED BY <2>3, <3>1, <3>5, <3>6 DEF Has
    <2> QED BY <2>5, <2>6
<1> SUFFICES ASSUME NEW ss \in Seq(Seq(A)) PROVE Has(ss)
    OBVIOUS
<1>2. Len(ss) \in Nat
    OBVIOUS
<1> HIDE DEF Has
<1> QED BY <1>1, <1>2

LEMMA FlattenIs ==
    ASSUME NEW A, NEW ss \in Seq(Seq(A)), NEW f, Joins(ss, f)
    PROVE  FlattenSeq(ss) = IF ss = <<>> THEN <<>> ELSE f[Len(ss)]
<1>1. FlattenSeq(ss) = IF Len(ss) = 0 THEN ss ELSE TheJoins(ss)[Len(ss)]
    BY DEF FlattenSeq, TheJoins, Joins
<1>2. Len(ss) \in Nat /\ (Len(ss) = 0 <=> ss = <<>>)
    OBVIOUS
<1>3. Joins(ss, TheJoins(ss))
    BY DEF TheJoins
<1>4. TheJoins(ss) = f
    BY <1>2, <1>3, JoinsUnique
<1> QED BY <1>1, <1>2, <1>4

\* Joining nothing.
LEMMA FlattenNothing == FlattenSeq(<<>>) = <<>>
    BY DEF FlattenSeq

\* Joining one sequence more puts it behind what was joined before.
LEMMA FlattenAppend ==
    ASSUME NEW A, NEW ss \in Seq(Seq(A)), NEW x \in Seq(A)
    PROVE  /\ FlattenSeq(ss) \in Seq(A)
           /\ FlattenSeq(Append(ss, x)) = FlattenSeq(ss) \o x
<1>1. PICK f \in Seq(Seq(A)) : Len(f) = Len(ss) /\ Joins(ss, f)
    BY JoinsExists
<1> DEFINE last == IF ss = <<>> THEN x ELSE f[Len(ss)] \o x
           tt == Append(ss, x)
           g == Append(f, last)
<1>2. last \in Seq(A) /\ Joins(tt, g)
    BY <1>1, JoinsAppend
<1>3. FlattenSeq(ss) = IF ss = <<>> THEN <<>> ELSE f[Len(ss)]
    BY <1>1, FlattenIs
<1>4. tt \in Seq(Seq(A)) /\ Len(tt) = Len(ss) + 1 /\ Len(ss) \in Nat /\ tt # <<>>
    <2>1. tt \in Seq(Seq(A)) /\ Len(tt) = Len(ss) + 1 /\ Len(ss) \in Nat
        OBVIOUS
    <2> HIDE DEF tt
    <2> QED BY <2>1
<1>5. g[Len(tt)] = last
    <2> HIDE DEF last, tt
    <2>1. Len(tt) = Len(f) + 1
        BY <1>1, <1>4
    <2> QED BY <1>1, <1>2, <2>1
<1>6. FlattenSeq(tt) = last
    <2> HIDE DEF tt, g, last
    <2> QED BY <1>2, <1>4, <1>5, FlattenIs
<1>7. FlattenSeq(ss) \in Seq(A)
    <2>1. ss # <<>> => f[Len(ss)] \in Seq(A)
        BY <1>1, <1>4
    <2> QED BY <1>3, <2>1
<1>8. ss = <<>> => <<>> \o x = x
    OBVIOUS
<1> QED BY <1>3, <1>6, <1>7, <1>8
-----------------------------------------------------------------------------
(* What is in the joined sequences, and where.                             *)

\* No two elements have the same key.
Distinct(rows, key) == \A i, j \in DOMAIN rows : key[rows[i]] = key[rows[j]] => i = j

\* No element of one has the key of an element of the other.
KeysApart(a, b, key) == \A m \in ToSet(a), q \in ToSet(b) : key[m] # key[q]

LEMMA ElementsOf ==
    ASSUME NEW A, NEW q \in Seq(A) PROVE ToSet(q) \subseteq A
BY DEF ToSet

LEMMA AppendElements ==
    ASSUME NEW A, NEW a \in Seq(A), NEW x \in A
    PROVE  /\ Append(a, x) \in Seq(A) /\ Append(a, x) # <<>>
           /\ ToSet(Append(a, x)) = ToSet(a) \cup {x}
<1>0. PICK n : n = Len(a)
    OBVIOUS
<1> DEFINE c == Append(a, x)
<1>1. /\ c \in Seq(A) /\ DOMAIN a = 1..n /\ DOMAIN c = 1..(n + 1) /\ n \in Nat
      /\ c[n + 1] = x /\ \A i \in 1..n : c[i] = a[i]
    BY <1>0
<1> HIDE DEF c
<1>2. c # <<>>
    BY <1>1
<1>3. \A i \in 1..(n + 1) : (i \in 1..n /\ c[i] = a[i]) \/ c[i] = x
    BY <1>1
<1>4. ToSet(c) \subseteq ToSet(a) \cup {x}
    BY <1>1, <1>3 DEF ToSet
<1>5. ToSet(a) \subseteq ToSet(c) /\ x \in ToSet(c)
    <2>1. 1..n \subseteq 1..(n + 1) /\ n + 1 \in 1..(n + 1)
        BY <1>1
    <2> QED BY <1>1, <2>1 DEF ToSet
<1> QED BY <1>1, <1>2, <1>4, <1>5 DEF c

LEMMA ConcatElements ==
    ASSUME NEW A, NEW a \in Seq(A), NEW b \in Seq(A)
    PROVE  /\ a \o b \in Seq(A) /\ ToSet(a \o b) = ToSet(a) \cup ToSet(b)
           /\ \A key : /\ Distinct(a, key) /\ Distinct(b, key) /\ KeysApart(a, b, key)
                      => Distinct(a \o b, key)
<1> DEFINE c == a \o b
<1>0. PICK n, k : n = Len(a) /\ k = Len(b)
    OBVIOUS
<1>1. n \in Nat /\ k \in Nat /\ DOMAIN a = 1..n /\ DOMAIN b = 1..k
    BY <1>0
<1>2. /\ c \in Seq(A) /\ DOMAIN c = 1..(n + k)
      /\ \A i \in 1..(n + k) : c[i] = IF i <= n THEN a[i] ELSE b[i - n]
    <2>1. /\ c \in Seq(A) /\ Len(c) = Len(a) + Len(b)
          /\ \A i \in 1..(Len(a) + Len(b)) : c[i] = IF i <= Len(a) THEN a[i] ELSE b[i - Len(a)]
        BY ConcatProperties
    <2> HIDE DEF c
    <2> QED BY <1>0, <2>1
<1> HIDE DEF c
<1>3. \A i \in 1..(n + k) :
          \/ i \in 1..n /\ c[i] = a[i] /\ c[i] \in ToSet(a)
          \/ i - n \in 1..k /\ i > n /\ c[i] = b[i - n] /\ c[i] \in ToSet(b)
    <2> SUFFICES ASSUME NEW i \in 1..(n + k)
                 PROVE  \/ i \in 1..n /\ c[i] = a[i] /\ c[i] \in ToSet(a)
                        \/ i - n \in 1..k /\ i > n /\ c[i] = b[i - n] /\ c[i] \in ToSet(b)
        OBVIOUS
    <2>1. CASE i <= n
        <3>1. i \in 1..n /\ c[i] = a[i]
            BY <1>1, <1>2, <2>1
        <3> QED BY <1>1, <3>1 DEF ToSet
    <2>2. CASE i > n
        <3>1. i - n \in 1..k /\ c[i] = b[i - n]
            BY <1>1, <1>2, <2>2
        <3> QED BY <1>1, <2>2, <3>1 DEF ToSet
    <2> QED BY <1>1, <2>1, <2>2
<1>4. ToSet(c) = ToSet(a) \cup ToSet(b)
    <2>1. ToSet(c) \subseteq ToSet(a) \cup ToSet(b)
        BY <1>2, <1>3 DEF ToSet
    <2>2. \A i \in 1..n : i \in 1..(n + k) /\ c[i] = a[i]
        BY <1>1, <1>2
    <2>3. \A i \in 1..k : i + n \in 1..(n + k) /\ c[i + n] = b[i]
        BY <1>1, <1>2
    <2>4. ToSet(a) \subseteq ToSet(c)
        <3> SUFFICES ASSUME NEW i \in 1..n PROVE a[i] \in ToSet(c)
            BY <1>1 DEF ToSet
        <3> QED BY <1>2, <2>2 DEF ToSet
    <2>5. ToSet(b) \subseteq ToSet(c)
        <3> SUFFICES ASSUME NEW i \in 1..k PROVE b[i] \in ToSet(c)
            BY <1>1 DEF ToSet
        <3>1. i + n \in DOMAIN c /\ b[i] = c[i + n]
            BY <1>2, <2>3
        <3> QED BY <3>1 DEF ToSet
    <2> QED BY <2>1, <2>4, <2>5
<1>5. ASSUME NEW key, Distinct(a, key), Distinct(b, key), KeysApart(a, b, key)
      PROVE  Distinct(c, key)
    <2> SUFFICES ASSUME NEW i \in 1..(n + k), NEW j \in 1..(n + k), key[c[i]] = key[c[j]]
                 PROVE  i = j
        BY <1>2 DEF Distinct
    <2>1. CASE i \in 1..n /\ j \in 1..n
        BY <1>1, <1>3, <1>5, <2>1 DEF Distinct
    <2>2. CASE i > n /\ j > n
        <3>1. i - n \in 1..k /\ j - n \in 1..k /\ c[i] = b[i - n] /\ c[j] = b[j - n]
            BY <1>1, <1>3, <2>2
        <3>2. i - n = j - n
            BY <1>1, <1>5, <3>1 DEF Distinct
        <3> QED BY <1>1, <3>2
    <2>3. ASSUME NEW u \in 1..(n + k), NEW v \in 1..(n + k), u \in 1..n, v > n
          PROVE  key[c[u]] # key[c[v]]
        <3>1. c[u] \in ToSet(a) /\ c[v] \in ToSet(b)
            BY <1>1, <1>3, <2>3
        <3> QED BY <1>5, <3>1 DEF KeysApart
    <2> QED BY <1>1, <2>1, <2>2, <2>3
<1> QED BY <1>2, <1>4, <1>5 DEF c

\* Joined sequences have the elements of their parts, and distinct keys if the
\* parts have distinct keys and share none.
LEMMA FlattenElements ==
    ASSUME NEW A, NEW key
    PROVE  \A ss \in Seq(Seq(A)) :
              /\ FlattenSeq(ss) \in Seq(A)
              /\ \A m \in ToSet(FlattenSeq(ss)) : \E k \in 1..Len(ss) : m \in ToSet(ss[k])
              /\ /\ \A k \in 1..Len(ss) : Distinct(ss[k], key)
                 /\ \A k, l \in 1..Len(ss) : k # l => KeysApart(ss[k], ss[l], key)
                 => Distinct(FlattenSeq(ss), key)
<1> DEFINE In(ss) == \A m \in ToSet(FlattenSeq(ss)) : \E k \in 1..Len(ss) : m \in ToSet(ss[k])
           Parts(ss) == /\ \A k \in 1..Len(ss) : Distinct(ss[k], key)
                        /\ \A k, l \in 1..Len(ss) : k # l => KeysApart(ss[k], ss[l], key)
           Good(ss) == In(ss) /\ (Parts(ss) => Distinct(FlattenSeq(ss), key))
           bad == {n \in Nat : \E ss \in Seq(Seq(A)) : Len(ss) = n /\ ~Good(ss)}
<1>1. bad = {}
    <2> SUFFICES ASSUME bad # {} PROVE FALSE
        OBVIOUS
    <2>1. bad \in SUBSET Nat
        OBVIOUS
    <2>2. PICK n \in bad : \A m \in bad : n <= m
        <3> HIDE DEF bad
        <3> QED BY <2>1, LeastNatural
    <2> HIDE DEF Good
    <2>3. n \in Nat /\ \E ss \in Seq(Seq(A)) : Len(ss) = n /\ ~Good(ss)
        OBVIOUS
    <2>4. PICK ss \in Seq(Seq(A)) : Len(ss) = n /\ ~Good(ss)
        BY <2>3
    <2>5. CASE n = 0
        <3>1. ss = <<>>
            BY <2>4, <2>5
        <3>2. FlattenSeq(ss) = <<>>
            BY <3>1, FlattenNothing
        <3>3. DOMAIN FlattenSeq(ss) = {} /\ ToSet(FlattenSeq(ss)) = {}
            BY <3>2 DEF ToSet
        <3> QED BY <2>4, <3>3 DEF Good, Distinct
    <2>6. CASE n # 0
        <3> DEFINE front == SubSeq(ss, 1, n - 1)
        <3>1. /\ front \in Seq(Seq(A)) /\ Len(front) = n - 1 /\ ss[n] \in Seq(A)
              /\ ss = Append(front, ss[n]) /\ \A k \in 1..(n - 1) : front[k] = ss[k]
            BY <2>3, <2>4, <2>6
        <3> HIDE DEF front
        <3>2. n - 1 \in Nat /\ n - 1 \notin bad
            <4> HIDE DEF bad
            <4> QED BY <2>2, <2>3, <2>6
        <3>3. Good(front)
            BY <3>1, <3>2
        <3>4. /\ FlattenSeq(front) \in Seq(A)
              /\ FlattenSeq(ss) = FlattenSeq(front) \o ss[n]
            BY <3>1, FlattenAppend
        <3> DEFINE old == FlattenSeq(front)
        <3>5. /\ ToSet(FlattenSeq(ss)) = ToSet(old) \cup ToSet(ss[n])
              /\ Distinct(old, key) /\ Distinct(ss[n], key) /\ KeysApart(old, ss[n], key)
                    => Distinct(FlattenSeq(ss), key)
            <4> HIDE DEF old
            <4>1. old \in Seq(A) /\ FlattenSeq(ss) = old \o ss[n]
                BY <3>4 DEF old
            <4> QED BY <3>1, <4>1, ConcatElements
        <3>6. \A m \in ToSet(old) : \E k \in 1..(n - 1) : m \in ToSet(ss[k])
            BY <3>1, <3>3 DEF Good
        <3> HIDE DEF old
        <3>7. 1..(n - 1) \subseteq 1..n /\ n \in 1..n
            BY <2>3, <2>6
        <3>8. In(ss)
            BY <2>4, <3>5, <3>6, <3>7
        <3>9. ASSUME Parts(ss) PROVE Distinct(FlattenSeq(ss), key)
            <4>1. Parts(front)
                BY <2>4, <3>1, <3>7, <3>9
            <4>2. Distinct(old, key)
                BY <3>3, <4>1 DEF Good, old
            <4>3. Distinct(ss[n], key)
                BY <2>4, <3>7, <3>9
            <4>4. KeysApart(old, ss[n], key)
                <5> SUFFICES ASSUME NEW m \in ToSet(old), NEW q \in ToSet(ss[n])
                             PROVE  key[m] # key[q]
                    BY DEF KeysApart
                <5>1. PICK k \in 1..(n - 1) : m \in ToSet(ss[k])
                    BY <3>6
                <5>2. k \in 1..n /\ k # n
                    BY <2>3, <3>7
                <5>3. KeysApart(ss[k], ss[n], key)
                    BY <2>4, <3>7, <3>9, <5>2
                <5> QED BY <5>1, <5>3 DEF KeysApart
            <4> QED BY <3>5, <4>2, <4>3, <4>4
        <3> QED BY <2>4, <3>8, <3>9 DEF Good
    <2> QED BY <2>5, <2>6
<1> SUFFICES ASSUME NEW ss \in Seq(Seq(A)) PROVE FlattenSeq(ss) \in Seq(A) /\ Good(ss)
    BY DEF Good
<1>2. Len(ss) \in Nat
    OBVIOUS
<1>3. FlattenSeq(ss) \in Seq(A)
    <2>1. <<>> \in Seq(A)
        BY EmptySeq
    <2> QED BY <2>1, FlattenAppend
<1> HIDE DEF Good
<1> QED BY <1>1, <1>2, <1>3

\* What is known of a sequence that has an end.
LEMMA Ending ==
    ASSUME NEW T, NEW s \in Seq(T), s # <<>>
    PROVE  /\ Front(s) \in Seq(T) /\ Last(s) \in T /\ s = Append(Front(s), Last(s))
           /\ Len(Front(s)) = Len(s) - 1 /\ Len(s) \in Nat \ {0}
           /\ \A k \in 1..(Len(s) - 1) : Front(s)[k] = s[k]
<1>1. PICK n \in Nat : n = Len(s) /\ n # 0
    OBVIOUS
<1>2. /\ SubSeq(s, 1, n - 1) \in Seq(T) /\ s[n - 1 + 1] \in T
      /\ Len(SubSeq(s, 1, n - 1)) = n - 1
      /\ SubSeq(s, 1, n - 1 + 1) = Append(SubSeq(s, 1, n - 1), s[n - 1 + 1])
    BY <1>1, OneMore
<1>3. n - 1 + 1 = n /\ SubSeq(s, 1, n) = s
    BY <1>1, SubSeqFull
<1> QED BY <1>1, <1>2, <1>3 DEF Front, Last

LEMMA Appending ==
    ASSUME NEW T, NEW s \in Seq(T), NEW t \in T
    PROVE  /\ Append(s, t) \in Seq(T) /\ Append(s, t) # <<>>
           /\ Last(Append(s, t)) = t /\ Front(Append(s, t)) = s
<1> DEFINE q == Append(s, t)
<1>1. q \in Seq(T) /\ Len(q) = Len(s) + 1 /\ q[Len(q)] = t /\ q # <<>>
    OBVIOUS
<1>2. Len(s) \in Nat /\ \A k \in 1..Len(s) : q[k] = s[k]
    OBVIOUS
<1> HIDE DEF q
<1>3. Front(q) \in Seq(T) /\ Len(Front(q)) = Len(s)
      /\ \A k \in 1..Len(s) : Front(q)[k] = s[k]
    <2>1. Len(q) - 1 = Len(s)
        BY <1>1, <1>2
    <2> QED BY <1>1, <1>2, <2>1, Ending
<1>4. Front(q) = s
    BY <1>3, SeqEqual
<1> QED BY <1>1, <1>4 DEF Last, q

\* Concatenation is associative.
LEMMA Regroup ==
    ASSUME NEW T, NEW a \in Seq(T), NEW b \in Seq(T), NEW c \in Seq(T)
    PROVE  (a \o b) \o c = a \o (b \o c)
BY ConcatAssociative

\* What a concatenation is made of.
LEMMA Joined ==
    ASSUME NEW T, NEW a \in Seq(T), NEW b \in Seq(T)
    PROVE  /\ a \o b \in Seq(T) /\ Len(a \o b) = Len(a) + Len(b)
           /\ \A k \in 1..Len(a) : (a \o b)[k] = a[k]
           /\ \A k \in 1..Len(b) : (a \o b)[Len(a) + k] = b[k]
OBVIOUS

-----------------------------------------------------------------------------
(* Taking the elements of a sequence one after the other, with a step that *)
(* is a function g.                                                        *)

Along(g, a, s, f) == f[0] = a /\ \A k \in 1..Len(s) : f[k] = g[f[k - 1]][s[k]]

\* From a, the elements of s lead to v.
LeadsTo(S, g, a, s, v) == \E f \in [0..Len(s) -> S] : Along(g, a, s, f) /\ f[Len(s)] = v

LEMMA LeadsNowhere ==
    ASSUME NEW S, NEW a \in S, NEW g PROVE LeadsTo(S, g, a, <<>>, a)
<1> DEFINE f == [k \in 0..0 |-> a]
<1>1. f \in [0..Len(<<>>) -> S] /\ Along(g, a, <<>>, f) /\ f[Len(<<>>)] = a
    BY DEF Along
<1> QED BY <1>1 DEF LeadsTo

LEMMA LeadsFurther ==
    ASSUME NEW S, NEW T, NEW g \in [S -> [T -> S]], NEW a, NEW s \in Seq(T), NEW t \in T,
           NEW v, LeadsTo(S, g, a, s, v)
    PROVE  v \in S /\ LeadsTo(S, g, a, Append(s, t), g[v][t])
<1>1. PICK f \in [0..Len(s) -> S] : Along(g, a, s, f) /\ f[Len(s)] = v
    BY DEF LeadsTo
<1>2. PICK n : n = Len(s)
    OBVIOUS
<1> DEFINE h == [k \in 0..(n + 1) |-> IF k = n + 1 THEN g[v][t] ELSE f[k]]
           q == Append(s, t)
<1>3. n \in Nat /\ Len(q) = n + 1 /\ q[n + 1] = t /\ \A k \in 1..n : q[k] = s[k]
    BY <1>2
<1>4. v \in S /\ g[v][t] \in S
    BY <1>1, <1>2, <1>3
<1>5. h \in [0..(n + 1) -> S] /\ h[0] = a /\ h[n + 1] = g[v][t] /\ h[n] = v
    BY <1>1, <1>2, <1>3, <1>4 DEF Along
<1> HIDE DEF q
<1>6. ASSUME NEW k \in 1..(n + 1) PROVE h[k] = g[h[k - 1]][q[k]]
    <2>1. CASE k = n + 1
        BY <1>3, <1>5, <2>1
    <2>2. CASE k # n + 1
        <3>1. k \in 1..n /\ k - 1 \in 0..n
            BY <1>3, <2>2
        <3>2. h[k] = f[k] /\ h[k - 1] = f[k - 1]
            BY <1>3, <3>1
        <3>3. f[k] = g[f[k - 1]][s[k]]
            BY <1>1, <1>2, <3>1 DEF Along
        <3> QED BY <1>3, <3>1, <3>2, <3>3
    <2> QED BY <2>1, <2>2
<1> HIDE DEF h
<1>7. h \in [0..Len(q) -> S] /\ Along(g, a, q, h) /\ h[Len(q)] = g[v][t]
    BY <1>3, <1>5, <1>6 DEF Along
<1>8. LeadsTo(S, g, a, q, g[v][t])
    BY <1>7 DEF LeadsTo
<1> QED BY <1>4, <1>8 DEF q

LEMMA LeadsSomewhere ==
    ASSUME NEW S, NEW T, NEW g \in [S -> [T -> S]], NEW a \in S
    PROVE  \A s \in Seq(T) : \E v \in S : LeadsTo(S, g, a, s, v)
<1> SUFFICES ASSUME NEW s \in Seq(T) PROVE \E v \in S : LeadsTo(S, g, a, s, v)
    OBVIOUS
<1>1. PICK n \in Nat : n = Len(s)
    OBVIOUS
<1> DEFINE P == {k \in 0..n : \E v \in S : LeadsTo(S, g, a, SubSeq(s, 1, k), v)}
<1>2. 0 \in P
    <2>1. SubSeq(s, 1, 0) = <<>>
        BY SubSeqEmpty
    <2>2. LeadsTo(S, g, a, SubSeq(s, 1, 0), a)
        BY <2>1, LeadsNowhere
    <2> QED BY <2>2
<1>3. ASSUME NEW k \in 0..(n - 1), k \in P PROVE k + 1 \in P
    <2>1. PICK v \in S : LeadsTo(S, g, a, SubSeq(s, 1, k), v)
        BY <1>3
    <2>2. k + 1 \in 1..n /\ s[k + 1] \in T
        BY <1>1
    <2>3. SubSeq(s, 1, k) \in Seq(T) /\ SubSeq(s, 1, k + 1) = Append(SubSeq(s, 1, k), s[k + 1])
        BY <1>1, OneMore
    <2>4. g[v][s[k + 1]] \in S
        BY <2>2
    <2>5. LeadsTo(S, g, a, Append(SubSeq(s, 1, k), s[k + 1]), g[v][s[k + 1]])
        BY <2>1, <2>2, <2>3, LeadsFurther
    <2>6. LeadsTo(S, g, a, SubSeq(s, 1, k + 1), g[v][s[k + 1]])
        BY <2>3, <2>5
    <2> QED BY <2>2, <2>4, <2>6
<1> HIDE DEF P
<1>4. n \in P
    <2>1. 0..n \subseteq P
        BY <1>2, <1>3, Induction
    <2> QED BY <2>1
<1>5. SubSeq(s, 1, n) = s
    BY <1>1, SubSeqFull
<1>6. \E v \in S : LeadsTo(S, g, a, SubSeq(s, 1, n), v)
    BY <1>4 DEF P
<1> QED BY <1>5, <1>6
=============================================================================
