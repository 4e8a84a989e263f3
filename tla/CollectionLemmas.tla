-------------------------- MODULE CollectionLemmas --------------------------
(***************************************************************************)
(* Facts about sequences and finite sets that the proofs of several        *)
(* components cite: queues that are consumed at the head, extended or      *)
(* split, work that is divided among parties, and the least of some        *)
(* numbers.                                                                *)
(***************************************************************************)
EXTENDS Integers, Sequences, FiniteSets, SequenceTheorems, FiniteSetTheorems,
        FunctionTheorems, WellFoundedInduction, NaturalsInduction, TLAPS

\* Splitting a sequence at n gives two sequences that hold, between them, every
\* one of its elements.
LEMMA SplitSeq ==
  ASSUME NEW S, NEW q \in Seq(S), NEW n \in 0..Len(q)
  PROVE  LET front == SubSeq(q, 1, n)
             back == SubSeq(q, n + 1, Len(q))
         IN  /\ front \in Seq(S) /\ back \in Seq(S)
             /\ Len(front) = n /\ Len(back) = Len(q) - n
             /\ \A i \in 1..n : front[i] = q[i]
             /\ \A i \in 1..(Len(q) - n) : back[i] = q[n + i]
             /\ \A i \in DOMAIN q :
                    \/ i \in DOMAIN front /\ front[i] = q[i]
                    \/ i - n \in DOMAIN back /\ back[i - n] = q[i]
  <1> DEFINE front == SubSeq(q, 1, n)
             back == SubSeq(q, n + 1, Len(q))
  <1>1. front \in Seq(S) /\ Len(front) = n /\ \A i \in 1..n : front[i] = q[i]
    BY SubSeqProperties
  <1>2. back \in Seq(S) /\ Len(back) = Len(q) - n
        /\ \A i \in 1..(Len(q) - n) : back[i] = q[n + i]
    BY SubSeqProperties
  <1>3. \A i \in DOMAIN q : i \in 1..n \/ i - n \in 1..(Len(q) - n)
    OBVIOUS
  <1>4. DOMAIN front = 1..n /\ DOMAIN back = 1..(Len(q) - n)
    BY <1>1, <1>2
  <1>5. \A i \in DOMAIN q : i - n \in 1..(Len(q) - n) => back[i - n] = q[i]
    BY <1>2
  <1> HIDE DEF front, back
  <1>6. /\ front \in Seq(S) /\ back \in Seq(S)
        /\ Len(front) = n /\ Len(back) = Len(q) - n
        /\ \A i \in 1..n : front[i] = q[i]
        /\ \A i \in 1..(Len(q) - n) : back[i] = q[n + i]
        /\ \A i \in DOMAIN q :
                \/ i \in DOMAIN front /\ front[i] = q[i]
                \/ i - n \in DOMAIN back /\ back[i - n] = q[i]
    BY <1>1, <1>2, <1>3, <1>4, <1>5
  <1> QED  BY <1>6 DEF front, back

\* The empty sequence, the head and the tail, and an extended sequence, by the
\* elements they hold.
LEMMA EmptySeqType == ASSUME NEW S PROVE <<>> \in Seq(S)
  OBVIOUS

\* The elements of a sequence, and their positions.
LEMMA ElementType ==
  ASSUME NEW S, NEW q \in Seq(S), NEW i \in DOMAIN q
  PROVE  q[i] \in S /\ i \in Nat \ {0}
  OBVIOUS

\* A sequence that is not empty is its head and then its tail.
LEMMA HeadTail ==
  ASSUME NEW S, NEW q \in Seq(S), q # <<>>
  PROVE  /\ Head(q) \in S /\ Head(q) = q[1] /\ 1 \in DOMAIN q
         /\ Tail(q) \in Seq(S)
         /\ \A i \in DOMAIN Tail(q) : i + 1 \in DOMAIN q /\ Tail(q)[i] = q[i + 1]
         /\ \A i \in DOMAIN q \ {1} :
                i - 1 \in DOMAIN Tail(q) /\ Tail(q)[i - 1] = q[i]
  OBVIOUS

\* A pair is a singleton with one element more.
LEMMA AppendTwo == ASSUME NEW a, NEW b PROVE Append(<<a>>, b) = <<a, b>>
  <1> DEFINE S == {a, b}
  <1>1. <<a>> \in Seq(S) /\ Len(<<a>>) = 1 /\ <<a>>[1] = a /\ b \in S
    OBVIOUS
  <1>2. <<a, b>> \in Seq(S) /\ Len(<<a, b>>) = 2 /\ <<a, b>>[1] = a /\ <<a, b>>[2] = b
    OBVIOUS
  <1> HIDE DEF S
  <1>3. /\ Append(<<a>>, b) \in Seq(S) /\ Len(Append(<<a>>, b)) = 2
        /\ Append(<<a>>, b)[1] = a /\ Append(<<a>>, b)[2] = b
    BY <1>1, AppendProperties
  <1>4. \A i \in 1..2 : Append(<<a>>, b)[i] = <<a, b>>[i]
    <2>1. \A i \in 1..2 : i = 1 \/ i = 2
      OBVIOUS
    <2> QED  BY <1>2, <1>3, <2>1
  <1>5. \A s, t \in Seq(S) : Len(s) = 2 /\ Len(t) = 2 /\ (\A i \in 1..2 : s[i] = t[i]) => s = t
    BY SeqEqual
  <1> QED  BY <1>2, <1>3, <1>4, <1>5

\* An extended sequence has the elements it had and the new one.
LEMMA Extended ==
  ASSUME NEW S, NEW q \in Seq(S), NEW e \in S
  PROVE  /\ Append(q, e) \in Seq(S)
         /\ \A i \in DOMAIN q : i \in DOMAIN Append(q, e) /\ Append(q, e)[i] = q[i]
         /\ \A i \in DOMAIN Append(q, e) : Append(q, e)[i] = e \/
                (i \in DOMAIN q /\ Append(q, e)[i] = q[i])
         /\ \E i \in DOMAIN Append(q, e) : Append(q, e)[i] = e
  <1>1. Append(q, e) \in Seq(S) /\ Len(Append(q, e)) = Len(q) + 1
    OBVIOUS
  <1>2. Append(q, e)[Len(q) + 1] = e /\ Len(q) + 1 \in DOMAIN Append(q, e)
    BY <1>1
  <1> QED  BY <1>1, <1>2

-----------------------------------------------------------------------------
\* Lists without repetitions, and what is in them.
Has(q, x) == \E i \in DOMAIN q : q[i] = x
Distinct(q) == \A i, j \in DOMAIN q : q[i] = q[j] => i = j

\* An element more at the end, the head taken off, and the last one taken off.
LEMMA AppendHas ==
  ASSUME NEW S, NEW q \in Seq(S), NEW e \in S
  PROVE  /\ Append(q, e) \in Seq(S) /\ Append(q, e) # <<>>
         /\ \A x : Has(Append(q, e), x) <=> Has(q, x) \/ x = e
         /\ Distinct(q) /\ ~Has(q, e) => Distinct(Append(q, e))
  <1>1. /\ Append(q, e) \in Seq(S) /\ Append(q, e) # <<>> /\ Len(Append(q, e)) = Len(q) + 1
        /\ DOMAIN q = 1..Len(q) /\ DOMAIN Append(q, e) = 1..(Len(q) + 1) /\ Len(q) \in Nat
        /\ \A i \in 1..Len(q) : Append(q, e)[i] = q[i]
        /\ Append(q, e)[Len(q) + 1] = e
    OBVIOUS
  <1> DEFINE r == Append(q, e)
  <1> HIDE DEF r
  <1>2. \A x : Has(r, x) <=> Has(q, x) \/ x = e
    BY <1>1 DEF Has, r
  <1>3. ASSUME Distinct(q), ~Has(q, e) PROVE Distinct(r)
    <2> SUFFICES ASSUME NEW i \in DOMAIN r, NEW j \in DOMAIN r, r[i] = r[j]
                 PROVE  i = j
      BY DEF Distinct
    <2>1. ASSUME NEW k \in DOMAIN r PROVE k = Len(q) + 1 \/ (k \in DOMAIN q /\ r[k] = q[k] /\ q[k] # e)
      BY <1>1, <1>3 DEF Has, r
    <2>2. r[Len(q) + 1] = e
      BY <1>1 DEF r
    <2> QED  BY <1>3, <2>1, <2>2 DEF Distinct
  <1> QED  BY <1>1, <1>2, <1>3 DEF r

\* Without its head, a list without repetitions holds everything else.
LEMMA TailHas ==
  ASSUME NEW S, NEW q \in Seq(S), q # <<>>, Distinct(q)
  PROVE  /\ Tail(q) \in Seq(S) /\ Head(q) \in S /\ Has(q, Head(q))
         /\ \A x : Has(Tail(q), x) <=> Has(q, x) /\ x # Head(q)
         /\ Distinct(Tail(q))
  <1>1. /\ Head(q) \in S /\ Head(q) = q[1] /\ 1 \in DOMAIN q /\ Tail(q) \in Seq(S)
        /\ \A i \in DOMAIN Tail(q) : i + 1 \in DOMAIN q /\ Tail(q)[i] = q[i + 1]
        /\ \A i \in DOMAIN q \ {1} : i - 1 \in DOMAIN Tail(q) /\ Tail(q)[i - 1] = q[i]
    BY HeadTail
  <1>2. \A i \in DOMAIN Tail(q) : i \in Nat /\ i > 0
    BY <1>1
  <1> DEFINE r == Tail(q)
             h == Head(q)
  <1>3. \A i \in DOMAIN r : i \in Nat /\ i > 0 /\ i + 1 \in DOMAIN q /\ r[i] = q[i + 1]
    BY <1>1, <1>2
  <1>4. \A i \in DOMAIN q \ {1} : i - 1 \in DOMAIN r /\ r[i - 1] = q[i]
    BY <1>1
  <1>5. h = q[1] /\ 1 \in DOMAIN q
    BY <1>1
  <1> HIDE DEF r, h
  <1>6. ASSUME NEW x, Has(r, x) PROVE Has(q, x) /\ x # h
    <2>1. PICK i \in DOMAIN r : r[i] = x
      BY <1>6 DEF Has
    <2>2. i + 1 \in DOMAIN q /\ q[i + 1] = x /\ i + 1 # 1
      BY <1>3, <2>1
    <2> QED  BY <1>5, <2>2 DEF Has, Distinct
  <1>7. ASSUME NEW x, Has(q, x), x # h PROVE Has(r, x)
    <2>1. PICK i \in DOMAIN q : q[i] = x
      BY <1>7 DEF Has
    <2>2. i # 1
      BY <1>5, <1>7, <2>1
    <2> QED  BY <1>4, <2>1, <2>2 DEF Has
  <1>8. Distinct(r)
    <2> SUFFICES ASSUME NEW i \in DOMAIN r, NEW j \in DOMAIN r, r[i] = r[j]
                 PROVE  i = j
      BY DEF Distinct
    <2>1. i + 1 = j + 1
      BY <1>3 DEF Distinct
    <2> QED  BY <1>3, <2>1
  <1>9. Has(q, h)
    BY <1>5 DEF Has
  <1> QED  BY <1>1, <1>6, <1>7, <1>8, <1>9 DEF r, h

\* And so it does without its last element.
LEMMA FrontHas ==
  ASSUME NEW S, NEW q \in Seq(S), q # <<>>, Distinct(q)
  PROVE  LET e == q[Len(q)]
             front == SubSeq(q, 1, Len(q) - 1)
         IN  /\ e \in S /\ Has(q, e) /\ front \in Seq(S)
             /\ \A x : Has(front, x) <=> Has(q, x) /\ x # e
             /\ Distinct(front)
  <1> DEFINE e == q[Len(q)]
             front == SubSeq(q, 1, Len(q) - 1)
  <1>1. Len(q) \in Nat /\ Len(q) > 0 /\ DOMAIN q = 1..Len(q) /\ Len(q) \in DOMAIN q /\ e \in S
    OBVIOUS
  <1>2. /\ front \in Seq(S) /\ Len(front) = Len(q) - 1
        /\ \A i \in 1..(Len(q) - 1) : front[i] = q[i]
    <2>1. Len(q) - 1 \in 0..Len(q)
      BY <1>1
    <2> QED  BY <2>1, SplitSeq, ZenonT(40)
  <1>3. DOMAIN front = 1..(Len(q) - 1)
    BY <1>2, LenProperties
  <1> HIDE DEF front
  <1>4. \A x : Has(front, x) <=> Has(q, x) /\ x # e
    BY <1>1, <1>2, <1>3 DEF Has, Distinct
  <1>5. Distinct(front)
    BY <1>1, <1>2, <1>3 DEF Distinct
  <1>6. Has(q, e)
    BY <1>1 DEF Has
  <1> QED  BY <1>1, <1>2, <1>4, <1>5, <1>6 DEF front

\* The first n elements and the others: nothing is in both.
LEMMA SplitHas ==
  ASSUME NEW S, NEW q \in Seq(S), NEW n \in 0..Len(q), Distinct(q)
  PROVE  LET front == SubSeq(q, 1, n)
             back == SubSeq(q, n + 1, Len(q))
         IN  /\ front \in Seq(S) /\ Len(front) = n /\ Distinct(front)
             /\ back \in Seq(S) /\ Len(back) = Len(q) - n /\ Distinct(back)
             /\ \A x : (Has(front, x) => Has(q, x)) /\ (Has(back, x) => Has(q, x))
             /\ \A x : ~(Has(front, x) /\ Has(back, x))
  <1> DEFINE front == SubSeq(q, 1, n)
             back == SubSeq(q, n + 1, Len(q))
  <1>1. /\ front \in Seq(S) /\ back \in Seq(S) /\ Len(front) = n /\ Len(back) = Len(q) - n
        /\ \A i \in 1..n : front[i] = q[i]
        /\ \A i \in 1..(Len(q) - n) : back[i] = q[n + i]
    BY SplitSeq
  <1>2. Len(q) \in Nat /\ n \in Nat /\ n <= Len(q) /\ DOMAIN q = 1..Len(q)
    OBVIOUS
  <1>3. DOMAIN front = 1..n /\ DOMAIN back = 1..(Len(q) - n)
    BY <1>1, LenProperties
  <1> HIDE DEF front, back
  <1>4. \A i \in DOMAIN front : i \in DOMAIN q /\ front[i] = q[i] /\ i <= n
    BY <1>1, <1>2, <1>3
  <1>5. \A i \in DOMAIN back : n + i \in DOMAIN q /\ back[i] = q[n + i] /\ i \in Nat /\ i > 0
    BY <1>1, <1>2, <1>3
  <1>6. Distinct(front)
    BY <1>4 DEF Distinct
  <1>7. Distinct(back)
    <2> SUFFICES ASSUME NEW i \in DOMAIN back, NEW j \in DOMAIN back, back[i] = back[j]
                 PROVE  i = j
      BY DEF Distinct
    <2>1. n + i = n + j
      BY <1>5 DEF Distinct
    <2> QED  BY <1>2, <1>5, <2>1
  <1>8. \A x : (Has(front, x) => Has(q, x)) /\ (Has(back, x) => Has(q, x))
    BY <1>4, <1>5 DEF Has
  <1>9. ASSUME NEW x, Has(front, x), Has(back, x) PROVE FALSE
    <2>1. PICK i \in DOMAIN front : front[i] = x
      BY <1>9 DEF Has
    <2>2. PICK j \in DOMAIN back : back[j] = x
      BY <1>9 DEF Has
    <2>3. i = n + j
      BY <1>4, <1>5, <2>1, <2>2 DEF Distinct
    <2> QED  BY <1>2, <1>3, <1>4, <1>5, <2>1, <2>2, <2>3
  <1> QED  BY <1>1, <1>6, <1>7, <1>8, <1>9 DEF front, back

-----------------------------------------------------------------------------
\* The numbers up to k are k numbers.
LEMMA CardInterval ==
  \A k \in Nat : IsFiniteSet(1..k) /\ Cardinality(1..k) = k
  <1> SUFFICES ASSUME NEW k \in Nat
               PROVE  IsFiniteSet(1..k) /\ Cardinality(1..k) = k
    OBVIOUS
  <1> QED  BY FS_Interval

\* A set that gains at most one element.
LEMMA GrowsByOne ==
  ASSUME NEW S, IsFiniteSet(S), NEW x, NEW T, T \subseteq S \cup {x}
  PROVE  /\ IsFiniteSet(T) /\ Cardinality(T) \in Nat /\ Cardinality(S) \in Nat
         /\ Cardinality(T) <= Cardinality(S) + 1
  <1>1. Cardinality(S) \in Nat
    BY FS_CardinalityType
  <1>2. IsFiniteSet(S \cup {x}) /\ Cardinality(S \cup {x}) <= Cardinality(S) + 1
        /\ Cardinality(S \cup {x}) \in Nat
    BY <1>1, FS_AddElement
  <1>3. IsFiniteSet(T) /\ Cardinality(T) <= Cardinality(S \cup {x})
    BY <1>2, FS_Subset
  <1>4. Cardinality(T) \in Nat
    BY <1>3, FS_CardinalityType
  <1> QED  BY <1>1, <1>2, <1>3, <1>4

\* A grid of n rows of k.
LEMMA CardGrid ==
  ASSUME NEW n \in Nat, NEW k \in Nat
  PROVE  IsFiniteSet((1..n) \X (1..k)) /\ Cardinality((1..n) \X (1..k)) = n * k
  <1>1. IsFiniteSet(1..n) /\ IsFiniteSet(1..k)
        /\ Cardinality(1..n) = n /\ Cardinality(1..k) = k
    BY CardInterval
  <1> DEFINE rows == 1..n
             columns == 1..k
  <1>2. IsFiniteSet(rows) /\ IsFiniteSet(columns)
        /\ Cardinality(rows) = n /\ Cardinality(columns) = k
    BY <1>1
  <1> HIDE DEF rows, columns
  <1>3. /\ IsFiniteSet(rows \X columns)
        /\ Cardinality(rows \X columns) = Cardinality(rows) * Cardinality(columns)
    BY <1>2, FS_Product
  <1>4. IsFiniteSet(rows \X columns) /\ Cardinality(rows \X columns) = n * k
    BY <1>2, <1>3
  <1> QED  BY <1>4 DEF rows, columns

\* If n parties have no more than k things each, and every thing has a party,
\* there are at most n * k things.
LEMMA PartsUpper ==
  ASSUME NEW S, IsFiniteSet(S), NEW n \in Nat, NEW k \in Nat,
         NEW part \in [1..n -> SUBSET S],
         \A x \in S : \E i \in 1..n : x \in part[i],
         \A i \in 1..n : Cardinality(part[i]) <= k
  PROVE  Cardinality(S) <= n * k
  <1> DEFINE Numbers(i) == {f \in [part[i] -> 1..k] : \A x, y \in part[i] : f[x] = f[y] => x = y}
             number == [i \in 1..n |-> CHOOSE f : f \in Numbers(i)]
             party == [x \in S |-> CHOOSE i \in 1..n : x \in part[i]]
             place == [x \in S |-> <<party[x], number[party[x]][x]>>]
             places == (1..n) \X (1..k)
  <1>1. ASSUME NEW i \in 1..n PROVE number[i] \in Numbers(i)
    <2>1. IsFiniteSet(part[i])
      BY FS_Subset
    <2>2. PICK f \in Bijection(1..Cardinality(part[i]), part[i]) : TRUE
      BY <2>1, FS_CardinalityType DEF ExistsBijection
    <2>3. ExistsBijection(part[i], 1..Cardinality(part[i]))
      BY <2>2, Fun_ExistsBijSymmetric DEF ExistsBijection
    <2>4. PICK g \in Bijection(part[i], 1..Cardinality(part[i])) : TRUE
      BY <2>3 DEF ExistsBijection
    <2>5. Cardinality(part[i]) \in Nat
      BY <2>1, FS_CardinalityType
    <2>6. g \in [part[i] -> 1..k]
      BY <2>4, <2>5 DEF Bijection, Injection
    <2>7. g \in Numbers(i)
      BY <2>4, <2>6 DEF Bijection, Injection, IsInjective
    <2> QED  BY <2>7
  <1>2. ASSUME NEW x \in S PROVE party[x] \in 1..n /\ x \in part[party[x]]
    OBVIOUS
  <1> HIDE DEF party, number
  <1>3. place \in [S -> places]
    BY <1>1, <1>2
  <1>4. ASSUME NEW x \in S, NEW y \in S, place[x] = place[y] PROVE x = y
    <2>1. party[x] = party[y] /\ number[party[x]][x] = number[party[x]][y]
      BY <1>4
    <2> QED  BY <2>1, <1>1, <1>2
  <1>5. place \in Injection(S, places)
    BY <1>3, <1>4 DEF Injection, IsInjective
  <1>6. IsFiniteSet(places) /\ Cardinality(places) = n * k
    BY CardGrid
  <1> HIDE DEF place, places
  <1> QED  BY <1>5, <1>6, FS_Injection

\* If n parties have at least k things each, and no two of them share one,
\* there are at least n * k things.
LEMMA PartsLower ==
  ASSUME NEW S, IsFiniteSet(S), NEW n \in Nat, NEW k \in Nat,
         NEW part \in [1..n -> SUBSET S],
         \A i, j \in 1..n : i # j => part[i] \cap part[j] = {},
         \A i \in 1..n : Cardinality(part[i]) >= k
  PROVE  Cardinality(S) >= n * k
  <1> DEFINE Lists(i) == {f \in [1..k -> part[i]] : \A x, y \in 1..k : f[x] = f[y] => x = y}
             list == [i \in 1..n |-> CHOOSE f : f \in Lists(i)]
             places == (1..n) \X (1..k)
             thing == [p \in places |-> list[p[1]][p[2]]]
  <1>1. ASSUME NEW i \in 1..n PROVE list[i] \in Lists(i)
    <2>1. IsFiniteSet(part[i])
      BY FS_Subset
    <2>2. PICK f \in Bijection(1..Cardinality(part[i]), part[i]) : TRUE
      BY <2>1, FS_CardinalityType DEF ExistsBijection
    <2>3. Cardinality(part[i]) \in Nat /\ 1..k \subseteq 1..Cardinality(part[i])
      BY <2>1, FS_CardinalityType
    <2>4. f \in [1..Cardinality(part[i]) -> part[i]]
          /\ \A x, y \in 1..Cardinality(part[i]) : f[x] = f[y] => x = y
      BY <2>2 DEF Bijection, Injection, IsInjective
    <2>5. [x \in 1..k |-> f[x]] \in Lists(i)
      BY <2>3, <2>4
    <2> QED  BY <2>5
  <1> HIDE DEF list
  <1>2. thing \in [places -> S]
    BY <1>1
  <1>3. ASSUME NEW p \in places, NEW q \in places, thing[p] = thing[q] PROVE p = q
    <2>1. p[1] \in 1..n /\ p[2] \in 1..k /\ q[1] \in 1..n /\ q[2] \in 1..k
          /\ p = <<p[1], p[2]>> /\ q = <<q[1], q[2]>>
      OBVIOUS
    <2>2. list[p[1]][p[2]] \in part[p[1]] /\ list[q[1]][q[2]] \in part[q[1]]
      BY <2>1, <1>1
    <2>3. list[p[1]][p[2]] = list[q[1]][q[2]]
      BY <1>3
    <2>4. p[1] = q[1]
      BY <2>1, <2>2, <2>3
    <2>5. p[2] = q[2]
      BY <1>1, <2>1, <2>3, <2>4
    <2> QED  BY <2>1, <2>4, <2>5
  <1>4. thing \in Injection(places, S)
    BY <1>2, <1>3 DEF Injection, IsInjective
  <1>5. Cardinality(places) = n * k
    BY CardGrid
  <1>6. IsFiniteSet(places) /\ Cardinality(places) <= Cardinality(S)
    <2> HIDE DEF thing, places
    <2> QED  BY <1>4, FS_Injection
  <1>7. Cardinality(S) \in Nat
    BY FS_CardinalityType
  <1> QED  BY <1>5, <1>6, <1>7

\* Some number of a set of naturals is the least.
LEMMA NatMin ==
  ASSUME NEW T, T \subseteq Nat, T # {}
  PROVE  \E x \in T : \A y \in T : x <= y
  <1> DEFINE R == OpToRel(<, Nat)
  <1>1. IsWellFoundedOn(R, Nat)
    BY NatLessThanWellFounded
  <1>2. PICK x \in T : \A y \in T : <<y, x>> \notin R
    BY <1>1, WFMin
  <1>3. \A y \in T : ~(y < x)
    BY <1>2 DEF OpToRel
  <1> QED  BY <1>3

\* The first of the least numbers of a list.
LEMMA FirstLeast ==
  ASSUME NEW n \in Nat \ {0}, NEW c \in Seq(Nat), Len(c) = n
  PROVE  \E g \in 0..(n - 1) : \A h \in 0..(n - 1) :
            c[g + 1] <= c[h + 1] /\ (h < g => c[g + 1] # c[h + 1])
  <1> DEFINE numbers == {c[g + 1] : g \in 0..(n - 1)}
  <1>1. \A g \in 0..(n - 1) : c[g + 1] \in Nat
    <2>1. DOMAIN c = 1..n
      OBVIOUS
    <2> QED  BY <2>1, ElementType
  <1>2. numbers \subseteq Nat /\ c[0 + 1] \in numbers
    BY <1>1
  <1>3. PICK least \in numbers : \A x \in numbers : least <= x
    BY <1>2, NatMin
  <1> DEFINE places == {g \in 0..(n - 1) : c[g + 1] = least}
  <1>4. places \subseteq Nat /\ places # {}
    <2>1. PICK g \in 0..(n - 1) : c[g + 1] = least
      BY <1>3
    <2>2. places \subseteq Nat /\ g \in places
      BY <2>1
    <2> QED  BY <2>2
  <1>5. PICK g \in places : \A h \in places : g <= h
    BY <1>4, NatMin
  <1>6. ASSUME NEW h \in 0..(n - 1) PROVE least <= c[h + 1]
    <2>1. c[h + 1] \in numbers
      OBVIOUS
    <2> QED  BY <1>3, <2>1
  <1> QED  BY <1>1, <1>5, <1>6
=============================================================================
