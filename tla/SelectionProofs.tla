--------------------------- MODULE SelectionProofs ---------------------------
(***************************************************************************)
(* What Nth and InOrder do, and the order of the elements of lists without *)
(* repetitions: such a list is determined by its elements and their order. *)
(***************************************************************************)
EXTENDS Selection, Integers, Sequences, SequencesExt, Functions,
        SequenceTheorems, FiniteSetTheorems, TLAPS

\* a is at b's place in the list q, or before it.
Before(q, a, b) == \E i, j \in DOMAIN q : i <= j /\ q[i] = a /\ q[j] = b

-----------------------------------------------------------------------------
(***************************************************************************)
(* Numbers in their order.                                                 *)
(***************************************************************************)
Below(S, i) == {j \in S : j <= i}

\* A finite set of numbers is numbered in their order.
LEMMA NthFacts ==
    ASSUME NEW S \in SUBSET Nat, IsFiniteSet(S)
    PROVE  /\ Cardinality(S) \in Nat
           /\ \A k \in 1 .. Cardinality(S) : Nth(S, k) \in S
           /\ \A k, l \in 1 .. Cardinality(S) : k < l => Nth(S, k) < Nth(S, l)
           /\ \A i \in S : \E k \in 1 .. Cardinality(S) : Nth(S, k) = i
  <1>1. PICK n \in Nat : n = Cardinality(S)
    BY FS_CardinalityType
  <1>2. PICK rank : rank = [i \in S |-> Cardinality(Below(S, i))]
    OBVIOUS
  <1>3. ASSUME NEW i \in S
        PROVE  rank[i] \in 1 .. n
    <2>1. Below(S, i) \in SUBSET S /\ i \in Below(S, i)
      BY DEF Below
    <2>2. /\ IsFiniteSet(Below(S, i))
          /\ Cardinality(Below(S, i)) <= n
      BY <1>1, <2>1, FS_Subset
    <2>3. Cardinality(Below(S, i)) \in Nat /\ Cardinality(Below(S, i)) # 0
      BY <2>1, <2>2, FS_CardinalityType, FS_EmptySet
    <2>4. QED
      BY <1>1, <1>2, <2>2, <2>3
  <1>4. ASSUME NEW i \in S, NEW j \in S, i < j
        PROVE  rank[i] < rank[j]
    <2>1. /\ Below(S, j) \in SUBSET S
          /\ Below(S, i) \in SUBSET Below(S, j)
          /\ j \in Below(S, j) /\ j \notin Below(S, i)
      <3>1. \A x \in S : x <= i => x <= j
        BY <1>4
      <3>2. ~(j <= i) /\ j <= j
        BY <1>4
      <3>3. QED
        BY <3>1, <3>2 DEF Below
    <2>2. IsFiniteSet(Below(S, j))
      BY <2>1, FS_Subset
    <2>3. /\ Cardinality(Below(S, i)) <= Cardinality(Below(S, j))
          /\ Cardinality(Below(S, i)) # Cardinality(Below(S, j))
      BY <2>1, <2>2, FS_Subset
    <2>4. rank[i] \in Nat /\ rank[j] \in Nat
      BY <1>1, <1>3
    <2>5. QED
      BY <1>2, <2>3, <2>4
  <1>5. \A i, j \in S : rank[i] = rank[j] => i = j
    <2>1. \A i, j \in S : i < j \/ j < i \/ i = j
      OBVIOUS
    <2>2. \A i \in S : rank[i] \in Nat
      BY <1>1, <1>3
    <2>3. QED
      BY <1>4, <2>1, <2>2
  <1>6. rank \in Injection(S, 1 .. n)
    <2>1. rank \in [S -> 1 .. n]
      BY <1>2, <1>3
    <2>2. QED
      BY <1>5, <2>1 DEF Injection, IsInjective
  <1>7. IsFiniteSet(1 .. n) /\ Cardinality(1 .. n) = n
    BY <1>1, FS_Interval
  <1>8. rank \in Surjection(S, 1 .. n)
    BY <1>1, <1>6, <1>7, FS_Injection
  <1>9. \A k \in 1 .. n : \E i \in S : rank[i] = k
    BY <1>8 DEF Surjection
  <1>10. \A k \in 1 .. n : Nth(S, k) \in S /\ rank[Nth(S, k)] = k
    BY <1>2, <1>9 DEF Nth, Below
  <1>11. \A k, l \in 1 .. n : k < l => Nth(S, k) < Nth(S, l)
    <2>1. SUFFICES ASSUME NEW k \in 1 .. n, NEW l \in 1 .. n, k < l,
                          ~(Nth(S, k) < Nth(S, l))
                   PROVE  FALSE
      OBVIOUS
    <2>2. PICK i \in S, j \in S :
              i = Nth(S, k) /\ j = Nth(S, l) /\ rank[i] = k /\ rank[j] = l
      BY <1>10
    <2>3. j < i \/ j = i
      BY <2>1, <2>2
    <2>4. rank[j] < rank[i] \/ rank[j] = rank[i]
      BY <1>4, <2>3
    <2>5. QED
      BY <1>1, <2>1, <2>2, <2>4
  <1>12. \A i \in S : Nth(S, rank[i]) = i
    BY <1>3, <1>5, <1>10
  <1>13. QED
    BY <1>1, <1>3, <1>10, <1>11, <1>12

LEMMA SeqOfFunction ==
    ASSUME NEW X, NEW c \in Nat, NEW m, m = [k \in 1 .. c |-> m[k]],
           \A k \in 1 .. c : m[k] \in X
    PROVE  m \in Seq(X) /\ Len(m) = c
  <1>1. m \in [1 .. c -> X]
    OBVIOUS
  <1>2. m \in Seq(X)
    BY <1>1, SeqDef
  <1>3. DOMAIN m = 1 .. c
    BY <1>1
  <1>4. QED
    BY <1>2, <1>3, LenProperties

\* m is o and one more element.
OneMore(m, o, v, c) ==
    /\ Len(o) = c
    /\ m = [k \in 1 .. c + 1 |-> m[k]]
    /\ m[c + 1] = v
    /\ \A k \in 1 .. c : m[k] = o[k]

LEMMA Appended ==
    ASSUME NEW X, NEW o \in Seq(X), NEW v \in X, NEW m, NEW c \in Nat,
           OneMore(m, o, v, c)
    PROVE  /\ m \in Seq(X) /\ Len(m) = c + 1 /\ m # << >>
           /\ m = Append(o, v)
           /\ SubSeq(m, 1, c) = o
  <1>0. /\ Len(o) = c
        /\ m = [k \in 1 .. c + 1 |-> m[k]]
        /\ m[c + 1] = v
        /\ \A k \in 1 .. c : m[k] = o[k]
    BY DEF OneMore
  <1>1. \A k \in 1 .. c : o[k] \in X
    BY <1>0, ElementOfSeq
  <1>2. \A k \in 1 .. c + 1 : k \in 1 .. c \/ k = c + 1
    OBVIOUS
  <1>3. \A k \in 1 .. c + 1 : m[k] \in X
    BY <1>0, <1>1, <1>2
  <1>4. m \in Seq(X) /\ Len(m) = c + 1
    BY <1>0, <1>3, SeqOfFunction
  <1>5. m # << >>
    BY <1>4, EmptySeq
  <1>6. m = Append(o, v)
    <2>1. PICK a : a = Append(o, v)
      OBVIOUS
    <2>2. /\ a \in Seq(X)
          /\ Len(a) = c + 1
          /\ a[c + 1] = v
          /\ \A k \in 1 .. c : a[k] = o[k]
      BY <1>0, <2>1, AppendProperties
    <2>3. \A k \in 1 .. c + 1 : m[k] = a[k]
      BY <1>0, <1>2, <2>2
    <2>4. QED
      BY <1>4, <2>1, <2>2, <2>3, SeqEqual
  <1>7. SubSeq(m, 1, c) = o
    <2>1. PICK b : b = SubSeq(m, 1, c)
      OBVIOUS
    <2>2. \A k \in 1 .. c : m[k] \in X
      BY <1>3
    <2>3. /\ b \in Seq(X)
          /\ Len(b) = c
          /\ \A k \in 1 .. c : b[k] = m[k]
      BY <1>4, <2>1, <2>2, SubSeqProperties
    <2>4. QED
      BY <1>0, <2>1, <2>3, SeqEqual
  <1>8. QED
    BY <1>4, <1>5, <1>6, <1>7

AllBelow(D, n) == \A i \in D : i < n

\* The values at D followed by the value at a later position.
LEMMA NthOfMore ==
    ASSUME NEW D \in SUBSET Nat, IsFiniteSet(D), NEW n \in Nat,
           AllBelow(D, n), NEW E, E = D \cup {n}
    PROVE  /\ IsFiniteSet(E) /\ Cardinality(D) \in Nat
           /\ Cardinality(E) = Cardinality(D) + 1
           /\ \A k \in 1 .. Cardinality(D) : Nth(E, k) = Nth(D, k) /\ Nth(D, k) \in D
           /\ Nth(E, Cardinality(D) + 1) = n
  <1>1. n \notin D
    <2>1. \A i \in D : i \in Nat /\ i < n
      BY DEF AllBelow
    <2>2. ~(n < n)
      OBVIOUS
    <2>3. QED
      BY <2>1, <2>2
  <1>2. PICK c \in Nat : c = Cardinality(D)
    BY FS_CardinalityType
  <1>3. IsFiniteSet(E) /\ Cardinality(E) = c + 1
    BY <1>1, <1>2, FS_AddElement
  <1>4. E \in SUBSET Nat
    OBVIOUS
  <1>5. /\ \A k \in 1 .. c : Nth(D, k) \in D
        /\ \A k, l \in 1 .. c : k < l => Nth(D, k) < Nth(D, l)
        /\ \A i \in D : \E k \in 1 .. c : Nth(D, k) = i
    BY <1>2, NthFacts
  <1>6. \A i \in D : {j \in E : j <= i} = {j \in D : j <= i}
    <2>1. \A i \in D : ~(n <= i)
      <3>1. \A i \in D : i \in Nat /\ i < n
        BY DEF AllBelow
      <3>2. QED
        BY <3>1
    <2>2. QED
      BY <2>1
  <1>7. {j \in E : j <= n} = E
    <2>1. \A j \in D : j \in Nat /\ j <= n
      <3>1. \A j \in D : j \in Nat /\ j < n
        BY DEF AllBelow
      <3>2. QED
        BY <3>1
    <2>2. n <= n
      OBVIOUS
    <2>3. \A j \in E : j <= n
      BY <2>1, <2>2
    <2>4. QED
      BY <2>3
  <1>8. \A i \in D : Cardinality({j \in D : j <= i}) <= c
    <2>1. \A i \in D : {j \in D : j <= i} \in SUBSET D
      OBVIOUS
    <2>2. QED
      BY <1>2, <2>1, FS_Subset
  <1>9. ASSUME NEW k \in 1 .. c
        PROVE  Nth(E, k) = Nth(D, k)
    <2>1. Cardinality({j \in E : j <= n}) # k
      <3>1. k # c + 1
        OBVIOUS
      <3>2. QED
        BY <1>3, <1>7, <3>1
    <2>2. \A i \in E : Cardinality({j \in E : j <= i}) = k <=>
                          i \in D /\ Cardinality({j \in D : j <= i}) = k
      BY <1>6, <2>1
    <2>3. \A i : (i \in E /\ Cardinality({j \in E : j <= i}) = k) <=>
                    (i \in D /\ Cardinality({j \in D : j <= i}) = k)
      BY <2>2
    <2>4. QED
      BY <2>3 DEF Nth
  <1>10. Nth(E, c + 1) = n
    <2>1. \A i \in D : ~(Cardinality({j \in D : j <= i}) = c + 1)
      <3>1. ASSUME NEW x, x <= c, x = c + 1
            PROVE  FALSE
        BY <3>1
      <3>2. QED
        BY <1>8, <3>1
    <2>2. \A i \in E : Cardinality({j \in E : j <= i}) = c + 1 <=> i = n
      BY <1>3, <1>6, <1>7, <2>1
    <2>3. n \in E
      OBVIOUS
    <2>4. QED
      BY <2>2, <2>3 DEF Nth
  <1>11. QED
    BY <1>2, <1>3, <1>5, <1>9, <1>10

LEMMA InOrderFacts ==
    ASSUME NEW D \in SUBSET Nat, IsFiniteSet(D), NEW f, NEW m, m = InOrder(f, D)
    PROVE  /\ DOMAIN m = 1 .. Cardinality(D)
           /\ Cardinality(D) \in Nat
           /\ \A k \in DOMAIN m : Nth(D, k) \in D /\ m[k] = f[Nth(D, k)]
           /\ \A i \in D : \E k \in DOMAIN m : Nth(D, k) = i
           /\ \A k, l \in DOMAIN m : k < l => Nth(D, k) < Nth(D, l)
           /\ \A X : (\A i \in D : f[i] \in X) => m \in Seq(X)
  <1>1. m = [k \in 1 .. Cardinality(D) |-> f[Nth(D, k)]]
    BY DEF InOrder
  <1>2. PICK c \in Nat : c = Cardinality(D)
    BY FS_CardinalityType
  <1>3. /\ \A k \in 1 .. c : Nth(D, k) \in D
        /\ \A k, l \in 1 .. c : k < l => Nth(D, k) < Nth(D, l)
        /\ \A i \in D : \E k \in 1 .. c : Nth(D, k) = i
    BY <1>2, NthFacts
  <1>4. ASSUME NEW X, \A i \in D : f[i] \in X
        PROVE  m \in Seq(X)
    <2>1. \A k \in 1 .. c : f[Nth(D, k)] \in X
      BY <1>3, <1>4
    <2>2. m = [k \in 1 .. c |-> f[Nth(D, k)]]
      BY <1>1, <1>2
    <2>3. DOMAIN m = 1 .. c /\ \A k \in 1 .. c : m[k] \in X
      BY <2>1, <2>2
    <2>4. m = [k \in 1 .. c |-> m[k]]
      BY <2>2, <2>3
    <2>5. QED
      BY <2>3, <2>4, SeqOfFunction
  <1>5. QED
    BY <1>1, <1>2, <1>3, <1>4

LEMMA InOrderSame ==
    ASSUME NEW D \in SUBSET Nat, IsFiniteSet(D), NEW f, NEW g,
           \A i \in D : f[i] = g[i]
    PROVE  InOrder(f, D) = InOrder(g, D)
  <1>1. \A k \in 1 .. Cardinality(D) : Nth(D, k) \in D
    BY NthFacts
  <1>2. QED
    BY <1>1 DEF InOrder

LEMMA InOrderNone ==
    ASSUME NEW f
    PROVE  InOrder(f, {}) = << >>
  <1>1. Cardinality({}) = 0
    BY FS_EmptySet
  <1>2. InOrder(f, {}) = [k \in 1 .. 0 |-> f[Nth({}, k)]]
    BY <1>1 DEF InOrder
  <1>3. QED
    BY <1>2

\* m is the list o, followed by v.
EndsWith(m, o, v) ==
    /\ m # << >>
    /\ m = Append(o, v)
    /\ m[Len(m)] = v
    /\ SubSeq(m, 1, Len(m) - 1) = o

\* What is at the last position comes last.
LEMMA InOrderLast ==
    ASSUME NEW D \in SUBSET Nat, IsFiniteSet(D), NEW n \in Nat, AllBelow(D, n), NEW f
    PROVE  EndsWith(InOrder(f, D \cup {n}), InOrder(f, D), f[n])
  <1>0. PICK m, X : /\ m = InOrder(f, D \cup {n})
                    /\ X = {f[i] : i \in D \cup {n}}
    OBVIOUS
  <1>1. PICK E : E = D \cup {n}
    OBVIOUS
  <1>2. PICK c \in Nat : c = Cardinality(D)
    BY FS_CardinalityType
  <1>3. /\ IsFiniteSet(E)
        /\ Cardinality(E) = c + 1
        /\ \A k \in 1 .. c : Nth(E, k) = Nth(D, k) /\ Nth(D, k) \in D
        /\ Nth(E, c + 1) = n
    <2>1. /\ IsFiniteSet(E)
          /\ Cardinality(E) = Cardinality(D) + 1
          /\ \A k \in 1 .. Cardinality(D) : Nth(E, k) = Nth(D, k) /\ Nth(D, k) \in D
          /\ Nth(E, Cardinality(D) + 1) = n
      BY <1>1, NthOfMore
    <2>2. QED
      BY <1>2, <2>1
  <1>4. m = [k \in 1 .. c + 1 |-> f[Nth(E, k)]]
    BY <1>0, <1>1, <1>3 DEF InOrder
  <1>5. PICK o : o = InOrder(f, D)
    OBVIOUS
  <1>6. o = [k \in 1 .. c |-> f[Nth(D, k)]]
    BY <1>2, <1>5 DEF InOrder
  <1>7. o \in Seq(X) /\ Len(o) = c
    <2>1. \A i \in D : f[i] \in X
      BY <1>0
    <2>2. /\ o = [k \in 1 .. c |-> o[k]]
          /\ \A k \in 1 .. c : o[k] = f[Nth(D, k)]
      BY <1>6
    <2>3. \A k \in 1 .. c : o[k] \in X
      BY <1>3, <2>1, <2>2
    <2>4. QED
      BY <2>2, <2>3, SeqOfFunction
  <1>8. PICK v \in X : v = f[n]
    BY <1>0
  <1>9. /\ m = [k \in 1 .. c + 1 |-> m[k]]
        /\ \A k \in 1 .. c + 1 : m[k] = f[Nth(E, k)]
    BY <1>4
  <1>10. /\ m[c + 1] = v
         /\ \A k \in 1 .. c : m[k] = o[k]
    <2>1. c + 1 \in 1 .. c + 1 /\ \A k \in 1 .. c : k \in 1 .. c + 1
      OBVIOUS
    <2>2. \A k \in 1 .. c : o[k] = f[Nth(D, k)]
      BY <1>6
    <2>3. QED
      BY <1>3, <1>8, <1>9, <2>1, <2>2
  <1>11. /\ m \in Seq(X) /\ Len(m) = c + 1 /\ m # << >>
         /\ m = Append(o, v)
         /\ SubSeq(m, 1, c) = o
    <2>1. OneMore(m, o, v, c)
      BY <1>7, <1>9, <1>10 DEF OneMore
    <2>2. QED
      <3>1. o \in Seq(X)
        BY <1>7
      <3>2. m \in Seq(X)
        BY <2>1, <3>1, Appended
      <3>3. Len(m) = c + 1
        BY <2>1, <3>1, Appended
      <3>4. m # << >>
        BY <2>1, <3>1, Appended
      <3>5. m = Append(o, v)
        BY <2>1, <3>1, Appended
      <3>6. SubSeq(m, 1, c) = o
        BY <2>1, <3>1, Appended
      <3>7. QED
        BY <3>2, <3>3, <3>4, <3>5, <3>6, Zenon
  <1>12. /\ m[Len(m)] = v
         /\ SubSeq(m, 1, Len(m) - 1) = o
    <2>1. Len(m) = c + 1 /\ Len(m) - 1 = c
      BY <1>11
    <2>2. QED
      BY <1>10, <1>11, <2>1, Zenon
  <1>13. EndsWith(m, o, v)
    BY <1>11, <1>12 DEF EndsWith
  <1>14. QED
    BY <1>0, <1>5, <1>8, <1>13

-----------------------------------------------------------------------------
(***************************************************************************)
(* Lists without repetitions.                                              *)
(***************************************************************************)
LEMMA BeforeFacts ==
    ASSUME NEW X, NEW q \in Seq(X), IsInjective(q)
    PROVE  /\ \A a, b : Before(q, a, b) => a \in ToSet(q) /\ b \in ToSet(q)
           /\ \A a \in ToSet(q) : Before(q, a, a)
           /\ \A a, b \in ToSet(q) : Before(q, a, b) \/ Before(q, b, a)
           /\ \A a, b : Before(q, a, b) /\ Before(q, b, a) => a = b
           /\ \A a, b, c : Before(q, a, b) /\ Before(q, b, c) => Before(q, a, c)
           /\ \A i, j \in DOMAIN q : Before(q, q[i], q[j]) <=> i <= j
  <1>1. PICK n \in Nat : n = Len(q) /\ DOMAIN q = 1 .. n
    BY LenProperties
  <1>2. \A i, j \in 1 .. n : q[i] = q[j] => i = j
    BY <1>1 DEF IsInjective
  <1>3. \A a : a \in ToSet(q) <=> \E i \in 1 .. n : q[i] = a
    BY <1>1 DEF ToSet
  <1>4. \A a, b : Before(q, a, b) <=>
                     \E i, j \in 1 .. n : i <= j /\ q[i] = a /\ q[j] = b
    BY <1>1 DEF Before
  <1>5. \A i, j \in 1 .. n : Before(q, q[i], q[j]) <=> i <= j
    BY <1>2, <1>4
  <1>6. \A a, b : Before(q, a, b) => a \in ToSet(q) /\ b \in ToSet(q)
    BY <1>3, <1>4
  <1>7. \A i, j \in 1 .. n : i <= j \/ j <= i
    OBVIOUS
  <1>8. \A a \in ToSet(q) : Before(q, a, a)
    BY <1>3, <1>5
  <1>9. \A a, b \in ToSet(q) : Before(q, a, b) \/ Before(q, b, a)
    BY <1>3, <1>5, <1>7
  <1>10. \A a, b : Before(q, a, b) /\ Before(q, b, a) => a = b
    <2>1. SUFFICES ASSUME NEW a, NEW b, Before(q, a, b), Before(q, b, a)
                   PROVE  a = b
      OBVIOUS
    <2>2. PICK i, j \in 1 .. n : q[i] = a /\ q[j] = b
      BY <1>3, <1>6, <2>1
    <2>3. i <= j /\ j <= i
      BY <1>5, <2>1, <2>2
    <2>4. QED
      BY <2>2, <2>3
  <1>11. \A a, b, c : Before(q, a, b) /\ Before(q, b, c) => Before(q, a, c)
    <2>1. SUFFICES ASSUME NEW a, NEW b, NEW c, Before(q, a, b), Before(q, b, c)
                   PROVE  Before(q, a, c)
      OBVIOUS
    <2>2. PICK i, j, k \in 1 .. n : q[i] = a /\ q[j] = b /\ q[k] = c
      BY <1>3, <1>6, <2>1
    <2>3. i <= j /\ j <= k
      BY <1>5, <2>1, <2>2
    <2>4. i <= k
      BY <2>3
    <2>5. QED
      BY <1>5, <2>2, <2>4
  <1>12. QED
    BY <1>1, <1>5, <1>6, <1>8, <1>9, <1>10, <1>11

\* m has the elements of S, once each, in the order that they have in q.
Lists(m, q, S) ==
    /\ m \in Seq(S)
    /\ IsInjective(m)
    /\ ToSet(m) = S
    /\ \A a, b \in S : Before(m, a, b) <=> Before(q, a, b)

\* The elements before the k-th one are k - 1.
LEMMA Ranks ==
    ASSUME NEW S, NEW m \in Seq(S), IsInjective(m), NEW k \in DOMAIN m
    PROVE  Cardinality({a \in ToSet(m) : Before(m, a, m[k])}) = k
  <1>1. PICK n \in Nat : n = Len(m) /\ DOMAIN m = 1 .. n
    BY LenProperties
  <1>2. PICK B : B = {a \in ToSet(m) : Before(m, a, m[k])}
    OBVIOUS
  <1>3. PICK f : f = [i \in 1 .. k |-> m[i]]
    OBVIOUS
  <1>4. \A i, j \in 1 .. n : Before(m, m[i], m[j]) <=> i <= j
    BY <1>1, BeforeFacts
  <1>5. \A i \in 1 .. k : i \in 1 .. n /\ i <= k
    BY <1>1
  <1>6. \A i \in 1 .. n : i <= k => i \in 1 .. k
    BY <1>1
  <1>7. f \in [1 .. k -> B]
    <2>1. \A i \in 1 .. k : m[i] \in ToSet(m) /\ Before(m, m[i], m[k])
      BY <1>1, <1>4, <1>5 DEF ToSet
    <2>2. QED
      BY <1>2, <1>3, <2>1
  <1>8. \A i, j \in 1 .. k : f[i] = f[j] => i = j
    BY <1>1, <1>3, <1>5 DEF IsInjective
  <1>9. \A a \in B : \E i \in 1 .. k : f[i] = a
    <2>1. SUFFICES ASSUME NEW a \in ToSet(m), Before(m, a, m[k])
                   PROVE  \E i \in 1 .. k : f[i] = a
      BY <1>2
    <2>2. PICK i \in 1 .. n : m[i] = a
      BY <1>1 DEF ToSet
    <2>3. i \in 1 .. k
      BY <1>1, <1>4, <1>6, <2>1, <2>2
    <2>4. QED
      BY <1>3, <2>2, <2>3
  <1>10. f \in Bijection(1 .. k, B)
    BY <1>7, <1>8, <1>9 DEF Bijection, Injection, Surjection, IsInjective
  <1>11. k \in Nat /\ k >= 1
    BY <1>1
  <1>12. IsFiniteSet(1 .. k) /\ Cardinality(1 .. k) = k
    BY <1>11, FS_Interval
  <1>13. Cardinality(B) = k
    BY <1>10, <1>12, FS_Bijection DEF ExistsBijection
  <1>14. QED
    BY <1>2, <1>13

\* A list is determined by its elements and their order.
LEMMA OneList ==
    ASSUME NEW S, NEW q, NEW r, NEW m, NEW o, Lists(m, q, S), Lists(o, r, S),
           \A a, b \in S : Before(q, a, b) <=> Before(r, a, b)
    PROVE  m = o
  <1>1. /\ m \in Seq(S) /\ IsInjective(m) /\ ToSet(m) = S
        /\ o \in Seq(S) /\ IsInjective(o) /\ ToSet(o) = S
        /\ \A a, b \in S : Before(m, a, b) <=> Before(o, a, b)
    BY DEF Lists
  <1>2. \A k \in DOMAIN m, l \in DOMAIN o : m[k] = o[l] => k = l
    <2>1. SUFFICES ASSUME NEW k \in DOMAIN m, NEW l \in DOMAIN o, m[k] = o[l]
                   PROVE  k = l
      OBVIOUS
    <2>2. m[k] \in S
      BY <1>1 DEF ToSet
    <2>3. {a \in ToSet(m) : Before(m, a, m[k])} = {a \in ToSet(o) : Before(o, a, o[l])}
      BY <1>1, <2>1, <2>2
    <2>4. QED
      BY <1>1, <2>3, Ranks
  <1>3. \A k \in DOMAIN m : k \in DOMAIN o /\ m[k] = o[k]
    <2>1. \A k \in DOMAIN m : \E l \in DOMAIN o : m[k] = o[l]
      BY <1>1 DEF ToSet
    <2>2. QED
      BY <1>2, <2>1
  <1>4. \A k \in DOMAIN o : k \in DOMAIN m
    <2>1. \A k \in DOMAIN o : \E l \in DOMAIN m : o[k] = m[l]
      BY <1>1 DEF ToSet
    <2>2. QED
      BY <1>2, <2>1
  <1>5. DOMAIN m = DOMAIN o
    BY <1>3, <1>4
  <1>6. /\ m = [k \in DOMAIN m |-> m[k]]
        /\ o = [k \in DOMAIN o |-> o[k]]
    BY <1>1, LenProperties
  <1>7. QED
    BY <1>3, <1>5, <1>6

\* The elements of a list at some of its positions.
LEMMA ListsInOrder ==
    ASSUME NEW X, NEW q \in Seq(X), IsInjective(q), NEW D \in SUBSET (DOMAIN q),
           NEW S, S = {q[i] : i \in D}
    PROVE  Lists(InOrder(q, D), q, S)
  <1>1. PICK m : m = InOrder(q, D)
    OBVIOUS
  <1>2. PICK n \in Nat : n = Len(q) /\ DOMAIN q = 1 .. n
    BY LenProperties
  <1>3. D \in SUBSET Nat /\ IsFiniteSet(D)
    <2>1. IsFiniteSet(1 .. n)
      BY FS_Interval
    <2>2. QED
      BY <1>2, <2>1, FS_Subset
  <1>4. PICK p : p = [k \in DOMAIN m |-> Nth(D, k)]
    OBVIOUS
  <1>5. PICK c \in Nat : c = Cardinality(D)
    BY <1>3, FS_CardinalityType
  <1>6. /\ DOMAIN m = 1 .. c
        /\ \A k \in 1 .. c : p[k] \in D /\ m[k] = q[p[k]]
        /\ \A i \in D : \E k \in 1 .. c : p[k] = i
        /\ \A k, l \in 1 .. c : k < l => p[k] < p[l]
    BY <1>1, <1>3, <1>4, <1>5, InOrderFacts
  <1>7. m \in Seq(S)
    <2>1. \A i \in D : q[i] \in S
      OBVIOUS
    <2>2. QED
      BY <1>1, <1>3, <2>1, InOrderFacts
  <1>8. \A k \in 1 .. c : p[k] \in 1 .. n
    BY <1>2, <1>6
  <1>9. \A k, l \in 1 .. c : p[k] <= p[l] <=> k <= l
    <2>1. SUFFICES ASSUME NEW k \in 1 .. c, NEW l \in 1 .. c
                   PROVE  p[k] <= p[l] <=> k <= l
      OBVIOUS
    <2>2. p[k] \in Nat /\ p[l] \in Nat
      BY <1>8
    <2>3. CASE k < l
      BY <1>6, <2>2, <2>3
    <2>4. CASE l < k
      BY <1>6, <2>2, <2>4
    <2>5. CASE k = l
      BY <2>2, <2>5
    <2>6. QED
      BY <2>3, <2>4, <2>5
  <1>10. \A i, j \in 1 .. n : q[i] = q[j] => i = j
    BY <1>2 DEF IsInjective
  <1>11. \A k, l \in 1 .. c : m[k] = m[l] => k = l
    <2>1. SUFFICES ASSUME NEW k \in 1 .. c, NEW l \in 1 .. c, m[k] = m[l]
                   PROVE  k = l
      OBVIOUS
    <2>2. p[k] = p[l] /\ p[k] \in Nat
      BY <1>6, <1>8, <1>10, <2>1
    <2>3. k <= l /\ l <= k
      BY <1>9, <2>2
    <2>4. QED
      BY <2>3
  <1>12. IsInjective(m)
    BY <1>6, <1>11 DEF IsInjective
  <1>13. ToSet(m) = S
    BY <1>6 DEF ToSet
  <1>14. \A k, l \in 1 .. c : Before(m, m[k], m[l]) <=> Before(q, m[k], m[l])
    <2>1. SUFFICES ASSUME NEW k \in 1 .. c, NEW l \in 1 .. c
                   PROVE  Before(m, m[k], m[l]) <=> Before(q, m[k], m[l])
      OBVIOUS
    <2>2. Before(m, m[k], m[l]) <=> k <= l
      BY <1>6, <1>7, <1>12, BeforeFacts
    <2>3. Before(q, q[p[k]], q[p[l]]) <=> p[k] <= p[l]
      BY <1>2, <1>8, BeforeFacts
    <2>4. QED
      BY <1>6, <1>9, <2>2, <2>3
  <1>15. \A a, b \in S : Before(m, a, b) <=> Before(q, a, b)
    <2>1. \A a \in S : \E k \in 1 .. c : m[k] = a
      BY <1>6, <1>13 DEF ToSet
    <2>2. QED
      BY <1>14, <2>1
  <1>16. QED
    BY <1>1, <1>7, <1>12, <1>13, <1>15 DEF Lists

\* The list of what is not in D, in the same order.
LEMMA ListsWithout ==
    ASSUME NEW S, NEW q, NEW m, Lists(m, q, S), NEW D,
           NEW o, o = InOrder(m, {k \in DOMAIN m : m[k] \notin D})
    PROVE  Lists(o, q, S \ D)
  <1>1. PICK P : P = {k \in DOMAIN m : m[k] \notin D}
    OBVIOUS
  <1>2. S \ D = {m[k] : k \in P}
    BY <1>1 DEF Lists, ToSet
  <1>3. P \in SUBSET (DOMAIN m)
    BY <1>1
  <1>4. Lists(o, m, S \ D)
    <2>1. m \in Seq(S) /\ IsInjective(m)
      BY DEF Lists
    <2>2. Lists(InOrder(m, P), m, S \ D)
      BY <1>2, <1>3, <2>1, ListsInOrder
    <2>3. QED
      BY <1>1, <2>2
  <1>5. QED
    BY <1>4 DEF Lists

\* The order may come from another list.
LEMMA ListsReordered ==
    ASSUME NEW S, NEW q, NEW r, NEW m, Lists(m, q, S),
           \A a, b \in S : Before(q, a, b) <=> Before(r, a, b)
    PROVE  Lists(m, r, S)
  BY DEF Lists

\* The order in which the elements of S are in q is the one that they have in
\* r, if those that come before one another in q do so in r.
LEMMA OrderKept ==
    ASSUME NEW X, NEW q \in Seq(X), NEW r \in Seq(X), IsInjective(q), IsInjective(r),
           NEW S, S \subseteq ToSet(q),
           \A a, b \in S : Before(q, a, b) => Before(r, a, b)
    PROVE  \A a, b \in S : Before(q, a, b) <=> Before(r, a, b)
  <1>1. SUFFICES ASSUME NEW a \in S, NEW b \in S, Before(r, a, b), ~Before(q, a, b)
                 PROVE  FALSE
    OBVIOUS
  <1>2. Before(q, b, a)
    BY <1>1, BeforeFacts
  <1>3. Before(r, b, a)
    BY <1>2
  <1>4. a = b
    BY <1>1, <1>3, BeforeFacts
  <1>5. QED
    BY <1>1, <1>2, <1>4

LEMMA ListsTail ==
    ASSUME NEW S, NEW q, NEW m, Lists(m, q, S), NEW a \in S,
           \A b \in S : Before(q, a, b)
    PROVE  /\ m # << >>
           /\ Head(m) = a
           /\ Lists(Tail(m), q, S \ {a})
  <1>1. /\ m \in Seq(S) /\ IsInjective(m) /\ ToSet(m) = S
        /\ \A x, y \in S : Before(m, x, y) <=> Before(q, x, y)
    BY DEF Lists
  <1>2. PICK n \in Nat : n = Len(m) /\ DOMAIN m = 1 .. n
    BY <1>1, LenProperties
  <1>3. PICK k \in 1 .. n : m[k] = a
    BY <1>1, <1>2 DEF ToSet
  <1>4. 1 \in 1 .. n
    BY <1>3
  <1>5. m[1] \in S
    BY <1>1, <1>2, <1>4, ElementOfSeq
  <1>6. Before(m, m[k], m[1])
    BY <1>1, <1>3, <1>5
  <1>7. k = 1
    BY <1>1, <1>2, <1>4, <1>6, BeforeFacts
  <1>8. m # << >>
    BY <1>1, <1>2, <1>4, EmptySeq
  <1>9. Head(m) = a
    BY <1>1, <1>3, <1>7, <1>8, HeadTailProperties
  <1>10. PICK t : t = Tail(m)
    OBVIOUS
  <1>11. /\ t \in Seq(S)
         /\ DOMAIN t = 1 .. n - 1
         /\ \A i \in 1 .. n - 1 : t[i] = m[i + 1]
    <2>1. /\ t \in Seq(S)
          /\ Len(t) = Len(m) - 1
          /\ \A i \in 1 .. Len(t) : t[i] = m[i + 1]
      BY <1>1, <1>8, <1>10, HeadTailProperties
    <2>2. QED
      BY <1>2, <2>1, LenProperties
  <1>12. \A i \in 1 .. n - 1 : i + 1 \in 1 .. n /\ i + 1 # 1
    BY <1>2
  <1>13. \A i, j \in 1 .. n - 1 : t[i] = t[j] => i = j
    <2>1. SUFFICES ASSUME NEW i \in 1 .. n - 1, NEW j \in 1 .. n - 1, t[i] = t[j]
                   PROVE  i = j
      OBVIOUS
    <2>2. m[i + 1] = m[j + 1]
      BY <1>11, <2>1
    <2>3. i + 1 = j + 1
      BY <1>1, <1>2, <1>12, <2>2 DEF IsInjective
    <2>4. QED
      BY <2>3
  <1>14. IsInjective(t)
    BY <1>11, <1>13 DEF IsInjective
  <1>15. ToSet(t) = S \ {a}
    <2>1. \A i \in 1 .. n - 1 : t[i] \in S \ {a}
      <3>1. \A i \in 1 .. n - 1 : m[i + 1] \in S /\ m[i + 1] # m[1]
        BY <1>1, <1>2, <1>4, <1>12 DEF IsInjective, ToSet
      <3>2. QED
        BY <1>3, <1>7, <1>11, <3>1
    <2>2. ASSUME NEW b \in S, b # a
          PROVE  \E i \in 1 .. n - 1 : t[i] = b
      <3>1. PICK j \in 1 .. n : m[j] = b
        BY <1>1, <1>2 DEF ToSet
      <3>2. j # 1
        BY <1>3, <1>7, <2>2, <3>1
      <3>3. j - 1 \in 1 .. n - 1 /\ (j - 1) + 1 = j
        BY <3>2
      <3>4. QED
        BY <1>11, <3>1, <3>3
    <2>3. QED
      BY <1>11, <2>1, <2>2 DEF ToSet
  <1>16. \A i, j \in 1 .. n - 1 : Before(t, t[i], t[j]) <=> Before(m, t[i], t[j])
    <2>1. SUFFICES ASSUME NEW i \in 1 .. n - 1, NEW j \in 1 .. n - 1
                   PROVE  Before(t, t[i], t[j]) <=> Before(m, t[i], t[j])
      OBVIOUS
    <2>2. Before(t, t[i], t[j]) <=> i <= j
      BY <1>11, <1>14, BeforeFacts
    <2>3. Before(m, m[i + 1], m[j + 1]) <=> i + 1 <= j + 1
      BY <1>1, <1>2, <1>12, BeforeFacts
    <2>4. i + 1 <= j + 1 <=> i <= j
      OBVIOUS
    <2>5. QED
      BY <1>11, <2>2, <2>3, <2>4
  <1>17. \A x, y \in S \ {a} : Before(t, x, y) <=> Before(q, x, y)
    <2>1. SUFFICES ASSUME NEW x \in S \ {a}, NEW y \in S \ {a}
                   PROVE  Before(t, x, y) <=> Before(q, x, y)
      OBVIOUS
    <2>2. PICK i, j \in 1 .. n - 1 : t[i] = x /\ t[j] = y
      BY <1>11, <1>15 DEF ToSet
    <2>3. QED
      BY <1>1, <1>16, <2>2
  <1>18. t \in Seq(S \ {a})
    <2>1. \A i \in 1 .. n - 1 : t[i] \in S \ {a}
      BY <1>11, <1>15 DEF ToSet
    <2>2. t = [i \in 1 .. n - 1 |-> t[i]]
      BY <1>11, LenProperties
    <2>3. n - 1 \in Nat
      BY <1>2, <1>3
    <2>4. QED
      BY <2>1, <2>2, <2>3, SeqOfFunction
  <1>19. QED
    BY <1>8, <1>9, <1>10, <1>14, <1>15, <1>17, <1>18 DEF Lists

=============================================================================
