----------------------------- MODULE SignalProofs -----------------------------
(***************************************************************************)
(* Proofs about module Signal, for every number of slots, depth of the     *)
(* stack and number of signal objects.                                     *)
(*                                                                         *)
(* The four invariants proved here, TypeOK, IteratorsValid,                *)
(* ExecCountsHolders and NotificationsValid, depend on each other: the     *)
(* iterators stay valid because exec counts the frames that use them,      *)
(* erasing a slot is safe because its notification is valid, and types are *)
(* preserved only if both hold. IInv is their common strengthening.        *)
(***************************************************************************)
EXTENDS Signal, SelectionProofs

(***************************************************************************)
(* The inductive invariant. Its parts are predicates of the values they    *)
(* relate: q is a list of slots, stk a stack, par, cl, rp, fn and im are   *)
(* values of parent, call, rep, functor and impl.                          *)
(***************************************************************************)
HolderDepths(stk) == {i \in DOMAIN stk : stk[i].op \in Holder}

ExecInv(ex, stk) == ex = Cardinality(HolderDepths(stk))

\* Emissions in progress: their placeholders are the only ones, and those of
\* inner emissions come later in the list.
EmitInv(q, stk) ==
    /\ IsInjective(q)
    /\ \A i \in DOMAIN stk : stk[i].op = "emit" =>
          /\ i \in Mark
          /\ Before(q, stk[i].at, i)
          /\ stk[i].running => stk[i].at \in Slot
    /\ \A i, j \in DOMAIN stk :
          stk[i].op = "emit" /\ stk[j].op = "emit" /\ i < j => Before(q, i, j)
    /\ \A m \in Mark \cap ToSet(q) : m \in DOMAIN stk /\ stk[m].op = "emit"

\* A sweep, and the clearing of the list, interrupt no other user of it.
SweepInv(q, stk) ==
    /\ \A i \in DOMAIN stk : stk[i].op = "sweep" =>
          stk[i].at \in (ToSet(q) \cap Slot) \cup {End}
    /\ \A i, j \in DOMAIN stk :
          stk[i].op \in {"sweep", "clear", "dtor"} /\ j < i
              => stk[j].op \notin {"emit", "sweep"}

\* The slots that the functions on the stack are about to destroy.
Dying == FunctorDtor \cup {"notify", "erase"}

DyingInv(q, stk, par, rp) ==
    \A i \in DOMAIN stk :
        /\ stk[i].op \in Dying =>
              /\ stk[i].at \in Slot \ par
              /\ rp[stk[i].at] # "none"
        /\ stk[i].op = "delete" => stk[i].at \notin ToSet(q)
        /\ stk[i].op \in {"clear", "dtor"} => ToSet(q) \cap par = {}

\* The life of a slot.
SlotInv(q, par, cl, rp, fn, im) ==
    /\ \A s \in Slot : rp[s] = "none" =>
          s \notin ToSet(q) \cup par \cup cl /\ fn[s] = "none"
    /\ \A s \in ToSet(q) \cap Slot : rp[s] = "live"
    /\ \A s \in par : rp[s] = "live" =>
          /\ s \in ToSet(q)
          /\ im = "live"
          /\ s \in cl \/ fn[s] = "none"

\* A signal_impl that is being destroyed has no user any more.
DtorInv(stk, im) == \A i \in DOMAIN stk : stk[i].op = "dtor" => im # "live"

HandleInv == impl # "live" => ~HasHandle

FramesInv(q, stk, par, rp, im) ==
    /\ EmitInv(q, stk)
    /\ SweepInv(q, stk)
    /\ DyingInv(q, stk, par, rp)
    /\ DtorInv(stk, im)

IInv ==
    /\ TypeOK
    /\ ExecInv(exec, stack)
    /\ FramesInv(slots, stack, parent, rep, impl)
    /\ SlotInv(slots, parent, call, rep, functor, impl)
    /\ HandleInv

-----------------------------------------------------------------------------
(***************************************************************************)
(* The stack: what a push, a return and a step of the top frame change.    *)
(***************************************************************************)
CallerOf(stk) == SubSeq(stk, 1, Len(stk) - 1)

LEMMA PushFacts ==
    ASSUME NEW stk \in Seq(Frame), NEW f \in Frame
    PROVE  /\ Append(stk, f) \in Seq(Frame)
           /\ DOMAIN stk = 1 .. Len(stk)
           /\ Len(stk) \in Nat
           /\ Len(Append(stk, f)) = Len(stk) + 1
           /\ DOMAIN Append(stk, f) = 1 .. Len(stk) + 1
           /\ Append(stk, f)[Len(stk) + 1] = f
           /\ \A i \in 1 .. Len(stk) : Append(stk, f)[i] = stk[i]
  OBVIOUS

LEMMA PopFacts ==
    ASSUME NEW stk \in Seq(Frame), stk # <<>>,
           NEW rest, rest = CallerOf(stk)
    PROVE  /\ rest \in Seq(Frame)
           /\ DOMAIN stk = 1 .. Len(stk)
           /\ Len(stk) \in Nat \ {0}
           /\ Len(rest) = Len(stk) - 1
           /\ DOMAIN rest = 1 .. Len(stk) - 1
           /\ \A i \in 1 .. Len(stk) - 1 : rest[i] = stk[i]
  <1>1. \A i \in 1 .. Len(stk) - 1 : stk[i] \in Frame
    BY ElementOfSeq
  <1>2. /\ Len(stk) \in Nat \ {0}
        /\ DOMAIN stk = 1 .. Len(stk)
    BY LenProperties, EmptySeq
  <1>3. /\ rest \in Seq(Frame)
        /\ Len(rest) = Len(stk) - 1
        /\ \A i \in 1 .. Len(stk) - 1 : rest[i] = stk[i]
    BY <1>1, <1>2, SubSeqProperties DEF CallerOf
  <1>4. QED
    BY <1>2, <1>3, LenProperties

LEMMA ContinueFacts ==
    ASSUME NEW stk \in Seq(Frame), stk # <<>>, NEW f \in Frame,
           NEW new, new = Append(CallerOf(stk), f)
    PROVE  /\ new \in Seq(Frame)
           /\ DOMAIN stk = 1 .. Len(stk)
           /\ Len(stk) \in Nat \ {0}
           /\ Len(new) = Len(stk)
           /\ DOMAIN new = 1 .. Len(stk)
           /\ new[Len(stk)] = f
           /\ \A i \in 1 .. Len(stk) - 1 : new[i] = stk[i]
  <1>1. PICK rest : rest = CallerOf(stk)
    OBVIOUS
  <1>2. PICK n \in Nat \ {0} : n = Len(stk)
    BY PopFacts
  <1>3. /\ rest \in Seq(Frame)
        /\ DOMAIN stk = 1 .. n
        /\ Len(rest) = n - 1
        /\ \A i \in 1 .. n - 1 : rest[i] = stk[i]
    BY <1>1, <1>2, PopFacts
  <1>4. new = Append(rest, f)
    BY <1>1
  <1>5. /\ new \in Seq(Frame)
        /\ Len(new) = (n - 1) + 1
        /\ DOMAIN new = 1 .. (n - 1) + 1
        /\ new[(n - 1) + 1] = f
        /\ \A i \in 1 .. n - 1 : new[i] = rest[i]
    BY <1>3, <1>4, PushFacts
  <1>6. (n - 1) + 1 = n
    OBVIOUS
  <1>7. QED
    BY <1>2, <1>3, <1>5, <1>6

(***************************************************************************)
(* The number of holders on the stack.                                     *)
(***************************************************************************)
LEMMA HolderDepthsFinite ==
    ASSUME NEW stk \in Seq(Frame)
    PROVE  /\ IsFiniteSet(HolderDepths(stk))
           /\ Cardinality(HolderDepths(stk)) \in Nat
  <1>1. IsFiniteSet(1 .. Len(stk))
    BY FS_Interval, LenProperties
  <1>2. HolderDepths(stk) \in SUBSET (1 .. Len(stk))
    BY LenProperties DEF HolderDepths
  <1>3. QED
    BY <1>1, <1>2, FS_Subset, FS_CardinalityType

LEMMA HolderPush ==
    ASSUME NEW stk \in Seq(Frame), NEW f \in Frame
    PROVE  Cardinality(HolderDepths(Append(stk, f))) =
               IF f.op \in Holder THEN Cardinality(HolderDepths(stk)) + 1
                                  ELSE Cardinality(HolderDepths(stk))
  <1>1. HolderDepths(Append(stk, f)) =
            IF f.op \in Holder THEN HolderDepths(stk) \cup {Len(stk) + 1}
                               ELSE HolderDepths(stk)
    BY PushFacts DEF HolderDepths
  <1>2. Len(stk) + 1 \notin HolderDepths(stk)
    BY PushFacts DEF HolderDepths
  <1>3. QED
    BY <1>1, <1>2, HolderDepthsFinite, FS_AddElement

LEMMA HolderPop ==
    ASSUME NEW stk \in Seq(Frame), stk # <<>>
    PROVE  Cardinality(HolderDepths(CallerOf(stk))) =
               IF stk[Len(stk)].op \in Holder
               THEN Cardinality(HolderDepths(stk)) - 1
               ELSE Cardinality(HolderDepths(stk))
  <1> DEFINE rest == CallerOf(stk)
  <1>1. HolderDepths(rest) = HolderDepths(stk) \ {Len(stk)}
    <2> HIDE DEF rest
    <2>1. /\ DOMAIN stk = 1 .. Len(stk)
          /\ Len(stk) \in Nat \ {0}
          /\ DOMAIN rest = 1 .. Len(stk) - 1
          /\ \A i \in 1 .. Len(stk) - 1 : rest[i] = stk[i]
      BY PopFacts DEF rest
    <2>2. QED
      BY <2>1 DEF HolderDepths
  <1>2. Len(stk) \in HolderDepths(stk) <=> stk[Len(stk)].op \in Holder
    BY PopFacts DEF HolderDepths
  <1>3. QED
    BY <1>1, <1>2, HolderDepthsFinite, FS_RemoveElement

\* With exec = 0 no frame holds the signal, and with exec = 1 only the top.
LEMMA NoHolder ==
    ASSUME NEW stk \in Seq(Frame), Cardinality(HolderDepths(stk)) = 0
    PROVE  \A i \in DOMAIN stk : stk[i].op \notin Holder
  BY HolderDepthsFinite, FS_EmptySet DEF HolderDepths

LEMMA OnlyTopHolds ==
    ASSUME NEW stk \in Seq(Frame), stk # <<>>, stk[Len(stk)].op \in Holder,
           Cardinality(HolderDepths(stk)) = 1
    PROVE  \A i \in DOMAIN stk : i # Len(stk) => stk[i].op \notin Holder
  <1>1. PICK d : HolderDepths(stk) = {d}
    BY HolderDepthsFinite, FS_Singleton
  <1>2. Len(stk) \in HolderDepths(stk)
    BY PopFacts DEF HolderDepths
  <1>3. QED
    BY <1>1, <1>2 DEF HolderDepths

(***************************************************************************)
(* The list of slots: insertion at its ends, and removal. A step lemma on  *)
(* the positions comes first, and then what it means for the sequence.     *)
(***************************************************************************)
LEMMA FirstInserted ==
    ASSUME NEW len \in Nat, NEW q, DOMAIN q = 1 .. len,
           NEW r, DOMAIN r = 1 .. len + 1,
           \A i \in 1 .. len : r[i + 1] = q[i]
    PROVE  /\ IsInjective(q) /\ r[1] \notin ToSet(q) => IsInjective(r)
           /\ ToSet(r) = ToSet(q) \cup {r[1]}
           /\ \A a, b : Before(q, a, b) => Before(r, a, b)
  <1>1. ASSUME NEW j \in 1 .. len + 1, j # 1
        PROVE  j - 1 \in 1 .. len /\ r[j] = q[j - 1]
    <2>1. j - 1 \in 1 .. len
      BY <1>1
    <2>2. r[(j - 1) + 1] = q[j - 1]
      BY <2>1
    <2>3. QED
      BY <2>1, <2>2
  <1>2. ASSUME IsInjective(q), r[1] \notin ToSet(q),
               NEW i \in 1 .. len + 1, NEW j \in 1 .. len + 1, r[i] = r[j]
        PROVE  i = j
    <2>1. CASE i = 1 /\ j # 1
      BY <1>1, <1>2, <2>1 DEF ToSet
    <2>2. CASE i # 1 /\ j = 1
      BY <1>1, <1>2, <2>2 DEF ToSet
    <2>3. CASE i # 1 /\ j # 1
      <3>1. /\ i - 1 \in DOMAIN q /\ j - 1 \in DOMAIN q
            /\ q[i - 1] = q[j - 1]
        BY <1>1, <1>2, <2>3
      <3>2. \A x, y \in DOMAIN q : q[x] = q[y] => x = y
        BY <1>2 DEF IsInjective
      <3>3. i - 1 = j - 1
        BY <3>1, <3>2, Zenon
      <3>4. QED
        BY <3>3
    <2>4. QED
      BY <2>1, <2>2, <2>3
  <1>3. ToSet(r) = ToSet(q) \cup {r[1]}
    <2>1. ASSUME NEW x \in ToSet(r)
          PROVE  x \in ToSet(q) \cup {r[1]}
      <3>1. PICK j \in 1 .. len + 1 : x = r[j]
        BY DEF ToSet
      <3>2. QED
        BY <3>1, <1>1 DEF ToSet
    <2>2. ASSUME NEW x \in ToSet(q)
          PROVE  x \in ToSet(r)
      <3>1. PICK j \in 1 .. len : x = q[j]
        BY DEF ToSet
      <3>2. j + 1 \in DOMAIN r /\ r[j + 1] = x
        BY <3>1
      <3>3. QED
        BY <3>2 DEF ToSet
    <2>3. r[1] \in ToSet(r)
      BY DEF ToSet
    <2>4. QED
      BY <2>1, <2>2, <2>3
  <1>4. ASSUME NEW a, NEW b, Before(q, a, b)
        PROVE  Before(r, a, b)
    <2>1. PICK i, j \in 1 .. len : i <= j /\ q[i] = a /\ q[j] = b
      BY <1>4 DEF Before
    <2>2. /\ i + 1 \in DOMAIN r /\ j + 1 \in DOMAIN r
          /\ i + 1 <= j + 1 /\ r[i + 1] = a /\ r[j + 1] = b
      BY <2>1
    <2>3. QED
      BY <2>2 DEF Before
  <1>5. QED
    BY <1>2, <1>3, <1>4 DEF IsInjective

LEMMA OneRemoved ==
    ASSUME NEW len \in Nat, NEW q, DOMAIN q = 1 .. len, NEW k \in 1 .. len,
           NEW r, DOMAIN r = 1 .. len - 1, IsInjective(q),
           \A i \in 1 .. len - 1 : /\ i < k => r[i] = q[i]
                                   /\ i >= k => r[i] = q[i + 1]
    PROVE  /\ IsInjective(r)
           /\ ToSet(r) = ToSet(q) \ {q[k]}
           /\ \A a, b : Before(q, a, b) /\ a # q[k] /\ b # q[k] => Before(r, a, b)
  <1> DEFINE From(i) == IF i < k THEN i ELSE i + 1
             To(i) == IF i < k THEN i ELSE i - 1
  <1>1. ASSUME NEW i \in 1 .. len - 1
        PROVE  From(i) \in 1 .. len /\ From(i) # k /\ r[i] = q[From(i)]
    OBVIOUS
  <1>2. ASSUME NEW i \in 1 .. len, i # k
        PROVE  To(i) \in 1 .. len - 1 /\ r[To(i)] = q[i]
    <2>1. CASE i < k
      BY <2>1
    <2>2. CASE i > k
      <3>1. i - 1 \in 1 .. len - 1 /\ i - 1 >= k
        BY <2>2
      <3>2. r[i - 1] = q[(i - 1) + 1]
        BY <3>1
      <3>3. QED
        BY <2>2, <3>1, <3>2
    <2>3. QED
      BY <2>1, <2>2, <1>2
  <1>3. IsInjective(r)
    <2>1. ASSUME NEW i \in 1 .. len - 1, NEW j \in 1 .. len - 1, r[i] = r[j]
          PROVE  i = j
      <3>1. /\ From(i) \in DOMAIN q /\ From(j) \in DOMAIN q
            /\ q[From(i)] = q[From(j)]
        BY <1>1, <2>1
      <3>2. \A x, y \in DOMAIN q : q[x] = q[y] => x = y
        BY DEF IsInjective
      <3>3. From(i) = From(j)
        BY <3>1, <3>2, Zenon
      <3>4. QED
        BY <3>3
    <2>2. QED
      BY <2>1 DEF IsInjective
  <1>4. ToSet(r) = ToSet(q) \ {q[k]}
    <2>1. ASSUME NEW x \in ToSet(r)
          PROVE  x \in ToSet(q) \ {q[k]}
      <3>1. PICK j \in 1 .. len - 1 : x = r[j]
        BY DEF ToSet
      <3>2. QED
        BY <3>1, <1>1 DEF ToSet, IsInjective
    <2>2. ASSUME NEW x \in ToSet(q) \ {q[k]}
          PROVE  x \in ToSet(r)
      <3>1. PICK j \in 1 .. len : x = q[j]
        BY DEF ToSet
      <3>2. j # k
        BY <3>1
      <3>3. QED
        BY <3>1, <3>2, <1>2 DEF ToSet
    <2>3. QED
      BY <2>1, <2>2
  <1>5. ASSUME NEW a, NEW b, Before(q, a, b), a # q[k], b # q[k]
        PROVE  Before(r, a, b)
    <2>1. PICK i, j \in 1 .. len : i <= j /\ q[i] = a /\ q[j] = b
      BY <1>5 DEF Before
    <2>2. i # k /\ j # k
      BY <2>1, <1>5
    <2>3. To(i) <= To(j)
      BY <2>1, <2>2
    <2>4. /\ To(i) \in DOMAIN r /\ To(j) \in DOMAIN r
          /\ r[To(i)] = a /\ r[To(j)] = b
      BY <2>1, <2>2, <1>2
    <2>5. QED
      BY <2>3, <2>4 DEF Before
  <1>6. QED
    BY <1>3, <1>4, <1>5

LEMMA AppendToList ==
    ASSUME NEW S, NEW q \in Seq(S), IsInjective(q), NEW n \in S, n \notin ToSet(q)
    PROVE  LET r == Append(q, n)
           IN  /\ r \in Seq(S)
               /\ IsInjective(r)
               /\ ToSet(r) = ToSet(q) \cup {n}
               /\ \A a, b : Before(q, a, b) => Before(r, a, b)
               /\ \A a \in ToSet(r) : Before(r, a, n)
  <1> DEFINE r == Append(q, n)
  <1>1. PICK len \in Nat : len = Len(q)
    BY LenProperties
  <1>2. r \in Seq(S)
    OBVIOUS
  <1>3. /\ DOMAIN q = 1 .. len
        /\ DOMAIN r = 1 .. len + 1
        /\ r[len + 1] = n
        /\ \A i \in 1 .. len : r[i] = q[i]
    BY <1>1
  <1> HIDE DEF r
  <1>4. IsInjective(r)
    BY <1>3 DEF IsInjective, ToSet
  <1>5. ToSet(r) = ToSet(q) \cup {n}
    BY <1>3 DEF ToSet
  <1>6. \A a, b : Before(q, a, b) => Before(r, a, b)
    BY <1>3 DEF Before
  <1>7. \A a \in ToSet(r) : Before(r, a, n)
    BY <1>3 DEF Before, ToSet
  <1>8. QED
    BY <1>2, <1>4, <1>5, <1>6, <1>7 DEF r

LEMMA PrependToList ==
    ASSUME NEW S, NEW q \in Seq(S), IsInjective(q), NEW n \in S, n \notin ToSet(q)
    PROVE  LET r == <<n>> \o q
           IN  /\ r \in Seq(S)
               /\ IsInjective(r)
               /\ ToSet(r) = ToSet(q) \cup {n}
               /\ \A a, b : Before(q, a, b) => Before(r, a, b)
               /\ \A a \in ToSet(r) : Before(r, n, a)
  <1> DEFINE r == <<n>> \o q
  <1>1. PICK len \in Nat : len = Len(q)
    BY LenProperties
  <1>2. r \in Seq(S)
    OBVIOUS
  <1>3. /\ DOMAIN q = 1 .. len
        /\ DOMAIN r = 1 .. len + 1
        /\ r[1] = n
        /\ \A i \in 1 .. len : r[i + 1] = q[i]
    BY <1>1
  <1> HIDE DEF r
  <1>4. /\ IsInjective(r)
        /\ ToSet(r) = ToSet(q) \cup {n}
        /\ \A a, b : Before(q, a, b) => Before(r, a, b)
    BY <1>3, FirstInserted
  <1>5. \A a \in ToSet(r) : Before(r, n, a)
    BY <1>3 DEF Before, ToSet
  <1>6. QED
    BY <1>2, <1>4, <1>5 DEF r

\* r is the list q of length len without the element at k.
WithoutAt(q, r, k, len) ==
    /\ len \in Nat /\ DOMAIN q = 1 .. len /\ k \in 1 .. len
    /\ DOMAIN r = 1 .. len - 1
    /\ \A i \in 1 .. len - 1 : /\ i < k => r[i] = q[i]
                               /\ i >= k => r[i] = q[i + 1]

LEMMA RemovedAt ==
    ASSUME NEW S, NEW q \in Seq(S), NEW k \in DOMAIN q
    PROVE  RemoveAt(q, k) \in Seq(S) /\ WithoutAt(q, RemoveAt(q, k), k, Len(q))
  <1> DEFINE r == RemoveAt(q, k)
  <1>1. PICK len \in Nat : len = Len(q)
    BY LenProperties
  <1>2. /\ DOMAIN q = 1 .. len
        /\ k \in 1 .. len
        /\ \A i \in 1 .. len : q[i] \in S
    BY <1>1, LenProperties, ElementOfSeq
  <1> DEFINE left == SubSeq(q, 1, k - 1)
             right == SubSeq(q, k + 1, len)
  <1>3. /\ left \in Seq(S)
        /\ Len(left) = k - 1
        /\ \A i \in 1 .. k - 1 : left[i] = q[i]
    BY <1>2, SubSeqProperties
  <1>4. /\ right \in Seq(S)
        /\ Len(right) = len - k
        /\ \A i \in 1 .. len - k : right[i] = q[k + i]
    BY <1>2, SubSeqProperties
  <1>5. r = left \o right
    BY <1>1 DEF RemoveAt
  <1> HIDE DEF left, right, r
  <1>6. /\ r \in Seq(S)
        /\ Len(r) = len - 1
        /\ \A i \in 1 .. len - 1 : r[i] = IF i <= k - 1 THEN left[i]
                                                       ELSE right[i - (k - 1)]
    <2>1. /\ r \in Seq(S)
          /\ Len(r) = Len(left) + Len(right)
          /\ \A i \in 1 .. Len(left) + Len(right) :
                r[i] = IF i <= Len(left) THEN left[i] ELSE right[i - Len(left)]
      BY <1>3, <1>4, <1>5, ConcatProperties, Zenon
    <2>2. Len(left) = k - 1 /\ Len(left) + Len(right) = len - 1
      BY <1>2, <1>3, <1>4
    <2>3. QED
      BY <2>1, <2>2, Zenon
  <1>7. DOMAIN r = 1 .. len - 1
    BY <1>6, LenProperties
  <1>8. ASSUME NEW i \in 1 .. len - 1
        PROVE  /\ i < k => r[i] = q[i]
               /\ i >= k => r[i] = q[i + 1]
    <2>1. CASE i < k
      BY <1>2, <1>3, <1>6, <2>1
    <2>2. CASE i >= k
      <3>1. i - (k - 1) \in 1 .. len - k
        BY <1>2, <2>2
      <3>2. right[i - (k - 1)] = q[k + (i - (k - 1))]
        BY <1>4, <3>1
      <3>3. QED
        BY <1>2, <1>6, <2>2, <3>2
    <2>3. QED
      BY <1>2, <2>1, <2>2
  <1>9. WithoutAt(q, r, k, len)
    BY <1>2, <1>7, <1>8 DEF WithoutAt
  <1>10. QED
    BY <1>1, <1>6, <1>9 DEF r

LEMMA RemoveFromList ==
    ASSUME NEW S, NEW q \in Seq(S), IsInjective(q), NEW k \in DOMAIN q
    PROVE  LET r == RemoveAt(q, k)
           IN  /\ r \in Seq(S)
               /\ IsInjective(r)
               /\ ToSet(r) = ToSet(q) \ {q[k]}
               /\ \A a, b : Before(q, a, b) /\ a # q[k] /\ b # q[k]
                                => Before(r, a, b)
  <1>1. PICK r : r = RemoveAt(q, k)
    OBVIOUS
  <1>2. PICK len : r \in Seq(S) /\ WithoutAt(q, r, k, len)
    BY <1>1, RemovedAt
  <1>3. /\ IsInjective(r)
        /\ ToSet(r) = ToSet(q) \ {q[k]}
        /\ \A a, b : Before(q, a, b) /\ a # q[k] /\ b # q[k] => Before(r, a, b)
    BY <1>2, OneRemoved DEF WithoutAt
  <1>4. QED
    BY <1>1, <1>2, <1>3

LEMMA TailOfList ==
    ASSUME NEW S, NEW q \in Seq(S), IsInjective(q), q # <<>>
    PROVE  /\ Tail(q) \in Seq(S)
           /\ IsInjective(Tail(q))
           /\ ToSet(Tail(q)) = ToSet(q) \ {Head(q)}
           /\ Head(q) \in ToSet(q)
  <1>1. PICK len \in Nat \ {0} : len = Len(q)
    BY LenProperties, EmptySeq
  <1> DEFINE r == Tail(q)
  <1>2. /\ r \in Seq(S)
        /\ Len(r) = len - 1
        /\ \A i \in 1 .. Len(r) : r[i] = q[i + 1]
    BY <1>1, HeadTailProperties
  <1> HIDE DEF r
  <1>3. /\ DOMAIN q = 1 .. len
        /\ DOMAIN r = 1 .. len - 1
        /\ \A i \in 1 .. len - 1 : r[i] = q[i + 1]
    BY <1>1, <1>2, LenProperties
  <1>4. Head(q) = q[1]
    BY <1>1
  <1>5. IsInjective(r) /\ ToSet(r) = ToSet(q) \ {q[1]}
    <2>1. 1 \in 1 .. len /\ \A i \in 1 .. len - 1 : i >= 1 /\ ~(i < 1)
      OBVIOUS
    <2>2. QED
      BY <1>3, <2>1, OneRemoved
  <1>6. q[1] \in ToSet(q)
    BY <1>3 DEF ToSet
  <1>7. QED
    BY <1>2, <1>4, <1>5, <1>6 DEF r

-----------------------------------------------------------------------------
(***************************************************************************)
(* How a push, a return and a change of the list affect each invariant.    *)
(***************************************************************************)
LEMMA NodesDisjoint == /\ Slot \cap Mark = {}
                       /\ End \notin Node
                       /\ Mark \subseteq Nat \ {0}
  BY SlotAssumption, BoundAssumption DEF Mark, Node, End

LEMMA EmitInvPush ==
    ASSUME NEW q, NEW stk \in Seq(Frame), NEW f \in Frame, f.op # "emit",
           EmitInv(q, stk)
    PROVE  EmitInv(q, Append(stk, f))
  BY PushFacts, NodesDisjoint DEF EmitInv

LEMMA EmitInvPop ==
    ASSUME NEW q, NEW stk \in Seq(Frame), stk # <<>>, stk[Len(stk)].op # "emit",
           EmitInv(q, stk)
    PROVE  EmitInv(q, CallerOf(stk))
  <1> DEFINE new == CallerOf(stk)
             n == Len(stk)
  <1>1. /\ DOMAIN stk = 1 .. n
        /\ n \in Nat \ {0}
        /\ DOMAIN new = 1 .. n - 1
        /\ \A i \in 1 .. n - 1 : new[i] = stk[i]
    BY PopFacts
  <1>2. stk[n].op # "emit"
    OBVIOUS
  <1> HIDE DEF new, n
  <1>3. \A i \in 1 .. n : stk[i].op = "emit" => i \in 1 .. n - 1
    BY <1>1, <1>2
  <1>4. QED
    BY <1>1, <1>3 DEF EmitInv, new

\* The list changes, and no emission is in progress.
LEMMA EmitInvNone ==
    ASSUME NEW q, NEW r, NEW stk, EmitInv(q, stk),
           \A i \in DOMAIN stk : stk[i].op # "emit",
           IsInjective(r), ToSet(r) \subseteq ToSet(q)
    PROVE  EmitInv(r, stk)
  BY DEF EmitInv

LEMMA EmitInvInsert ==
    ASSUME NEW q, NEW r, NEW stk, NEW s \in Slot, EmitInv(q, stk),
           IsInjective(r), ToSet(r) = ToSet(q) \cup {s},
           \A a, b : Before(q, a, b) => Before(r, a, b)
    PROVE  EmitInv(r, stk)
  BY NodesDisjoint DEF EmitInv

LEMMA EmitInvBegin ==
    ASSUME NEW q \in Seq(Node), NEW stk \in Seq(Frame), NEW f \in Frame,
           EmitInv(q, stk), f.op = "emit", f.running = FALSE,
           f.at \in ToSet(q), Len(stk) < MaxStack
    PROVE  EmitInv(Append(q, Len(stk) + 1), Append(stk, f))
  <1> DEFINE m == Len(stk) + 1
             r == Append(q, m)
             new == Append(stk, f)
  <1>1. m \in Mark /\ m \notin DOMAIN stk /\ m \notin ToSet(q)
    BY PushFacts, BoundAssumption DEF Mark, EmitInv
  <1>2. /\ IsInjective(r)
        /\ ToSet(r) = ToSet(q) \cup {m}
        /\ \A a, b : Before(q, a, b) => Before(r, a, b)
        /\ \A a \in ToSet(r) : Before(r, a, m)
    BY <1>1, AppendToList DEF Node, EmitInv
  <1>3. /\ DOMAIN stk = 1 .. Len(stk)
        /\ Len(stk) \in Nat
        /\ DOMAIN new = 1 .. m
        /\ new[m] = f
        /\ \A i \in 1 .. Len(stk) : new[i] = stk[i]
    BY PushFacts
  <1> HIDE DEF r, new
  <1>4. \A i \in DOMAIN new : new[i].op = "emit" =>
          /\ i \in Mark
          /\ Before(r, new[i].at, i)
          /\ new[i].running => new[i].at \in Slot
    BY <1>1, <1>2, <1>3 DEF EmitInv
  <1>5. ASSUME NEW i \in DOMAIN new, NEW j \in DOMAIN new,
               new[i].op = "emit", new[j].op = "emit", i < j
        PROVE  Before(r, i, j)
    <2>1. CASE j = m
      <3>1. Before(q, stk[i].at, i) /\ i \in 1 .. Len(stk)
        BY <1>3, <1>5, <2>1 DEF EmitInv
      <3>2. i \in ToSet(q)
        BY <3>1 DEF Before, ToSet
      <3>3. QED
        BY <1>2, <2>1, <3>2
    <2>2. CASE j # m
      BY <1>2, <1>3, <1>5, <2>2 DEF EmitInv
    <2>3. QED
      BY <2>1, <2>2
  <1>6. \A k \in Mark \cap ToSet(r) : k \in DOMAIN new /\ new[k].op = "emit"
    BY <1>2, <1>3 DEF EmitInv
  <1>7. QED
    BY <1>2, <1>4, <1>5, <1>6 DEF EmitInv, r, new

\* The iterator of the innermost emission moves.
LEMMA EmitInvAdvance ==
    ASSUME NEW q, NEW stk \in Seq(Frame), stk # <<>>, NEW f \in Frame,
           EmitInv(q, stk), stk[Len(stk)].op = "emit", f.op = "emit",
           Before(q, f.at, Len(stk)), f.running => f.at \in Slot
    PROVE  EmitInv(q, Append(CallerOf(stk), f))
  <1>1. SUFFICES ASSUME NEW new, new = Append(CallerOf(stk), f)
                 PROVE  EmitInv(q, new)
    OBVIOUS
  <1>2. PICK n : n = Len(stk)
    OBVIOUS
  <1>3. /\ DOMAIN stk = 1 .. n
        /\ n \in Nat \ {0}
        /\ DOMAIN new = 1 .. n
        /\ new[n] = f
        /\ \A i \in 1 .. n - 1 : new[i] = stk[i]
    BY <1>1, <1>2, ContinueFacts
  <1>4. stk[n].op = "emit" /\ Before(q, f.at, n)
    BY <1>2
  <1>5. \A i \in 1 .. n : i = n \/ new[i] = stk[i]
    BY <1>3
  <1>6. \A i \in 1 .. n : new[i].op = "emit" <=> stk[i].op = "emit"
    BY <1>3, <1>4, <1>5
  <1>7. \A i \in DOMAIN new : new[i].op = "emit" =>
          /\ i \in Mark
          /\ Before(q, new[i].at, i)
          /\ new[i].running => new[i].at \in Slot
    BY <1>3, <1>4, <1>5 DEF EmitInv
  <1>8. QED
    BY <1>3, <1>6, <1>7 DEF EmitInv

\* The innermost emission ends, and its placeholder leaves the list.
LEMMA EmitInvEnd ==
    ASSUME NEW q \in Seq(Node), NEW r, NEW stk \in Seq(Frame), stk # <<>>,
           EmitInv(q, stk), stk[Len(stk)].op = "emit",
           IsInjective(r), ToSet(r) = ToSet(q) \ {Len(stk)},
           \A a, b : Before(q, a, b) /\ a # Len(stk) /\ b # Len(stk)
                        => Before(r, a, b)
    PROVE  EmitInv(r, CallerOf(stk))
  <1> DEFINE new == CallerOf(stk)
             n == Len(stk)
  <1>1. /\ DOMAIN stk = 1 .. n
        /\ n \in Nat \ {0}
        /\ DOMAIN new = 1 .. n - 1
        /\ \A i \in 1 .. n - 1 : new[i] = stk[i]
    BY PopFacts
  <1> HIDE DEF new, n
  <1>2. ASSUME NEW i \in 1 .. n - 1, stk[i].op = "emit"
        PROVE  stk[i].at # n
    <2>1. Before(q, stk[i].at, i) /\ Before(q, i, n)
      BY <1>1, <1>2 DEF EmitInv, n
    <2>2. PICK a, b, c, d \in DOMAIN q :
              /\ a <= b /\ q[a] = stk[i].at /\ q[b] = i
              /\ c <= d /\ q[c] = i /\ q[d] = n
      BY <2>1 DEF Before
    <2>3. \A x, y \in DOMAIN q : q[x] = q[y] => x = y
      BY DEF EmitInv, IsInjective
    <2>4. SUFFICES ASSUME q[a] = n PROVE FALSE
      BY <2>2
    <2>5. b = c /\ a = d
      BY <2>2, <2>3, <2>4, Zenon
    <2>6. DOMAIN q \subseteq Int
      BY LenProperties
    <2>7. b = d
      BY <2>2, <2>5, <2>6
    <2>8. QED
      BY <2>2, <2>7, <1>1, <1>2
  <1>3. ASSUME NEW i \in DOMAIN new, new[i].op = "emit"
        PROVE  /\ i \in DOMAIN stk /\ i < n /\ new[i] = stk[i]
               /\ i \in Mark
               /\ Before(r, new[i].at, i)
               /\ new[i].running => new[i].at \in Slot
    <2>1. i \in 1 .. n - 1 /\ i \in DOMAIN stk /\ i < n /\ new[i] = stk[i]
      BY <1>1
    <2>2. /\ i \in Mark
          /\ Before(q, stk[i].at, i)
          /\ stk[i].running => stk[i].at \in Slot
      BY <1>3, <2>1 DEF EmitInv
    <2>3. stk[i].at # n /\ i # n
      BY <1>1, <1>2, <1>3, <2>1
    <2>4. QED
      BY <2>1, <2>2, <2>3 DEF n
  <1>4. ASSUME NEW i \in DOMAIN new, NEW j \in DOMAIN new,
               new[i].op = "emit", new[j].op = "emit", i < j
        PROVE  Before(r, i, j)
    <2>1. Before(q, i, j)
      BY <1>3, <1>4 DEF EmitInv
    <2>2. i # n /\ j # n
      BY <1>1
    <2>3. QED
      BY <2>1, <2>2 DEF n
  <1>5. ASSUME NEW m \in Mark \cap ToSet(r)
        PROVE  m \in DOMAIN new /\ new[m].op = "emit"
    <2>1. m \in ToSet(q) /\ m # n
      BY DEF n
    <2>2. m \in DOMAIN stk /\ stk[m].op = "emit"
      BY <2>1 DEF EmitInv
    <2>3. m \in 1 .. n - 1
      BY <1>1, <2>1, <2>2
    <2>4. QED
      BY <1>1, <2>2, <2>3
  <1>6. EmitInv(r, new)
    BY <1>3, <1>4, <1>5 DEF EmitInv
  <1>7. QED
    BY <1>6 DEF new

LEMMA SweepInvPush ==
    ASSUME NEW q, NEW stk \in Seq(Frame), NEW f \in Frame, SweepInv(q, stk),
           f.op = "sweep" => f.at \in (ToSet(q) \cap Slot) \cup {End},
           f.op \in {"sweep", "clear", "dtor"} =>
               \A j \in DOMAIN stk : stk[j].op \notin {"emit", "sweep"}
    PROVE  SweepInv(q, Append(stk, f))
  <1>1. SUFFICES ASSUME NEW new, new = Append(stk, f)
                 PROVE  SweepInv(q, new)
    OBVIOUS
  <1>2. PICK n \in Nat : n = Len(stk)
    BY PushFacts
  <1>3. /\ DOMAIN stk = 1 .. n
        /\ DOMAIN new = 1 .. n + 1
        /\ new[n + 1] = f
        /\ \A i \in 1 .. n : new[i] = stk[i]
    BY <1>1, <1>2, PushFacts
  <1>4. ASSUME NEW i \in DOMAIN new, i # n + 1
        PROVE  i \in DOMAIN stk /\ new[i] = stk[i]
    <2>1. i \in 1 .. n
      BY <1>3, <1>4
    <2>2. QED
      BY <1>3, <2>1
  <1>5. \A i \in DOMAIN new : new[i].op = "sweep" =>
            new[i].at \in (ToSet(q) \cap Slot) \cup {End}
    BY <1>3, <1>4 DEF SweepInv
  <1>6. ASSUME NEW i \in DOMAIN new, NEW j \in DOMAIN new,
               new[i].op \in {"sweep", "clear", "dtor"}, j < i
        PROVE  new[j].op \notin {"emit", "sweep"}
    <2>1. j \in DOMAIN stk /\ new[j] = stk[j]
      BY <1>3, <1>6
    <2>2. QED
      BY <1>3, <1>4, <1>6, <2>1 DEF SweepInv
  <1>7. QED
    BY <1>5, <1>6 DEF SweepInv

LEMMA SweepInvPop ==
    ASSUME NEW q, NEW stk \in Seq(Frame), stk # <<>>, SweepInv(q, stk)
    PROVE  SweepInv(q, CallerOf(stk))
  <1>1. SUFFICES ASSUME NEW new, new = CallerOf(stk)
                 PROVE  SweepInv(q, new)
    OBVIOUS
  <1>2. PICK n \in Nat \ {0} : n = Len(stk)
    BY PopFacts
  <1>3. /\ DOMAIN stk = 1 .. n
        /\ DOMAIN new = 1 .. n - 1
        /\ \A i \in 1 .. n - 1 : new[i] = stk[i]
    BY <1>1, <1>2, PopFacts
  <1>4. \A i \in DOMAIN new : i \in DOMAIN stk /\ new[i] = stk[i]
    BY <1>3
  <1>5. QED
    BY <1>4 DEF SweepInv

LEMMA DyingInvPush ==
    ASSUME NEW q, NEW par, NEW rp, NEW stk \in Seq(Frame), NEW f \in Frame,
           DyingInv(q, stk, par, rp),
           f.op \in Dying => f.at \in Slot \ par /\ rp[f.at] # "none",
           f.op = "delete" => f.at \notin ToSet(q),
           f.op \in {"clear", "dtor"} => ToSet(q) \cap par = {}
    PROVE  DyingInv(q, Append(stk, f), par, rp)
  <1>1. SUFFICES ASSUME NEW new, new = Append(stk, f)
                 PROVE  DyingInv(q, new, par, rp)
    OBVIOUS
  <1>2. \A i \in DOMAIN new : \/ new[i] = f
                              \/ i \in DOMAIN stk /\ new[i] = stk[i]
    BY <1>1, PushFacts
  <1>3. QED
    BY <1>2 DEF DyingInv

LEMMA DyingInvPop ==
    ASSUME NEW q, NEW par, NEW rp, NEW stk \in Seq(Frame), stk # <<>>,
           DyingInv(q, stk, par, rp)
    PROVE  DyingInv(q, CallerOf(stk), par, rp)
  <1>1. SUFFICES ASSUME NEW new, new = CallerOf(stk)
                 PROVE  DyingInv(q, new, par, rp)
    OBVIOUS
  <1>2. PICK n \in Nat \ {0} : n = Len(stk)
    BY PopFacts
  <1>3. /\ DOMAIN stk = 1 .. n
        /\ DOMAIN new = 1 .. n - 1
        /\ \A i \in 1 .. n - 1 : new[i] = stk[i]
    BY <1>1, <1>2, PopFacts
  <1>4. \A i \in DOMAIN new : i \in DOMAIN stk /\ new[i] = stk[i]
    BY <1>3
  <1>5. QED
    BY <1>4 DEF DyingInv

\* The list and the parents shrink, and no rep becomes unconnected.
LEMMA DyingInvMono ==
    ASSUME NEW q, NEW par, NEW rp, NEW stk, DyingInv(q, stk, par, rp),
           NEW r, NEW par2, NEW rp2,
           ToSet(r) \subseteq ToSet(q), par2 \subseteq par,
           \A s \in Slot : rp[s] # "none" => rp2[s] # "none"
    PROVE  DyingInv(r, stk, par2, rp2)
  BY DEF DyingInv

-----------------------------------------------------------------------------
(***************************************************************************)
(* The helpers of module Signal, in a state that satisfies the invariant.  *)
(***************************************************************************)
LEMMA CallIsFrame ==
    ASSUME NEW op \in Holder \cup FunctorDtor \cup {"notify"},
           NEW n \in Node \cup {End}
    PROVE  /\ Call(op, n) \in Frame
           /\ Call(op, n).op = op
           /\ Call(op, n).at = n
           /\ Call(op, n).running = FALSE
  BY DEF Call, Frame

LEMMA TopFacts ==
    ASSUME TypeOK, stack # <<>>
    PROVE  /\ Top \in Frame
           /\ Top = stack[Len(stack)]
           /\ Len(stack) \in DOMAIN stack
           /\ Len(stack) \in Nat \ {0}
           /\ DOMAIN stack = 1 .. Len(stack)
           /\ Caller = CallerOf(stack)
           /\ Caller \in Seq(Frame)
           /\ \A i \in DOMAIN Caller :
                 i \in DOMAIN stack /\ i < Len(stack) /\ Caller[i] = stack[i]
  <1>1. stack \in Seq(Frame)
    BY DEF TypeOK
  <1>2. Caller = CallerOf(stack)
    BY DEF Caller, CallerOf
  <1>3. /\ DOMAIN stack = 1 .. Len(stack)
        /\ Len(stack) \in Nat \ {0}
    BY <1>1, PopFacts
  <1>4. Len(stack) \in DOMAIN stack
    BY <1>3
  <1>5. Top \in Frame
    BY <1>1, <1>3, ElementOfSeq DEF Top
  <1>6. /\ Caller \in Seq(Frame)
        /\ DOMAIN Caller = 1 .. Len(stack) - 1
        /\ \A i \in 1 .. Len(stack) - 1 : Caller[i] = stack[i]
    BY <1>1, <1>2, PopFacts
  <1>7. \A i \in DOMAIN Caller :
            i \in DOMAIN stack /\ i < Len(stack) /\ Caller[i] = stack[i]
    BY <1>3, <1>6
  <1>8. QED
    BY <1>2, <1>3, <1>4, <1>5, <1>6, <1>7 DEF Top

LEMMA PositionFacts ==
    ASSUME slots \in Seq(Node), NEW n \in Listed
    PROVE  PositionOf(n) \in DOMAIN slots /\ slots[PositionOf(n)] = n
  BY DEF Listed, ToSet, PositionOf

LEMMA WithoutFacts ==
    ASSUME slots \in Seq(Node), IsInjective(slots), NEW n \in Listed
    PROVE  /\ Without(n) \in Seq(Node)
           /\ IsInjective(Without(n))
           /\ ToSet(Without(n)) = Listed \ {n}
           /\ \A a, b : Before(slots, a, b) /\ a # n /\ b # n
                            => Before(Without(n), a, b)
  BY PositionFacts, RemoveFromList DEF Without, Listed

LEMMA FirstFacts ==
    ASSUME NEW q \in Seq(Node)
    PROVE  First(q) \in ToSet(q) \cup {End}
  <1>1. CASE q = <<>>
    BY <1>1 DEF First
  <1>2. CASE q # <<>>
    <2>1. Len(q) \in Nat \ {0} /\ DOMAIN q = 1 .. Len(q)
      BY <1>2, LenProperties, EmptySeq
    <2>2. 1 \in DOMAIN q
      BY <2>1
    <2>3. QED
      BY <1>2, <2>2 DEF First, ToSet
  <1>3. QED
    BY <1>1, <1>2

LEMMA SuccessorFacts ==
    ASSUME slots \in Seq(Node), IsInjective(slots), NEW n \in Listed
    PROVE  /\ Successor(n) \in (Listed \ {n}) \cup {End}
           /\ \A m : Before(slots, n, m) /\ n # m
                        => Before(slots, Successor(n), m)
  <1>1. PICK len \in Nat : len = Len(slots) /\ DOMAIN slots = 1 .. len
    BY LenProperties
  <1>2. PICK k : k = PositionOf(n)
    OBVIOUS
  <1>3. k \in 1 .. len /\ slots[k] = n
    BY <1>1, <1>2, PositionFacts
  <1>4. \A x, y \in 1 .. len : slots[x] = slots[y] => x = y
    BY <1>1 DEF IsInjective
  <1>5. Successor(n) = IF k = len THEN End ELSE slots[k + 1]
    BY <1>1, <1>2 DEF Successor
  <1>6. CASE k = len
    <2>1. ASSUME NEW m, Before(slots, n, m), n # m
          PROVE  FALSE
      <3>1. PICK i, j \in 1 .. len : i <= j /\ slots[i] = n /\ slots[j] = m
        BY <2>1, <1>1 DEF Before
      <3>2. i = k
        BY <3>1, <1>3, <1>4
      <3>3. QED
        BY <1>6, <2>1, <3>1, <3>2
    <2>2. QED
      BY <1>5, <1>6, <2>1
  <1>7. CASE k # len
    <2>1. k + 1 \in 1 .. len
      BY <1>3, <1>7
    <2>2. slots[k + 1] # n
      BY <1>3, <1>4, <2>1
    <2>3. slots[k + 1] \in Listed
      BY <1>1, <2>1 DEF Listed, ToSet
    <2>4. ASSUME NEW m, Before(slots, n, m), n # m
          PROVE  Before(slots, slots[k + 1], m)
      <3>1. PICK i, j \in 1 .. len : i <= j /\ slots[i] = n /\ slots[j] = m
        BY <2>4, <1>1 DEF Before
      <3>2. i = k
        BY <3>1, <1>3, <1>4
      <3>3. k + 1 <= j
        BY <2>4, <3>1, <3>2
      <3>4. QED
        BY <1>1, <2>1, <3>1, <3>3 DEF Before
    <2>5. QED
      BY <1>5, <1>7, <2>2, <2>3, <2>4
  <1>8. QED
    BY <1>6, <1>7

(***************************************************************************)
(* The effect of a step on the stack and on exec.                          *)
(***************************************************************************)
LEMMA ExecIsNat ==
    ASSUME NEW stk \in Seq(Frame), NEW ex, ExecInv(ex, stk)
    PROVE  ex \in Nat
  BY HolderDepthsFinite DEF ExecInv

LEMMA ExecPush ==
    ASSUME NEW stk \in Seq(Frame), NEW f \in Frame, NEW ex, ExecInv(ex, stk)
    PROVE  /\ f.op \in Holder => ExecInv(ex + 1, Append(stk, f))
           /\ f.op \notin Holder => ExecInv(ex, Append(stk, f))
  BY HolderPush DEF ExecInv

LEMMA ExecPop ==
    ASSUME NEW stk \in Seq(Frame), stk # <<>>, NEW ex, ExecInv(ex, stk)
    PROVE  /\ stk[Len(stk)].op \in Holder => ExecInv(ex - 1, CallerOf(stk))
           /\ stk[Len(stk)].op \notin Holder => ExecInv(ex, CallerOf(stk))
  BY HolderPop DEF ExecInv

LEMMA DtorInvPush ==
    ASSUME NEW stk \in Seq(Frame), NEW f \in Frame, NEW im, DtorInv(stk, im),
           f.op = "dtor" => im # "live"
    PROVE  DtorInv(Append(stk, f), im)
  <1>1. SUFFICES ASSUME NEW new, new = Append(stk, f)
                 PROVE  DtorInv(new, im)
    OBVIOUS
  <1>2. \A i \in DOMAIN new : \/ new[i] = f
                              \/ i \in DOMAIN stk /\ new[i] = stk[i]
    BY <1>1, PushFacts
  <1>3. QED
    BY <1>2 DEF DtorInv

LEMMA DtorInvPop ==
    ASSUME NEW stk \in Seq(Frame), stk # <<>>, NEW im, DtorInv(stk, im)
    PROVE  DtorInv(CallerOf(stk), im)
  <1>1. SUFFICES ASSUME NEW new, new = CallerOf(stk)
                 PROVE  DtorInv(new, im)
    OBVIOUS
  <1>2. PICK n \in Nat \ {0} : n = Len(stk)
    BY PopFacts
  <1>3. /\ DOMAIN stk = 1 .. n
        /\ DOMAIN new = 1 .. n - 1
        /\ \A i \in 1 .. n - 1 : new[i] = stk[i]
    BY <1>1, <1>2, PopFacts
  <1>4. \A i \in DOMAIN new : i \in DOMAIN stk /\ new[i] = stk[i]
    BY <1>3
  <1>5. QED
    BY <1>4 DEF DtorInv

\* A function that is about to destroy slot s is called.
LEMMA PushDying ==
    ASSUME NEW q, NEW par, NEW rp, NEW im, NEW stk \in Seq(Frame),
           FramesInv(q, stk, par, rp, im),
           NEW op \in Dying, NEW s \in Slot \ par, rp[s] # "none",
           op = "delete" => s \notin ToSet(q)
    PROVE  /\ Append(stk, Call(op, s)) \in Seq(Frame)
           /\ FramesInv(q, Append(stk, Call(op, s)), par, rp, im)
  <1>1. PICK f : f = Call(op, s)
    OBVIOUS
  <1>2. f \in Frame /\ f.op = op /\ f.at = s
    BY <1>1, CallIsFrame DEF Dying, FunctorDtor, Holder, Node
  <1>3. op \notin {"emit", "sweep", "clear", "dtor"}
    BY DEF Dying, FunctorDtor
  <1>4. Append(stk, f) \in Seq(Frame)
    BY <1>2, PushFacts
  <1>5. EmitInv(q, Append(stk, f))
    BY <1>2, <1>3, EmitInvPush DEF FramesInv
  <1>6. SweepInv(q, Append(stk, f))
    BY <1>2, <1>3, SweepInvPush DEF FramesInv
  <1>7. DyingInv(q, Append(stk, f), par, rp)
    BY <1>2, <1>3, DyingInvPush DEF FramesInv
  <1>8. DtorInv(Append(stk, f), im)
    BY <1>2, <1>3, DtorInvPush DEF FramesInv
  <1>9. QED
    BY <1>1, <1>4, <1>5, <1>6, <1>7, <1>8 DEF FramesInv

\* A function that is no emission returns.
LEMMA PopFrame ==
    ASSUME NEW q, NEW par, NEW rp, NEW im, NEW stk \in Seq(Frame), stk # <<>>,
           FramesInv(q, stk, par, rp, im), stk[Len(stk)].op # "emit"
    PROVE  /\ CallerOf(stk) \in Seq(Frame)
           /\ FramesInv(q, CallerOf(stk), par, rp, im)
  <1>1. CallerOf(stk) \in Seq(Frame)
    BY PopFacts
  <1>2. EmitInv(q, CallerOf(stk))
    BY EmitInvPop DEF FramesInv
  <1>3. SweepInv(q, CallerOf(stk))
    BY SweepInvPop DEF FramesInv
  <1>4. DyingInv(q, CallerOf(stk), par, rp)
    BY DyingInvPop DEF FramesInv
  <1>5. DtorInv(CallerOf(stk), im)
    BY DtorInvPop DEF FramesInv
  <1>6. QED
    BY <1>1, <1>2, <1>3, <1>4, <1>5 DEF FramesInv

\* A slot loses its parent, or its life, and stays in the list.
LEMMA FramesMono ==
    ASSUME NEW q, NEW par, NEW rp, NEW im, NEW stk, FramesInv(q, stk, par, rp, im),
           NEW par2, NEW rp2, par2 \subseteq par,
           \A s \in Slot : rp[s] # "none" => rp2[s] # "none"
    PROVE  FramesInv(q, stk, par2, rp2, im)
  BY DyingInvMono DEF FramesInv

\* A slot leaves the list, which no emission and no sweep is walking.
LEMMA FramesShrink ==
    ASSUME NEW q, NEW par, NEW rp, NEW im, NEW stk, FramesInv(q, stk, par, rp, im),
           NEW r, NEW par2, IsInjective(r), ToSet(r) \subseteq ToSet(q),
           par2 \subseteq par,
           \A i \in DOMAIN stk : stk[i].op \notin {"emit", "sweep"}
    PROVE  FramesInv(r, stk, par2, rp, im)
  <1>1. EmitInv(r, stk)
    BY EmitInvNone DEF FramesInv
  <1>2. SweepInv(r, stk)
    BY DEF FramesInv, SweepInv
  <1>3. DyingInv(r, stk, par2, rp)
    BY DyingInvMono DEF FramesInv
  <1>4. QED
    BY <1>1, <1>2, <1>3 DEF FramesInv

LEMMA DeleteStep ==
    ASSUME IInv, NEW s \in Slot, rep[s] = "live", NEW stk \in Seq(Frame),
           slots' \in Seq(Node), ToSet(slots') = Listed \ {s},
           parent' \subseteq parent, functor[s] = "held" => s \notin parent',
           deferred' \in BOOLEAN, ExecInv(exec', stk),
           FramesInv(slots', stk, parent', rep, impl),
           UNCHANGED <<handles, impl>>, DeleteRep(s, stk)
    PROVE  IInv'
  <1>1. CASE functor[s] = "held"
    <2>1. /\ functor' = [functor EXCEPT ![s] = "dying"]
          /\ stack' = Append(stk, Call("delete", s))
          /\ call' = call \ {s}
          /\ UNCHANGED <<rep, blocked, invalidated>>
      BY <1>1 DEF DeleteRep
    <2>2. /\ stack' \in Seq(Frame)
          /\ FramesInv(slots', stack', parent', rep', impl')
      <3>1. "delete" \in Dying
        BY DEF Dying, FunctorDtor
      <3>2. s \in Slot \ parent' /\ rep[s] # "none" /\ s \notin ToSet(slots')
        BY <1>1
      <3>3. /\ Append(stk, Call("delete", s)) \in Seq(Frame)
            /\ FramesInv(slots', Append(stk, Call("delete", s)), parent', rep,
                         impl)
        BY <3>1, <3>2, PushDying
      <3>4. rep' = rep /\ impl' = impl
        BY <2>1
      <3>5. QED
        BY <2>1, <3>3, <3>4, Zenon
    <2>3. ExecInv(exec', stack')
      <3>1. /\ Call("delete", s) \in Frame
            /\ Call("delete", s).op \notin Holder
        BY DEF Call, Frame, Holder, FunctorDtor, Node
      <3>2. QED
        BY <2>1, <3>1, ExecPush
    <2>4. TypeOK'
      BY <2>1, <2>2, <2>3, ExecIsNat DEF IInv, TypeOK
    <2>5. SlotInv(slots', parent', call', rep', functor', impl')
      BY <1>1, <2>1 DEF IInv, TypeOK, SlotInv, Listed
    <2>6. HandleInv'
      BY <1>1, <2>1 DEF IInv, TypeOK, HandleInv, HasHandle
    <2>7. QED
      BY <2>2, <2>3, <2>4, <2>5, <2>6 DEF IInv
  <1>2. CASE functor[s] # "held"
    <2>1. /\ rep' = [rep EXCEPT ![s] = "freed"]
          /\ blocked' = blocked \ {s}
          /\ invalidated' = invalidated \ {s}
          /\ stack' = stk
          /\ call' = call \ {s}
          /\ functor' = functor
      BY <1>2 DEF DeleteRep, Free
    <2>2. FramesInv(slots', stack', parent', rep', impl')
      <3>1. \A q \in Slot : rep[q] # "none" => rep'[q] # "none"
        BY <2>1 DEF IInv, TypeOK
      <3>2. FramesInv(slots', stk, parent', rep', impl)
        BY <3>1, FramesMono
      <3>3. QED
        BY <2>1, <3>2
    <2>3. ExecInv(exec', stack')
      BY <2>1
    <2>4. TypeOK'
      BY <2>1, <2>2, <2>3, ExecIsNat DEF IInv, TypeOK
    <2>5. SlotInv(slots', parent', call', rep', functor', impl')
      BY <2>1 DEF IInv, TypeOK, SlotInv, Listed
    <2>6. HandleInv'
      BY <2>1 DEF IInv, HandleInv, HasHandle
    <2>7. QED
      BY <2>2, <2>3, <2>4, <2>5, <2>6 DEF IInv
  <1>3. QED
    BY <1>1, <1>2

\* Without emissions, the list has no placeholders.
LEMMA OnlySlots ==
    ASSUME NEW q \in Seq(Node), NEW stk, EmitInv(q, stk),
           \A i \in DOMAIN stk : stk[i].op # "emit"
    PROVE  ToSet(q) \subseteq Slot
  <1>1. ToSet(q) \subseteq Node
    BY ElementOfSeq, LenProperties DEF ToSet
  <1>2. Mark \cap ToSet(q) = {}
    BY DEF EmitInv
  <1>3. QED
    BY <1>1, <1>2 DEF Node

\* slot_rep::disconnect, as a call of the user or of a dying trackable.
LEMMA DisconnectStep ==
    ASSUME IInv, NEW s \in Slot, rep[s] = "live", NEW stk \in Seq(Frame),
           ExecInv(exec, stk), FramesInv(slots, stk, parent \ {s}, rep, impl),
           UNCHANGED <<handles, impl>>, DisconnectRep(s, stk)
    PROVE  IInv'
  <1>1. parent' = parent \ {s}
    BY DEF DisconnectRep
  <1>2. CASE s \in parent /\ impl = "live" /\ exec = 0
    <2> DEFINE er == Append(stk, Call("erase", s))
    <2>1. /\ exec' = exec + 1
          /\ slots' = Without(s)
          /\ DeleteRep(s, er)
          /\ deferred' = deferred
      BY <1>2 DEF DisconnectRep
    <2>2. s \in Listed
      BY <1>2 DEF IInv, SlotInv, Listed
    <2>3. slots \in Seq(Node) /\ IsInjective(slots)
      BY DEF IInv, TypeOK, FramesInv, EmitInv
    <2>4. /\ slots' \in Seq(Node)
          /\ IsInjective(slots')
          /\ ToSet(slots') = Listed \ {s}
      BY <2>1, <2>2, <2>3, WithoutFacts
    <2>5. \A i \in DOMAIN stk : stk[i].op \notin Holder
      BY <1>2, NoHolder DEF ExecInv
    <2>6. FramesInv(slots', stk, parent', rep, impl)
      <3>1. ToSet(slots') \subseteq ToSet(slots)
        BY <2>4 DEF Listed
      <3>2. \A i \in DOMAIN stk : stk[i].op \notin {"emit", "sweep"}
        BY <2>5 DEF Holder
      <3>3. QED
        BY <1>1, <2>4, <3>1, <3>2, FramesShrink
    <2>7. er \in Seq(Frame) /\ FramesInv(slots', er, parent', rep, impl)
      <3>1. "erase" \in Dying
        BY DEF Dying
      <3>2. s \in Slot \ parent' /\ rep[s] # "none"
        BY <1>1
      <3>3. QED
        BY <2>6, <3>1, <3>2, PushDying
    <2>8. ExecInv(exec', er)
      <3>1. /\ Call("erase", s) \in Frame
            /\ Call("erase", s).op \in Holder
        BY DEF Call, Frame, Holder, FunctorDtor, Node
      <3>2. QED
        BY <2>1, <3>1, ExecPush
    <2>9. deferred' \in BOOLEAN /\ parent' \subseteq parent /\ s \notin parent'
      BY <1>1, <2>1 DEF IInv, TypeOK
    <2> HIDE DEF er
    <2>10. QED
      BY <2>1, <2>4, <2>7, <2>8, <2>9, DeleteStep
  <1>3. CASE ~(s \in parent /\ impl = "live" /\ exec = 0)
    <2>1. /\ call' = call \ {s}
          /\ deferred' = (deferred \/ (s \in parent /\ impl = "live"))
          /\ stack' = stk
          /\ UNCHANGED <<slots, exec, blocked, rep, functor, invalidated>>
      BY <1>3 DEF DisconnectRep
    <2>2. TypeOK'
      BY <1>1, <2>1 DEF IInv, TypeOK
    <2>3. ExecInv(exec', stack')
      BY <2>1
    <2>4. FramesInv(slots', stack', parent', rep', impl')
      BY <1>1, <2>1
    <2>5. SlotInv(slots', parent', call', rep', functor', impl')
      BY <1>1, <2>1 DEF IInv, SlotInv
    <2>6. HandleInv'
      BY <2>1 DEF IInv, HandleInv, HasHandle
    <2>7. QED
      BY <2>2, <2>3, <2>4, <2>5, <2>6 DEF IInv
  <1>4. QED
    BY <1>2, <1>3

\* A holder returns. If it was the last one, and a removal is pending, then
\* sweep() begins on a stack that walks the list nowhere else.
LEMMA ReleaseStep ==
    ASSUME TypeOK, ExecInv(exec, stack), stack # <<>>, Top.op \in Holder,
           NEW im, slots' \in Seq(Node),
           FramesInv(slots', Caller, parent, rep, im), Release(slots')
    PROVE  /\ stack' \in Seq(Frame)
           /\ deferred' \in BOOLEAN
           /\ ExecInv(exec', stack')
           /\ FramesInv(slots', stack', parent, rep, im)
  <1>1. /\ stack \in Seq(Frame)
        /\ Caller = CallerOf(stack)
        /\ Caller \in Seq(Frame)
        /\ Top = stack[Len(stack)]
    BY TopFacts DEF TypeOK
  <1>2. ExecInv(exec - 1, Caller)
    BY <1>1, ExecPop
  <1>3. CASE exec = 1 /\ deferred
    <2> DEFINE f == Call("sweep", First(slots'))
    <2>1. stack' = Append(Caller, f) /\ deferred' = FALSE /\ exec' = exec
      BY <1>3 DEF Release, Continue
    <2>2. \A i \in DOMAIN Caller : Caller[i].op \notin Holder
      <3>1. Cardinality(HolderDepths(Caller)) = 0
        BY <1>2, <1>3 DEF ExecInv
      <3>2. QED
        BY <1>1, <3>1, NoHolder
    <2>3. ToSet(slots') \subseteq Slot
      <3>1. EmitInv(slots', Caller)
        BY DEF FramesInv
      <3>2. \A i \in DOMAIN Caller : Caller[i].op # "emit"
        BY <2>2 DEF Holder
      <3>3. QED
        BY <3>1, <3>2, OnlySlots
    <2>4. First(slots') \in (ToSet(slots') \cap Slot) \cup {End}
      BY <2>3, FirstFacts
    <2>5. f \in Frame /\ f.op = "sweep" /\ f.at = First(slots')
      BY <2>4 DEF Call, Frame, Holder, FunctorDtor, Node
    <2> HIDE DEF f
    <2>6. stack' \in Seq(Frame)
      BY <1>1, <2>1, <2>5, PushFacts
    <2>7. ExecInv(exec', stack')
      BY <1>1, <1>2, <1>3, <2>1, <2>5, ExecPush DEF Holder
    <2>8. EmitInv(slots', Append(Caller, f))
      BY <1>1, <2>5, EmitInvPush DEF FramesInv
    <2>9. SweepInv(slots', Append(Caller, f))
      <3>1. \A j \in DOMAIN Caller : Caller[j].op \notin {"emit", "sweep"}
        BY <2>2 DEF Holder
      <3>2. QED
        BY <1>1, <2>4, <2>5, <3>1, SweepInvPush DEF FramesInv
    <2>10. DyingInv(slots', Append(Caller, f), parent, rep)
      <3>1. f.op \notin Dying
        BY <2>5 DEF Dying, FunctorDtor
      <3>2. QED
        BY <1>1, <2>5, <3>1, DyingInvPush DEF FramesInv
    <2>11. DtorInv(Append(Caller, f), im)
      BY <1>1, <2>5, DtorInvPush DEF FramesInv
    <2>12. QED
      BY <2>1, <2>6, <2>7, <2>8, <2>9, <2>10, <2>11 DEF FramesInv
  <1>4. CASE ~(exec = 1 /\ deferred)
    <2>1. stack' = Caller /\ deferred' = deferred /\ exec' = exec - 1
      BY <1>4 DEF Release
    <2>2. QED
      BY <1>1, <1>2, <2>1 DEF TypeOK
  <1>5. QED
    BY <1>3, <1>4

-----------------------------------------------------------------------------
(***************************************************************************)
(* Every action preserves the invariant: the steps of an emission.         *)
(***************************************************************************)
LEMMA AdvanceStep ==
    ASSUME IInv, TopIs("emit"), NEW f \in Frame, f.op = "emit",
           Before(slots, f.at, TopMark), f.running => f.at \in Slot,
           stack' = Continue(f),
           UNCHANGED <<slots, exec, deferred, call, parent, blocked, rep,
                       functor, handles, impl, invalidated>>
    PROVE  IInv'
  <1>1. /\ stack \in Seq(Frame)
        /\ stack # <<>>
        /\ stack[Len(stack)].op = "emit"
        /\ Caller = CallerOf(stack)
        /\ Caller \in Seq(Frame)
    BY TopFacts DEF IInv, TypeOK, TopIs, Top
  <1>2. stack' = Append(Caller, f)
    BY DEF Continue
  <1>3. stack' \in Seq(Frame)
    BY <1>1, <1>2, PushFacts
  <1>4. ExecInv(exec', stack')
    <2>1. ExecInv(exec - 1, Caller)
      BY <1>1, ExecPop DEF IInv, Holder
    <2>2. ExecInv((exec - 1) + 1, Append(Caller, f))
      BY <1>1, <2>1, ExecPush DEF Holder
    <2>3. (exec - 1) + 1 = exec'
      BY DEF IInv, TypeOK
    <2>4. QED
      BY <1>2, <2>2, <2>3
  <1>5. EmitInv(slots, Append(Caller, f))
    BY <1>1, EmitInvAdvance DEF IInv, FramesInv, TopMark
  <1>6. SweepInv(slots, Append(Caller, f))
    <2>1. SweepInv(slots, Caller)
      BY <1>1, SweepInvPop DEF IInv, FramesInv
    <2>2. QED
      BY <1>1, <2>1, SweepInvPush
  <1>7. DyingInv(slots, Append(Caller, f), parent, rep)
    <2>1. DyingInv(slots, Caller, parent, rep)
      BY <1>1, DyingInvPop DEF IInv, FramesInv
    <2>2. f.op \notin Dying
      BY DEF Dying, FunctorDtor
    <2>3. QED
      BY <1>1, <2>1, <2>2, DyingInvPush
  <1>8. DtorInv(Append(Caller, f), impl)
    <2>1. DtorInv(Caller, impl)
      BY <1>1, DtorInvPop DEF IInv, FramesInv
    <2>2. QED
      BY <1>1, <2>1, DtorInvPush
  <1>9. FramesInv(slots', stack', parent', rep', impl')
    BY <1>2, <1>5, <1>6, <1>7, <1>8 DEF FramesInv
  <1>10. TypeOK'
    BY <1>3 DEF IInv, TypeOK
  <1>11. SlotInv(slots', parent', call', rep', functor', impl') /\ HandleInv'
    BY DEF IInv, HandleInv, HasHandle
  <1>12. QED
    BY <1>4, <1>9, <1>10, <1>11 DEF IInv

\* Where the innermost emission stands.
LEMMA EmissionFacts ==
    ASSUME IInv, TopIs("emit")
    PROVE  /\ TopMark \in Mark
           /\ Before(slots, Top.at, TopMark)
           /\ {Top.at, TopMark} \subseteq Listed
           /\ Top.running => Top.at \in Slot
           /\ Top \in Frame
           /\ Top.op = "emit"
           /\ slots \in Seq(Node) /\ IsInjective(slots)
           /\ Listed \subseteq Node
  <1>1. /\ Top = stack[Len(stack)]
        /\ Len(stack) \in DOMAIN stack
        /\ Top.op = "emit"
        /\ Top \in Frame
    BY TopFacts DEF IInv, TopIs
  <1>2. /\ Len(stack) \in Mark
        /\ Before(slots, Top.at, Len(stack))
        /\ Top.running => Top.at \in Slot
    BY <1>1 DEF IInv, FramesInv, EmitInv
  <1>3. {Top.at, Len(stack)} \subseteq Listed
    BY <1>2 DEF Before, Listed, ToSet
  <1>4. slots \in Seq(Node) /\ IsInjective(slots)
    BY DEF IInv, TypeOK, FramesInv, EmitInv
  <1>5. Listed \subseteq Node
    BY <1>4, ElementOfSeq, LenProperties DEF Listed, ToSet
  <1>6. QED
    BY <1>1, <1>2, <1>3, <1>4, <1>5 DEF TopMark

\* The iterator of the innermost emission is incremented.
LEMMA NextSlot ==
    ASSUME IInv, TopIs("emit"), Top.at # TopMark
    PROVE  /\ Call("emit", Successor(Top.at)) \in Frame
           /\ Call("emit", Successor(Top.at)).op = "emit"
           /\ Call("emit", Successor(Top.at)).running = FALSE
           /\ Before(slots, Call("emit", Successor(Top.at)).at, TopMark)
  <1>1. /\ Successor(Top.at) \in Listed \cup {End}
        /\ Before(slots, Successor(Top.at), TopMark)
    BY EmissionFacts, SuccessorFacts
  <1>2. Successor(Top.at) \in Node \cup {End}
    BY <1>1, EmissionFacts
  <1>3. QED
    BY <1>1, <1>2 DEF Call, Frame, Holder

LEMMA EmitSkipStep == IInv /\ EmitSkip => IInv'
  <1>1. SUFFICES ASSUME IInv, EmitSkip PROVE IInv'
    OBVIOUS
  <1>2. TopIs("emit") /\ Top.at # TopMark
    BY <1>1 DEF EmitSkip, Emitting
  <1>3. QED
    BY <1>1, <1>2, NextSlot, AdvanceStep DEF EmitSkip

LEMMA EmitInvokeStep == IInv /\ EmitInvoke => IInv'
  <1>1. SUFFICES ASSUME IInv, EmitInvoke PROVE IInv'
    OBVIOUS
  <1> DEFINE f == [Top EXCEPT !.running = TRUE]
  <1>2. TopIs("emit") /\ Top.at \in call
    BY <1>1 DEF EmitInvoke, Emitting, Empty
  <1>3. f \in Frame /\ f.op = "emit" /\ f.at = Top.at
    BY <1>1, <1>2, EmissionFacts DEF Frame
  <1>4. f.at \in Slot
    BY <1>1, <1>2, <1>3 DEF IInv, TypeOK
  <1>5. Before(slots, f.at, TopMark)
    BY <1>1, <1>2, <1>3, EmissionFacts
  <1>6. stack' = Continue(f)
    BY <1>1 DEF EmitInvoke
  <1> HIDE DEF f
  <1>7. QED
    BY <1>1, <1>2, <1>3, <1>4, <1>5, <1>6, AdvanceStep DEF EmitInvoke

LEMMA SlotReturnsStep == IInv /\ SlotReturns => IInv'
  <1>1. SUFFICES ASSUME IInv, SlotReturns PROVE IInv'
    OBVIOUS
  <1>2. TopIs("emit") /\ Top.running
    BY <1>1 DEF SlotReturns
  <1>3. Top.at # TopMark
    BY <1>1, <1>2, EmissionFacts, NodesDisjoint
  <1>4. QED
    BY <1>1, <1>2, <1>3, NextSlot, AdvanceStep DEF SlotReturns

LEMMA SlotThrowsStep == IInv /\ SlotThrows => IInv'
  <1>1. SUFFICES ASSUME IInv, SlotThrows PROVE IInv'
    OBVIOUS
  <1> DEFINE f == Call("emit", TopMark)
  <1>2. TopIs("emit")
    BY <1>1 DEF SlotThrows
  <1>3. f \in Frame /\ f.op = "emit" /\ f.at = TopMark /\ f.running = FALSE
    BY <1>1, <1>2, EmissionFacts DEF Call, Frame, Holder, Node
  <1>4. Before(slots, TopMark, TopMark)
    <2>1. Before(slots, Top.at, TopMark) /\ slots \in Seq(Node)
      BY <1>1, <1>2, EmissionFacts
    <2>2. PICK j \in DOMAIN slots : slots[j] = TopMark
      BY <2>1 DEF Before
    <2>3. j <= j
      BY <2>1, LenProperties
    <2>4. QED
      BY <2>2, <2>3 DEF Before
  <1>5. stack' = Continue(f)
    BY <1>1 DEF SlotThrows
  <1> HIDE DEF f
  <1>6. QED
    BY <1>1, <1>2, <1>3, <1>4, <1>5, AdvanceStep DEF SlotThrows

LEMMA EmitEndStep == IInv /\ EmitEnd => IInv'
  <1>1. SUFFICES ASSUME IInv, EmitEnd PROVE IInv'
    OBVIOUS
  <1>2. TopIs("emit") /\ stack # <<>>
    BY <1>1 DEF EmitEnd, Emitting, TopIs
  <1>3. /\ TypeOK
        /\ stack \in Seq(Frame)
        /\ Caller = CallerOf(stack)
        /\ Top = stack[Len(stack)]
        /\ Top.op = "emit"
    BY <1>1, <1>2, TopFacts DEF IInv, TypeOK, TopIs
  <1>4. slots' = Without(TopMark) /\ blocked' = blocked \ {TopMark}
    BY <1>1 DEF EmitEnd
  <1>5. /\ slots' \in Seq(Node)
        /\ IsInjective(slots')
        /\ ToSet(slots') = Listed \ {TopMark}
        /\ \A a, b : Before(slots, a, b) /\ a # TopMark /\ b # TopMark
                         => Before(slots', a, b)
    BY <1>1, <1>2, <1>4, EmissionFacts, WithoutFacts
  <1>6. ToSet(slots') \cap Slot = Listed \cap Slot
    BY <1>1, <1>2, <1>5, EmissionFacts, NodesDisjoint
  <1>7. FramesInv(slots', Caller, parent, rep, impl)
    <2>1. EmitInv(slots', Caller)
      BY <1>1, <1>2, <1>3, <1>5, EmitInvEnd
         DEF IInv, TypeOK, FramesInv, TopMark, Listed
    <2>2. SweepInv(slots, Caller) /\ DyingInv(slots, Caller, parent, rep)
      BY <1>1, <1>2, <1>3, SweepInvPop, DyingInvPop DEF IInv, FramesInv
    <2>3. SweepInv(slots', Caller)
      BY <2>2, <1>6 DEF SweepInv, Listed
    <2>4. DyingInv(slots', Caller, parent, rep)
      BY <2>2, <1>5, DyingInvMono DEF Listed
    <2>5. DtorInv(Caller, impl)
      BY <1>1, <1>2, <1>3, DtorInvPop DEF IInv, FramesInv
    <2>6. QED
      BY <2>1, <2>3, <2>4, <2>5 DEF FramesInv
  <1>8. /\ stack' \in Seq(Frame)
        /\ deferred' \in BOOLEAN
        /\ ExecInv(exec', stack')
        /\ FramesInv(slots', stack', parent, rep, impl)
    <2>1. Release(slots')
      BY <1>1, <1>4 DEF EmitEnd
    <2>2. ExecInv(exec, stack) /\ Top.op \in Holder
      BY <1>1, <1>3 DEF IInv, Holder
    <2>3. QED
      BY <1>2, <1>3, <1>5, <1>7, <2>1, <2>2, ReleaseStep
  <1>9. UNCHANGED <<call, parent, rep, functor, handles, impl, invalidated>>
    BY <1>1 DEF EmitEnd
  <1>10. TypeOK'
    BY <1>1, <1>4, <1>5, <1>8, <1>9, ExecIsNat DEF IInv, TypeOK
  <1>11. FramesInv(slots', stack', parent', rep', impl')
    BY <1>8, <1>9
  <1>12. SlotInv(slots', parent', call', rep', functor', impl')
    BY <1>1, <1>6, <1>9 DEF IInv, TypeOK, SlotInv, Listed
  <1>13. HandleInv'
    BY <1>1, <1>9 DEF IInv, HandleInv, HasHandle
  <1>14. QED
    BY <1>8, <1>10, <1>11, <1>12, <1>13 DEF IInv

(***************************************************************************)
(* The steps that remove slots.                                            *)
(***************************************************************************)
\* What a frame that is no emission leaves to its caller.
LEMMA CallerFacts ==
    ASSUME IInv, stack # <<>>, Top.op # "emit"
    PROVE  /\ stack \in Seq(Frame)
           /\ Caller \in Seq(Frame)
           /\ Top \in Frame
           /\ FramesInv(slots, Caller, parent, rep, impl)
           /\ Top.op \in Holder => ExecInv(exec - 1, Caller)
           /\ Top.op \notin Holder => ExecInv(exec, Caller)
           /\ slots \in Seq(Node) /\ IsInjective(slots)
  <1>1. /\ stack \in Seq(Frame)
        /\ Caller = CallerOf(stack)
        /\ Caller \in Seq(Frame)
        /\ Top = stack[Len(stack)]
        /\ Top \in Frame
    BY TopFacts DEF IInv, TypeOK
  <1>2. FramesInv(slots, Caller, parent, rep, impl)
    BY <1>1, PopFrame DEF IInv
  <1>3. /\ Top.op \in Holder => ExecInv(exec - 1, Caller)
        /\ Top.op \notin Holder => ExecInv(exec, Caller)
    BY <1>1, ExecPop DEF IInv
  <1>4. slots \in Seq(Node) /\ IsInjective(slots)
    BY DEF IInv, TypeOK, FramesInv, EmitInv
  <1>5. QED
    BY <1>1, <1>2, <1>3, <1>4

\* What is known of the slot that the frame at the top is about to destroy.
LEMMA DyingFacts ==
    ASSUME IInv, stack # <<>>, Top.op \in Dying
    PROVE  /\ Top.at \in Slot \ parent
           /\ rep[Top.at] # "none"
           /\ Top.op = "delete" => Top.at \notin Listed
  BY TopFacts DEF IInv, FramesInv, DyingInv, Listed

LEMMA NotifyResumeStep == IInv /\ NotifyResume => IInv'
  <1>1. SUFFICES ASSUME IInv, NotifyResume PROVE IInv'
    OBVIOUS
  <1> DEFINE s == Top.at
  <1>2. stack # <<>> /\ Top.op = "notify"
    BY <1>1 DEF NotifyResume, TopIs
  <1>3. "notify" \in Dying /\ "notify" \notin Holder
    BY DEF Dying, Holder
  <1>4. s \in Slot \ parent /\ rep[s] # "none"
    BY <1>1, <1>2, <1>3, DyingFacts
  <1>5. /\ Caller \in Seq(Frame)
        /\ FramesInv(slots, Caller, parent, rep, impl)
        /\ ExecInv(exec, Caller)
    BY <1>1, <1>2, <1>3, CallerFacts
  <1>6. UNCHANGED <<slots, exec, deferred, parent, blocked, rep, handles, impl>>
    BY <1>1 DEF NotifyResume
  <1>7. CASE rep[s] = "live" /\ functor[s] = "held"
    <2>1. /\ functor' = [functor EXCEPT ![s] = "dying"]
          /\ call' = call \ {s}
          /\ invalidated' = invalidated \cup {s}
          /\ stack' = Append(Caller, Call("destroy", s))
      BY <1>1, <1>7 DEF NotifyResume, Continue
    <2> HIDE DEF s
    <2>2. stack' \in Seq(Frame) /\ FramesInv(slots, stack', parent, rep, impl)
      <3>1. "destroy" \in Dying
        BY DEF Dying, FunctorDtor
      <3>2. QED
        BY <1>4, <1>5, <2>1, <3>1, PushDying
    <2>3. ExecInv(exec, stack')
      <3>1. /\ Call("destroy", s) \in Frame
            /\ Call("destroy", s).op \notin Holder
        BY <1>4 DEF Call, Frame, Holder, FunctorDtor, Node
      <3>2. QED
        BY <1>5, <2>1, <3>1, ExecPush
    <2>4. TypeOK'
      BY <1>1, <1>4, <1>6, <2>1, <2>2 DEF IInv, TypeOK
    <2>5. FramesInv(slots', stack', parent', rep', impl') /\ ExecInv(exec', stack')
      BY <1>6, <2>2, <2>3
    <2>6. SlotInv(slots', parent', call', rep', functor', impl')
      BY <1>1, <1>4, <1>6, <1>7, <2>1 DEF IInv, TypeOK, SlotInv
    <2>7. HandleInv'
      BY <1>1, <1>4, <1>6, <1>7, <2>1 DEF IInv, TypeOK, HandleInv, HasHandle
    <2>8. QED
      BY <2>4, <2>5, <2>6, <2>7 DEF IInv
  <1>8. CASE ~(rep[s] = "live" /\ functor[s] = "held")
    <2>1. stack' = Caller /\ UNCHANGED <<call, functor, invalidated>>
      BY <1>1, <1>8 DEF NotifyResume
    <2> HIDE DEF s
    <2>2. TypeOK'
      BY <1>1, <1>5, <1>6, <2>1 DEF IInv, TypeOK
    <2>3. FramesInv(slots', stack', parent', rep', impl') /\ ExecInv(exec', stack')
      BY <1>5, <1>6, <2>1
    <2>4. SlotInv(slots', parent', call', rep', functor', impl')
      BY <1>1, <1>6, <2>1 DEF IInv
    <2>5. HandleInv'
      BY <1>1, <1>6, <2>1 DEF IInv, HandleInv, HasHandle
    <2>6. QED
      BY <2>2, <2>3, <2>4, <2>5 DEF IInv
  <1>9. QED
    BY <1>7, <1>8

LEMMA FunctorDoneStep == IInv /\ FunctorDone => IInv'
  <1>1. SUFFICES ASSUME IInv, FunctorDone PROVE IInv'
    OBVIOUS
  <1>2. stack # <<>> /\ Top.op \in FunctorDtor
    BY <1>1 DEF FunctorDone, TopIs
  <1>3. Top.op \in Dying /\ Top.op \notin Holder /\ Top.op # "emit"
    BY <1>2 DEF Dying, FunctorDtor, Holder
  <1>4. PICK s : s = Top.at
    OBVIOUS
  <1>5. /\ s \in Slot \ parent /\ rep[s] # "none"
        /\ Top.op = "delete" => s \notin Listed
    BY <1>1, <1>2, <1>3, <1>4, DyingFacts
  <1>6. /\ Caller \in Seq(Frame)
        /\ FramesInv(slots, Caller, parent, rep, impl)
        /\ ExecInv(exec, Caller)
    BY <1>1, <1>2, <1>3, CallerFacts
  <1>7. /\ functor' = [functor EXCEPT ![s] = "none"]
        /\ stack' = Caller
        /\ UNCHANGED <<slots, exec, deferred, call, parent, handles, impl>>
    BY <1>1, <1>4 DEF FunctorDone
  <1>8. HandleInv'
    BY <1>1, <1>5, <1>7 DEF IInv, TypeOK, HandleInv, HasHandle
  <1>9. CASE Top.op = "delete"
    <2>1. /\ rep' = [rep EXCEPT ![s] = "freed"]
          /\ blocked' = blocked \ {s}
          /\ invalidated' = invalidated \ {s}
      BY <1>1, <1>4, <1>9 DEF FunctorDone, Free
    <2>2. TypeOK'
      BY <1>1, <1>5, <1>6, <1>7, <2>1 DEF IInv, TypeOK
    <2>3. FramesInv(slots', stack', parent', rep', impl')
      <3>1. \A t \in Slot : rep[t] # "none" => rep'[t] # "none"
        BY <1>1, <2>1 DEF IInv, TypeOK
      <3>2. QED
        BY <1>6, <1>7, <3>1, FramesMono
    <2>4. SlotInv(slots', parent', call', rep', functor', impl')
      BY <1>1, <1>5, <1>7, <1>9, <2>1 DEF IInv, TypeOK, SlotInv, Listed
    <2>5. QED
      BY <1>6, <1>7, <1>8, <2>2, <2>3, <2>4 DEF IInv
  <1>10. CASE Top.op # "delete"
    <2>1. UNCHANGED <<rep, blocked, invalidated>>
      BY <1>1, <1>10 DEF FunctorDone
    <2>2. TypeOK'
      BY <1>1, <1>5, <1>6, <1>7, <2>1 DEF IInv, TypeOK
    <2>3. FramesInv(slots', stack', parent', rep', impl')
      BY <1>6, <1>7, <2>1
    <2>4. SlotInv(slots', parent', call', rep', functor', impl')
      BY <1>1, <1>5, <1>7, <2>1 DEF IInv, TypeOK, SlotInv
    <2>5. QED
      BY <1>6, <1>7, <1>8, <2>2, <2>3, <2>4 DEF IInv
  <1>11. QED
    BY <1>9, <1>10

\* A holder that is no emission ends, and the list is left as it is.
LEMMA HolderDone ==
    ASSUME IInv, stack # <<>>, Top.op \in Holder, Top.op # "emit",
           Release(slots),
           UNCHANGED <<slots, call, parent, blocked, rep, functor, handles,
                       invalidated>>,
           \/ impl' = impl
           \/ impl' = "dead" /\ impl # "live"
    PROVE  IInv'
  <1>1. /\ Caller \in Seq(Frame)
        /\ FramesInv(slots, Caller, parent, rep, impl)
        /\ slots \in Seq(Node)
    BY CallerFacts
  <1>2. /\ stack' \in Seq(Frame)
        /\ deferred' \in BOOLEAN
        /\ ExecInv(exec', stack')
        /\ FramesInv(slots', stack', parent, rep, impl)
    <2>1. /\ TypeOK /\ ExecInv(exec, stack) /\ slots' \in Seq(Node)
          /\ FramesInv(slots', Caller, parent, rep, impl)
          /\ Release(slots')
      BY <1>1 DEF IInv
    <2>2. QED
      BY <2>1, ReleaseStep
  <1>3. FramesInv(slots', stack', parent', rep', impl')
    BY <1>2 DEF FramesInv, DtorInv
  <1>4. TypeOK'
    BY <1>1, <1>2, ExecIsNat DEF IInv, TypeOK
  <1>5. SlotInv(slots', parent', call', rep', functor', impl')
    BY DEF IInv, SlotInv
  <1>6. HandleInv'
    BY DEF IInv, HandleInv, HasHandle
  <1>7. QED
    BY <1>2, <1>3, <1>4, <1>5, <1>6 DEF IInv

LEMMA EraseDoneStep == IInv /\ EraseDone => IInv'
  <1>1. SUFFICES ASSUME IInv, EraseDone PROVE IInv'
    OBVIOUS
  <1>2. stack # <<>> /\ Top.op \in Holder /\ Top.op # "emit"
    BY <1>1 DEF EraseDone, TopIs, Holder
  <1>3. QED
    BY <1>1, <1>2, HolderDone DEF EraseDone

LEMMA SweepEndStep == IInv /\ SweepEnd => IInv'
  <1>1. SUFFICES ASSUME IInv, SweepEnd PROVE IInv'
    OBVIOUS
  <1>2. stack # <<>> /\ Top.op \in Holder /\ Top.op # "emit"
    BY <1>1 DEF SweepEnd, TopIs, Holder
  <1>3. QED
    BY <1>1, <1>2, HolderDone DEF SweepEnd

LEMMA ClearDoneStep == IInv /\ ClearDone => IInv'
  <1>1. SUFFICES ASSUME IInv, ClearDone PROVE IInv'
    OBVIOUS
  <1>2. stack # <<>> /\ Top.op \in Holder /\ Top.op # "emit"
    BY <1>1 DEF ClearDone, Clearing, TopIs, Holder
  <1>3. TopIs("dtor") => impl # "live"
    BY <1>1, <1>2, TopFacts DEF IInv, FramesInv, DtorInv, TopIs
  <1>4. \/ impl' = impl
        \/ impl' = "dead" /\ impl # "live"
    BY <1>1, <1>3 DEF ClearDone
  <1>5. QED
    BY <1>1, <1>2, <1>4, HolderDone DEF ClearDone

\* What a sweep, or the clearing of the list, knows when it is at the top:
\* no emission is in progress, and no other sweep.
LEMMA ExclusiveFacts ==
    ASSUME IInv, stack # <<>>, Top.op \in {"sweep", "clear", "dtor"}
    PROVE  /\ \A i \in DOMAIN Caller : Caller[i].op \notin {"emit", "sweep"}
           /\ Listed \subseteq Slot
           /\ Top.op = "sweep" => Top.at \in Listed \cup {End}
           /\ Top.op # "sweep" => Listed \cap parent = {}
  <1>1. /\ Top = stack[Len(stack)]
        /\ Len(stack) \in DOMAIN stack
        /\ DOMAIN stack = 1 .. Len(stack)
        /\ Len(stack) \in Nat \ {0}
        /\ \A i \in DOMAIN Caller :
              i \in DOMAIN stack /\ i < Len(stack) /\ Caller[i] = stack[i]
    BY TopFacts DEF IInv
  <1>2. \A i \in DOMAIN Caller : Caller[i].op \notin {"emit", "sweep"}
    BY <1>1 DEF IInv, FramesInv, SweepInv
  <1>3. \A i \in DOMAIN stack : stack[i].op # "emit"
    <2>1. ASSUME NEW i \in DOMAIN stack, i # Len(stack)
          PROVE  stack[i].op # "emit"
      <3>1. i < Len(stack)
        BY <1>1, <2>1
      <3>2. QED
        BY <1>1, <3>1 DEF IInv, FramesInv, SweepInv
    <2>2. QED
      BY <1>1, <2>1
  <1>4. Listed \subseteq Slot
    BY <1>3, OnlySlots DEF IInv, TypeOK, FramesInv, Listed
  <1>5. Top.op = "sweep" => Top.at \in Listed \cup {End}
    BY <1>1 DEF IInv, FramesInv, SweepInv, Listed
  <1>6. Top.op # "sweep" => Listed \cap parent = {}
    BY <1>1 DEF IInv, FramesInv, DyingInv, Listed
  <1>7. QED
    BY <1>2, <1>4, <1>5, <1>6

\* The iterator of sweep() moves on; then the list may be q, without the
\* slot it has left.
LEMMA SweepAdvance ==
    ASSUME IInv, TopIs("sweep"), Top.at # End,
           NEW q, q \in Seq(Node), IsInjective(q), ToSet(q) \subseteq Listed,
           Listed \ {Top.at} \subseteq ToSet(q)
    PROVE  LET here == Continue(Call("sweep", Successor(Top.at)))
           IN  /\ here \in Seq(Frame)
               /\ ExecInv(exec, here)
               /\ FramesInv(q, here, parent, rep, impl)
  <1> DEFINE f == Call("sweep", Successor(Top.at))
  <1>1. stack # <<>> /\ Top.op = "sweep" /\ Top.op \in Holder
    BY DEF TopIs, Holder
  <1>2. /\ Caller \in Seq(Frame)
        /\ FramesInv(slots, Caller, parent, rep, impl)
        /\ ExecInv(exec - 1, Caller)
        /\ slots \in Seq(Node) /\ IsInjective(slots)
    BY <1>1, CallerFacts
  <1>3. /\ \A i \in DOMAIN Caller : Caller[i].op \notin {"emit", "sweep"}
        /\ Listed \subseteq Slot
        /\ Top.at \in Listed
    BY <1>1, ExclusiveFacts
  <1>4. Successor(Top.at) \in (Listed \ {Top.at}) \cup {End}
    BY <1>2, <1>3, SuccessorFacts
  <1>5. /\ f \in Frame /\ f.op = "sweep"
        /\ f.at \in (ToSet(q) \cap Slot) \cup {End}
    BY <1>3, <1>4 DEF Call, Frame, Holder, Node
  <1>6. FramesInv(q, Caller, parent, rep, impl)
    BY <1>2, <1>3, FramesShrink DEF Listed
  <1>7. Continue(f) = Append(Caller, f)
    BY DEF Continue
  <1> HIDE DEF f
  <1>8. Append(Caller, f) \in Seq(Frame)
    BY <1>2, <1>5, PushFacts
  <1>9. ExecInv(exec, Append(Caller, f))
    <2>1. ExecInv((exec - 1) + 1, Append(Caller, f))
      BY <1>2, <1>5, ExecPush DEF Holder
    <2>2. (exec - 1) + 1 = exec
      BY DEF IInv, TypeOK
    <2>3. QED
      BY <2>1, <2>2
  <1>10. FramesInv(q, Append(Caller, f), parent, rep, impl)
    <2>1. EmitInv(q, Append(Caller, f))
      BY <1>2, <1>5, <1>6, EmitInvPush DEF FramesInv
    <2>2. SweepInv(q, Append(Caller, f))
      BY <1>2, <1>3, <1>5, <1>6, SweepInvPush DEF FramesInv
    <2>3. f.op \notin Dying
      BY <1>5 DEF Dying, FunctorDtor
    <2>4. DyingInv(q, Append(Caller, f), parent, rep)
      BY <1>2, <1>5, <1>6, <2>3, DyingInvPush DEF FramesInv
    <2>5. DtorInv(Append(Caller, f), impl)
      BY <1>2, <1>5, <1>6, DtorInvPush DEF FramesInv
    <2>6. QED
      BY <2>1, <2>2, <2>4, <2>5 DEF FramesInv
  <1>11. QED
    BY <1>7, <1>8, <1>9, <1>10 DEF f

LEMMA SweepSkipStep == IInv /\ SweepSkip => IInv'
  <1>1. SUFFICES ASSUME IInv, SweepSkip PROVE IInv'
    OBVIOUS
  <1>2. /\ TopIs("sweep") /\ Top.at # End
        /\ stack' = Continue(Call("sweep", Successor(Top.at)))
        /\ UNCHANGED <<slots, exec, deferred, call, parent, blocked, rep,
                       functor, handles, impl, invalidated>>
    BY <1>1 DEF SweepSkip
  <1>3. slots \in Seq(Node) /\ IsInjective(slots)
    BY <1>1 DEF IInv, TypeOK, FramesInv, EmitInv
  <1>4. /\ stack' \in Seq(Frame)
        /\ ExecInv(exec, stack')
        /\ FramesInv(slots, stack', parent, rep, impl)
    BY <1>1, <1>2, <1>3, SweepAdvance DEF Listed
  <1>5. TypeOK'
    BY <1>1, <1>2, <1>4 DEF IInv, TypeOK
  <1>6. HandleInv'
    BY <1>1, <1>2 DEF IInv, HandleInv, HasHandle
  <1>7. QED
    BY <1>1, <1>2, <1>4, <1>5, <1>6 DEF IInv

LEMMA SweepEraseStep == IInv /\ SweepErase => IInv'
  <1>1. SUFFICES ASSUME IInv, SweepErase PROVE IInv'
    OBVIOUS
  <1>2. PICK s : s = Top.at
    OBVIOUS
  <1>3. PICK here : here = Continue(Call("sweep", Successor(Top.at)))
    OBVIOUS
  <1>4. /\ TopIs("sweep") /\ Top.at # End /\ s \notin call
        /\ slots' = Without(s)
        /\ UNCHANGED <<exec, deferred, parent, handles, impl>>
        /\ s \in Slot => DeleteRep(s, here)
    BY <1>1, <1>2, <1>3 DEF SweepErase, Empty
  <1>5. stack # <<>> /\ Top.op = "sweep"
    BY <1>4 DEF TopIs
  <1>6. s \in Slot /\ s \in Listed
    BY <1>1, <1>2, <1>4, <1>5, ExclusiveFacts
  <1>7. slots \in Seq(Node) /\ IsInjective(slots)
    BY <1>1 DEF IInv, TypeOK, FramesInv, EmitInv
  <1>8. /\ slots' \in Seq(Node)
        /\ IsInjective(slots')
        /\ ToSet(slots') = Listed \ {s}
    BY <1>4, <1>6, <1>7, WithoutFacts
  <1>9. /\ here \in Seq(Frame)
        /\ ExecInv(exec, here)
        /\ FramesInv(slots', here, parent, rep, impl)
    <2>1. ToSet(slots') \subseteq Listed /\ Listed \ {Top.at} \subseteq ToSet(slots')
      BY <1>2, <1>8
    <2>2. QED
      BY <1>1, <1>3, <1>4, <1>8, <2>1, SweepAdvance
  <1>10. rep[s] = "live" /\ (functor[s] = "held" => s \notin parent)
    BY <1>1, <1>4, <1>6 DEF IInv, SlotInv, Listed
  <1>11. /\ parent' \subseteq parent
         /\ functor[s] = "held" => s \notin parent'
         /\ deferred' \in BOOLEAN
         /\ ExecInv(exec', here)
         /\ FramesInv(slots', here, parent', rep, impl)
    BY <1>1, <1>4, <1>9, <1>10 DEF IInv, TypeOK
  <1>12. UNCHANGED <<handles, impl>> /\ DeleteRep(s, here)
    BY <1>4, <1>6
  <1>13. QED
    BY <1>1, <1>6, <1>8, <1>9, <1>10, <1>11, <1>12, DeleteStep

LEMMA ClearStepStep == IInv /\ ClearStep => IInv'
  <1>1. SUFFICES ASSUME IInv, ClearStep PROVE IInv'
    OBVIOUS
  <1>2. PICK s : s = Head(slots)
    OBVIOUS
  <1>3. stack # <<>> /\ Top.op \in {"clear", "dtor"}
    BY <1>1 DEF ClearStep, Clearing, TopIs
  <1>4. /\ slots # <<>> /\ slots' = Tail(slots)
        /\ UNCHANGED <<exec, deferred, parent, handles, impl>>
        /\ s \in Slot => DeleteRep(s, stack)
    BY <1>1, <1>2 DEF ClearStep
  <1>5. slots \in Seq(Node) /\ IsInjective(slots)
    BY <1>1 DEF IInv, TypeOK, FramesInv, EmitInv
  <1>6. /\ slots' \in Seq(Node)
        /\ IsInjective(slots')
        /\ ToSet(slots') = Listed \ {s}
        /\ s \in Listed
    BY <1>2, <1>4, <1>5, TailOfList DEF Listed
  <1>7. Listed \subseteq Slot /\ Listed \cap parent = {}
    BY <1>1, <1>3, ExclusiveFacts
  <1>8. s \in Slot /\ rep[s] = "live" /\ s \notin parent
    BY <1>1, <1>6, <1>7 DEF IInv, SlotInv, Listed
  <1>9. FramesInv(slots', stack, parent, rep, impl)
    <2>1. \A i \in DOMAIN stack : stack[i].op \notin {"emit", "sweep"}
      <3>1. /\ Top = stack[Len(stack)]
            /\ Len(stack) \in DOMAIN stack
            /\ DOMAIN stack = 1 .. Len(stack)
            /\ Len(stack) \in Nat \ {0}
        BY <1>1, <1>3, TopFacts DEF IInv
      <3>2. ASSUME NEW i \in DOMAIN stack, i # Len(stack)
            PROVE  stack[i].op \notin {"emit", "sweep"}
        <4>1. i < Len(stack)
          BY <3>1, <3>2
        <4>2. QED
          BY <1>1, <1>3, <3>1, <4>1 DEF IInv, FramesInv, SweepInv
      <3>3. QED
        BY <1>3, <3>1, <3>2
    <2>2. QED
      BY <1>1, <1>6, <2>1, FramesShrink DEF IInv, Listed
  <1>10. /\ stack \in Seq(Frame)
         /\ parent' \subseteq parent
         /\ s \notin parent'
         /\ deferred' \in BOOLEAN
         /\ ExecInv(exec', stack)
         /\ FramesInv(slots', stack, parent', rep, impl)
    BY <1>1, <1>4, <1>8, <1>9 DEF IInv, TypeOK
  <1>11. UNCHANGED <<handles, impl>> /\ DeleteRep(s, stack)
    BY <1>4, <1>8
  <1>12. QED
    BY <1>1, <1>6, <1>8, <1>10, <1>11, DeleteStep

(***************************************************************************)
(* The operations of the users.                                            *)
(***************************************************************************)
LEMMA ConnectStep ==
    ASSUME IInv, NEW s \in Slot, Connect(s)
    PROVE  IInv'
  <1>1. /\ HasHandle /\ ~ListBusy /\ rep[s] = "none"
        /\ slots' \in {Append(slots, s), <<s>> \o slots}
        /\ parent' = parent \cup {s}
        /\ rep' = [rep EXCEPT ![s] = "live"]
        /\ UNCHANGED <<exec, deferred, handles, impl, stack, invalidated>>
    BY DEF Connect
  <1>2. /\ blocked' \in {blocked, blocked \cup {s}}
        /\ \/ UNCHANGED <<call, functor>>
           \/ /\ call' = call \cup {s}
              /\ functor' = [functor EXCEPT ![s] = "held"]
    BY DEF Connect
  <1>3. s \notin Listed \cup parent \cup call /\ functor[s] = "none"
    BY <1>1 DEF IInv, SlotInv, Listed
  <1>4. impl = "live"
    BY <1>1 DEF IInv, HandleInv
  <1>5. slots \in Seq(Node) /\ IsInjective(slots) /\ s \in Node
    BY DEF IInv, TypeOK, FramesInv, EmitInv, Node
  <1>6. /\ slots' \in Seq(Node)
        /\ IsInjective(slots')
        /\ ToSet(slots') = Listed \cup {s}
        /\ \A a, b : Before(slots, a, b) => Before(slots', a, b)
    <2>1. CASE slots' = Append(slots, s)
      BY <1>3, <1>5, <2>1, AppendToList DEF Listed
    <2>2. CASE slots' = <<s>> \o slots
      BY <1>3, <1>5, <2>2, PrependToList DEF Listed
    <2>3. QED
      BY <1>1, <2>1, <2>2
  <1>7. TypeOK'
    BY <1>1, <1>2, <1>5, <1>6 DEF IInv, TypeOK
  <1>8. EmitInv(slots', stack)
    BY <1>6, EmitInvInsert DEF IInv, FramesInv, Listed
  <1>9. SweepInv(slots', stack)
    BY <1>6 DEF IInv, FramesInv, SweepInv, Listed
  <1>10. DyingInv(slots', stack, parent', rep')
    <2>1. \A i \in DOMAIN stack : stack[i].op \notin {"clear", "dtor"}
      BY <1>1 DEF ListBusy
    <2>2. ASSUME NEW i \in DOMAIN stack, stack[i].op \in Dying
          PROVE  /\ stack[i].at \in Slot \ parent'
                 /\ rep'[stack[i].at] # "none"
                 /\ stack[i].op = "delete" => stack[i].at \notin ToSet(slots')
      <3>1. /\ stack[i].at \in Slot \ parent
            /\ rep[stack[i].at] # "none"
            /\ stack[i].op = "delete" => stack[i].at \notin ToSet(slots)
        BY <2>2 DEF IInv, FramesInv, DyingInv
      <3>2. stack[i].at # s
        BY <1>1, <3>1
      <3>3. QED
        BY <1>1, <1>6, <3>1, <3>2 DEF IInv, TypeOK, Listed
    <2>3. "delete" \in Dying
      BY DEF Dying, FunctorDtor
    <2>4. QED
      BY <2>1, <2>2, <2>3 DEF DyingInv
  <1>11. FramesInv(slots', stack', parent', rep', impl')
    BY <1>1, <1>8, <1>9, <1>10 DEF IInv, FramesInv
  <1>12. SlotInv(slots', parent', call', rep', functor', impl')
    <2>1. \A t \in Slot : t # s => rep'[t] = rep[t] /\ functor'[t] = functor[t]
      BY <1>1, <1>2 DEF IInv, TypeOK
    <2>2. rep'[s] = "live" /\ (s \in call' \/ functor'[s] = "none")
      BY <1>1, <1>2, <1>3 DEF IInv, TypeOK
    <2>3. call \subseteq call' /\ call' \subseteq call \cup {s}
      BY <1>2
    <2>4. QED
      BY <1>1, <1>4, <1>6, <2>1, <2>2, <2>3 DEF IInv, TypeOK, SlotInv, Listed
  <1>13. HandleInv'
    BY <1>1, <1>4 DEF HandleInv
  <1>14. QED
    BY <1>1, <1>7, <1>11, <1>12, <1>13 DEF IInv

LEMMA UserDisconnectStep ==
    ASSUME IInv, NEW s \in Slot, Disconnect(s)
    PROVE  IInv'
  <1>1. rep[s] = "live" /\ DisconnectRep(s, stack) /\ UNCHANGED <<handles, impl>>
    BY DEF Disconnect
  <1>2. stack \in Seq(Frame) /\ ExecInv(exec, stack)
    BY DEF IInv, TypeOK
  <1>3. FramesInv(slots, stack, parent \ {s}, rep, impl)
    BY FramesMono DEF IInv
  <1>4. QED
    BY <1>1, <1>2, <1>3, DisconnectStep

LEMMA InvalidateStep ==
    ASSUME IInv, NEW s \in Slot, Invalidate(s)
    PROVE  IInv'
  <1> DEFINE stk == Append(stack, Call("notify", s))
  <1>1. rep[s] = "live" /\ DisconnectRep(s, stk) /\ UNCHANGED <<handles, impl>>
    BY DEF Invalidate, Push
  <1>2. stack \in Seq(Frame) /\ ExecInv(exec, stack)
    BY DEF IInv, TypeOK
  <1>3. FramesInv(slots, stack, parent \ {s}, rep, impl)
    BY FramesMono DEF IInv
  <1>4. stk \in Seq(Frame) /\ FramesInv(slots, stk, parent \ {s}, rep, impl)
    <2>1. "notify" \in Dying /\ s \in Slot \ (parent \ {s}) /\ rep[s] # "none"
      BY <1>1 DEF Dying
    <2>2. QED
      BY <1>2, <1>3, <2>1, PushDying
  <1>5. ExecInv(exec, stk)
    <2>1. Call("notify", s) \in Frame /\ Call("notify", s).op \notin Holder
      BY DEF Call, Frame, Holder, Node
    <2>2. QED
      BY <1>2, <2>1, ExecPush
  <1> HIDE DEF stk
  <1>6. QED
    BY <1>1, <1>4, <1>5, DisconnectStep

\* Blocking, and the copies of the signal object.
LEMMA HandlesStep ==
    ASSUME IInv, (\E s \in Slot : Block(s)) \/ BlockAll \/ CopyHandle \/ DropHandle
    PROVE  IInv'
  <1>1. /\ UNCHANGED <<slots, exec, deferred, call, parent, rep, functor, impl,
                       stack, invalidated>>
        /\ blocked' \subseteq Node
        /\ handles' \in Nat
        /\ HasHandle' => HasHandle
    <2>1. CASE \E s \in Slot : Block(s)
      BY <2>1 DEF Block, IInv, TypeOK, HasHandle, Node
    <2>2. CASE BlockAll
      <3>1. Listed \subseteq Node
        BY ElementOfSeq, LenProperties DEF IInv, TypeOK, Listed, ToSet
      <3>2. QED
        BY <2>2, <3>1 DEF BlockAll, IInv, TypeOK, HasHandle
    <2>3. CASE CopyHandle
      BY <2>3 DEF CopyHandle, IInv, TypeOK, HasHandle
    <2>4. CASE DropHandle
      BY <2>4 DEF DropHandle, IInv, TypeOK, HasHandle
    <2>5. QED
      BY <2>1, <2>2, <2>3, <2>4
  <1>2. TypeOK'
    BY <1>1 DEF IInv, TypeOK
  <1>3. HandleInv'
    BY <1>1 DEF IInv, HandleInv
  <1>4. QED
    BY <1>1, <1>2, <1>3 DEF IInv

\* The slots of the list are disconnected, and the list is about to be
\* cleared by a function op of the signal that may be dying.
LEMMA ClearBegins ==
    ASSUME IInv, NEW op \in {"clear", "dtor"},
           \A i \in DOMAIN stack : stack[i].op \notin {"emit", "sweep"},
           NEW im, im = IF op = "dtor" THEN "dying" ELSE impl
    PROVE  /\ Push(Call(op, End)) \in Seq(Frame)
           /\ ExecInv(exec + 1, Push(Call(op, End)))
           /\ FramesInv(slots, Push(Call(op, End)), parent \ Listed, rep, im)
  <1> DEFINE f == Call(op, End)
             new == Append(stack, f)
  <1>1. f \in Frame /\ f.op = op /\ op \in Holder /\ f.op \notin Dying
    BY DEF Call, Frame, Holder, Dying, FunctorDtor
  <1>2. stack \in Seq(Frame) /\ ExecInv(exec, stack)
    BY DEF IInv, TypeOK
  <1>3. FramesInv(slots, stack, parent \ Listed, rep, impl)
    BY FramesMono DEF IInv
  <1> HIDE DEF f
  <1>4. new \in Seq(Frame) /\ ExecInv(exec + 1, new)
    BY <1>1, <1>2, ExecPush, PushFacts
  <1>5. EmitInv(slots, new)
    BY <1>1, <1>2, <1>3, EmitInvPush DEF FramesInv
  <1>6. SweepInv(slots, new)
    BY <1>1, <1>2, <1>3, SweepInvPush DEF FramesInv
  <1>7. DyingInv(slots, new, parent \ Listed, rep)
    BY <1>1, <1>2, <1>3, DyingInvPush DEF FramesInv, Listed
  <1>8. DtorInv(new, im)
    <2>1. DtorInv(stack, im)
      BY <1>3 DEF FramesInv, DtorInv
    <2>2. QED
      BY <1>1, <1>2, <2>1, DtorInvPush
  <1>9. QED
    BY <1>4, <1>5, <1>6, <1>7, <1>8 DEF FramesInv, Push, f

LEMMA ClearedSlots ==
    ASSUME IInv, call' = call \ Listed, parent' = parent \ Listed,
           UNCHANGED <<slots, rep, functor>>, NEW im
    PROVE  SlotInv(slots', parent', call', rep', functor', im)
  BY DEF IInv, SlotInv, Listed

LEMMA UserClearStep == IInv /\ Clear => IInv'
  <1>1. SUFFICES ASSUME IInv, Clear PROVE IInv'
    OBVIOUS
  <1>2. /\ call' = call \ Listed
        /\ parent' = parent \ Listed
        /\ UNCHANGED <<slots, blocked, rep, functor, handles, impl, invalidated>>
    BY <1>1 DEF Clear
  <1>3. SlotInv(slots', parent', call', rep', functor', impl') /\ HandleInv'
    BY <1>1, <1>2, ClearedSlots DEF IInv, HandleInv, HasHandle
  <1>4. /\ stack' \in Seq(Frame)
        /\ deferred' \in BOOLEAN
        /\ ExecInv(exec', stack')
        /\ FramesInv(slots, stack', parent \ Listed, rep, impl)
    <2>1. CASE exec > 0
      <3>1. /\ deferred' = (deferred \/ Listed \cap parent # {})
            /\ exec' = exec /\ stack' = stack
        BY <1>1, <2>1 DEF Clear
      <3>2. FramesInv(slots, stack, parent \ Listed, rep, impl)
        BY <1>1, FramesMono DEF IInv
      <3>3. QED
        BY <1>1, <3>1, <3>2 DEF IInv, TypeOK
    <2>2. CASE ~(exec > 0)
      <3>1. /\ exec' = exec + 1
            /\ stack' = Push(Call("clear", End))
            /\ deferred' = deferred
        BY <1>1, <2>2 DEF Clear
      <3>2. \A i \in DOMAIN stack : stack[i].op \notin {"emit", "sweep"}
        <4>1. exec = 0
          BY <1>1, <2>2 DEF IInv, TypeOK
        <4>2. QED
          BY <1>1, <4>1, NoHolder DEF IInv, TypeOK, ExecInv, Holder
      <3>3. QED
        BY <1>1, <3>1, <3>2, ClearBegins DEF IInv, TypeOK
    <2>3. QED
      BY <2>1, <2>2
  <1>5. TypeOK'
    BY <1>1, <1>2, <1>4, ExecIsNat DEF IInv, TypeOK
  <1>6. QED
    BY <1>2, <1>3, <1>4, <1>5 DEF IInv

LEMMA ImplDestroyedStep == IInv /\ ImplDestroyed => IInv'
  <1>1. SUFFICES ASSUME IInv, ImplDestroyed PROVE IInv'
    OBVIOUS
  <1>2. /\ ~HasHandle
        /\ \A i \in DOMAIN stack : stack[i].op \notin {"emit", "sweep"}
        /\ impl' = "dying"
        /\ exec' = exec + 1
        /\ call' = call \ Listed
        /\ parent' = parent \ Listed
        /\ stack' = Push(Call("dtor", End))
        /\ UNCHANGED <<slots, deferred, blocked, rep, functor, handles,
                       invalidated>>
    BY <1>1 DEF ImplDestroyed, Orphaned, KeepsImpl
  <1>3. SlotInv(slots', parent', call', rep', functor', impl')
    BY <1>1, <1>2, ClearedSlots
  <1>4. HandleInv'
    BY <1>2 DEF HandleInv, HasHandle
  <1>5. /\ stack' \in Seq(Frame)
        /\ ExecInv(exec', stack')
        /\ FramesInv(slots', stack', parent', rep', impl')
    BY <1>1, <1>2, ClearBegins
  <1>6. TypeOK'
    BY <1>1, <1>2, <1>5, ExecIsNat DEF IInv, TypeOK
  <1>7. QED
    BY <1>3, <1>4, <1>5, <1>6 DEF IInv

LEMMA EmitStep == IInv /\ Emit => IInv'
  <1>1. SUFFICES ASSUME IInv, Emit PROVE IInv'
    OBVIOUS
  <1> DEFINE m == Len(stack) + 1
             f == Call("emit", First(slots))
  <1>2. /\ HasHandle /\ ~ListBusy /\ slots # <<>> /\ Len(stack) < MaxStack
        /\ slots' = Append(slots, m)
        /\ exec' = exec + 1
        /\ stack' = Append(stack, f)
        /\ UNCHANGED <<deferred, call, parent, blocked, rep, functor, handles,
                       impl, invalidated>>
    BY <1>1 DEF Emit, Push
  <1>3. /\ stack \in Seq(Frame)
        /\ slots \in Seq(Node)
        /\ IsInjective(slots)
        /\ EmitInv(slots, stack)
    BY <1>1 DEF IInv, TypeOK, FramesInv, EmitInv
  <1>4. First(slots) \in Listed /\ First(slots) \in Node
    <2>1. 1 \in DOMAIN slots /\ First(slots) = slots[1]
      <3>1. Len(slots) \in Nat \ {0} /\ DOMAIN slots = 1 .. Len(slots)
        BY <1>2, <1>3, LenProperties, EmptySeq
      <3>2. QED
        BY <1>2, <3>1 DEF First
    <2>2. QED
      BY <1>3, <2>1, ElementOfSeq, LenProperties DEF Listed, ToSet
  <1>5. f \in Frame /\ f.op = "emit" /\ f.running = FALSE /\ f.at = First(slots)
    BY <1>4 DEF Call, Frame, Holder
  <1>6. m \in Mark /\ m \in Node /\ m \notin Slot /\ m \notin Listed
    <2>1. Len(stack) \in Nat /\ DOMAIN stack = 1 .. Len(stack)
      BY <1>3, LenProperties
    <2>2. m \in Mark /\ m \notin DOMAIN stack
      BY <1>2, <2>1, BoundAssumption DEF Mark
    <2>3. QED
      BY <1>3, <2>2, NodesDisjoint DEF EmitInv, Node, Listed
  <1> HIDE DEF f, m
  <1>7. slots' \in Seq(Node) /\ ToSet(slots') = Listed \cup {m}
    BY <1>2, <1>3, <1>6, AppendToList DEF Listed
  <1>8. stack' \in Seq(Frame) /\ ExecInv(exec', stack')
    BY <1>1, <1>2, <1>3, <1>5, ExecPush, PushFacts DEF IInv, Holder
  <1>9. EmitInv(slots', Append(stack, f))
    BY <1>2, <1>3, <1>4, <1>5, EmitInvBegin DEF Listed, m
  <1>10. SweepInv(slots', Append(stack, f))
    <2>1. SweepInv(slots', stack)
      BY <1>1, <1>7 DEF IInv, FramesInv, SweepInv, Listed
    <2>2. QED
      BY <1>3, <1>5, <2>1, SweepInvPush
  <1>11. DyingInv(slots', Append(stack, f), parent, rep)
    <2>1. DyingInv(slots', stack, parent, rep)
      <3>1. parent \subseteq Slot
        BY <1>1 DEF IInv, TypeOK
      <3>2. "delete" \in Dying
        BY DEF Dying, FunctorDtor
      <3>3. QED
        BY <1>1, <1>6, <1>7, <3>1, <3>2 DEF IInv, FramesInv, DyingInv, Listed
    <2>2. f.op \notin Dying
      BY <1>5 DEF Dying, FunctorDtor
    <2>3. QED
      BY <1>3, <1>5, <2>1, <2>2, DyingInvPush
  <1>12. DtorInv(Append(stack, f), impl)
    BY <1>1, <1>3, <1>5, DtorInvPush DEF IInv, FramesInv
  <1>13. FramesInv(slots', stack', parent', rep', impl')
    BY <1>2, <1>9, <1>10, <1>11, <1>12 DEF FramesInv
  <1>14. TypeOK'
    BY <1>1, <1>2, <1>7, <1>8, ExecIsNat DEF IInv, TypeOK
  <1>15. SlotInv(slots', parent', call', rep', functor', impl')
    BY <1>1, <1>2, <1>6, <1>7 DEF IInv, SlotInv, Listed
  <1>16. HandleInv'
    BY <1>1, <1>2 DEF IInv, HandleInv, HasHandle
  <1>17. QED
    BY <1>8, <1>13, <1>14, <1>15, <1>16 DEF IInv

-----------------------------------------------------------------------------
(***************************************************************************)
(* The theorems.                                                           *)
(***************************************************************************)
LEMMA InitIInv == Init => IInv
  <1>1. SUFFICES ASSUME Init PROVE IInv
    OBVIOUS
  <1>2. /\ slots = <<>> /\ stack = <<>> /\ exec = 0
        /\ DOMAIN slots = {} /\ DOMAIN stack = {}
    BY <1>1 DEF Init
  <1>3. TypeOK
    <2>1. slots \in Seq(Node) /\ stack \in Seq(Frame)
      BY <1>2, EmptySeq
    <2>2. /\ rep \in [Slot -> {"none", "live", "freed"}]
          /\ functor \in [Slot -> {"none", "held", "dying"}]
      BY <1>1 DEF Init
    <2>3. /\ exec \in Nat /\ handles \in Nat /\ deferred \in BOOLEAN
          /\ impl \in {"live", "dying", "dead"}
          /\ call \subseteq Slot /\ parent \subseteq Slot
          /\ blocked \subseteq Node /\ invalidated \subseteq Slot
      BY <1>1 DEF Init
    <2>4. QED
      BY <2>1, <2>2, <2>3 DEF TypeOK
  <1>4. ExecInv(exec, stack)
    <2>1. HolderDepths(stack) = {}
      BY <1>2 DEF HolderDepths
    <2>2. QED
      BY <1>2, <2>1, FS_EmptySet DEF ExecInv
  <1>5. FramesInv(slots, stack, parent, rep, impl)
    BY <1>2 DEF FramesInv, EmitInv, SweepInv, DyingInv, DtorInv, ToSet, IsInjective
  <1>6. SlotInv(slots, parent, call, rep, functor, impl)
    BY <1>1, <1>2 DEF Init, SlotInv, ToSet
  <1>7. HandleInv
    BY <1>1 DEF Init, HandleInv
  <1>8. QED
    BY <1>3, <1>4, <1>5, <1>6, <1>7 DEF IInv

LEMMA StutterStep == IInv /\ UNCHANGED vars => IInv'
  <1>1. SUFFICES ASSUME IInv, UNCHANGED vars PROVE IInv'
    OBVIOUS
  <1>2. /\ TypeOK'
        /\ HandleInv'
    BY <1>1 DEF IInv, TypeOK, HandleInv, HasHandle, vars
  <1>3. QED
    BY <1>1, <1>2 DEF IInv, vars

LEMMA NextIInv == IInv /\ [Next]_vars => IInv'
  <1>1. SUFFICES ASSUME IInv, [Next]_vars PROVE IInv'
    OBVIOUS
  <1>2. CASE ImplDestroyed
    BY <1>1, <1>2, ImplDestroyedStep
  <1>3. CASE UserOperation
    <2>1. ASSUME NEW s \in Slot, Connect(s) PROVE IInv'
      BY <1>1, <2>1, ConnectStep
    <2>2. ASSUME NEW s \in Slot, Disconnect(s) PROVE IInv'
      BY <1>1, <2>2, UserDisconnectStep
    <2>3. ASSUME NEW s \in Slot, Invalidate(s) PROVE IInv'
      BY <1>1, <2>3, InvalidateStep
    <2>4. CASE (\E s \in Slot : Block(s)) \/ BlockAll \/ CopyHandle \/ DropHandle
      BY <1>1, <2>4, HandlesStep
    <2>5. CASE Clear
      BY <1>1, <2>5, UserClearStep
    <2>6. CASE Emit
      BY <1>1, <2>6, EmitStep
    <2>7. QED
      BY <1>3, <2>1, <2>2, <2>3, <2>4, <2>5, <2>6 DEF UserOperation
  <1>4. CASE UserReturns
    BY <1>1, <1>4, SlotReturnsStep, SlotThrowsStep, FunctorDoneStep
       DEF UserReturns
  <1>5. CASE LibraryStep
    BY <1>1, <1>5, EmitSkipStep, EmitInvokeStep, EmitEndStep, NotifyResumeStep,
       EraseDoneStep, SweepEraseStep, SweepSkipStep, SweepEndStep,
       ClearStepStep, ClearDoneStep DEF LibraryStep
  <1>6. CASE Finished \/ UNCHANGED vars
    BY <1>1, <1>6, StutterStep DEF Finished
  <1>7. QED
    BY <1>1, <1>2, <1>3, <1>4, <1>5, <1>6 DEF Next

\* The inductive invariant holds in every reachable state.
THEOREM InductiveInvariant == Spec => []IInv
  <1>1. QED
    BY InitIInv, NextIInv, PTL DEF Spec

\* Every variable keeps its type: exec_count_ never falls below zero, and
\* what an iterator points at is a slot, a placeholder or the end.
THEOREM TypeCorrect == Spec => []TypeOK
  <1>1. IInv => TypeOK
    BY DEF IInv
  <1>2. QED
    BY <1>1, InductiveInvariant, PTL

\* exec_count_ is the number of holders on the stack, whatever user code does
\* and however the emissions end. (signal_base.h:66-76, 186-231)
THEOREM HoldersCounted == Spec => []ExecCountsHolders
  <1>1. IInv => ExecCountsHolders
    BY DEF IInv, ExecInv, HolderDepths, ExecCountsHolders
  <1>2. QED
    BY <1>1, InductiveInvariant, PTL

\* The notification of a slot that can still be sent refers to an element of
\* the list of a signal that lives. (signal_base.cc:28-37, 142-146, 183-213)
THEOREM NotificationsSafe == Spec => []NotificationsValid
  <1>1. IInv => NotificationsValid
    BY DEF IInv, TypeOK, SlotInv, NotificationsValid, Listed
  <1>2. QED
    BY <1>1, InductiveInvariant, PTL

\* In the list of distinct nodes, Before compares positions.
LEMMA BeforePositions ==
    ASSUME slots \in Seq(Node), IsInjective(slots), NEW a, NEW b,
           Before(slots, a, b)
    PROVE  {a, b} \subseteq Listed /\ PositionOf(a) <= PositionOf(b)
  <1>1. PICK i, j \in DOMAIN slots : i <= j /\ slots[i] = a /\ slots[j] = b
    BY DEF Before
  <1>2. a \in Listed /\ b \in Listed
    BY <1>1 DEF Listed, ToSet
  <1>3. \A x, y \in DOMAIN slots : slots[x] = slots[y] => x = y
    BY DEF IsInjective
  <1>4. PositionOf(a) = i /\ PositionOf(b) = j
    BY <1>1, <1>2, <1>3, PositionFacts, Zenon
  <1>5. QED
    BY <1>1, <1>2, <1>4

\* The iterators that emissions and sweeps keep across user code are valid,
\* and no emission runs past its placeholder.
\* (signal.h:199-220, 350-366; signal_base.cc:164-181)
THEOREM IteratorsSafe == Spec => []IteratorsValid
  <1>1. ASSUME IInv PROVE IteratorsValid
    <2>1. slots \in Seq(Node) /\ IsInjective(slots)
      BY <1>1 DEF IInv, TypeOK, FramesInv, EmitInv
    <2>2. ASSUME NEW i \in Frames("emit")
          PROVE  /\ {i, stack[i].at} \subseteq Listed
                 /\ PositionOf(stack[i].at) <= PositionOf(i)
      <3>1. Before(slots, stack[i].at, i)
        BY <1>1 DEF Frames, IInv, FramesInv, EmitInv
      <3>2. QED
        BY <2>1, <3>1, BeforePositions
    <2>3. \A i \in Frames("sweep") : stack[i].at \in Listed \cup {End}
      BY <1>1 DEF Frames, IInv, FramesInv, SweepInv, Listed
    <2>4. QED
      BY <2>1, <2>2, <2>3 DEF IteratorsValid
  <1>2. QED
    BY <1>1, InductiveInvariant, PTL

=============================================================================
