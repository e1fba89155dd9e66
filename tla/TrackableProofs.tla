---------------------------- MODULE TrackableProofs ----------------------------
(***************************************************************************)
(* Proofs about module Trackable, for every number of objects, of          *)
(* slot_reps and of references between them, and every depth of the stack, *)
(* if users do what trackable.cc:109-112 calls no bug: they do not         *)
(* register with an object that is being notified, nor notify it again.    *)
(*                                                                         *)
(* The argument: an object has as many callbacks into a slot_rep as the    *)
(* functor of the slot_rep refers to it, from the time that the functor is *)
(* bound to the time that it is unbound, even while the list is destroyed. *)
(* When the destructor of a list has passed such a callback, the           *)
(* invalidation that it began is above it on the stack, and unbinds the    *)
(* functor before it returns. So at the end of a list no functor refers to *)
(* its object any more.                                                    *)
(***************************************************************************)
EXTENDS Trackable, SelectionProofs, Functions

-----------------------------------------------------------------------------
(***************************************************************************)
(* Lists of callbacks.                                                     *)
(***************************************************************************)
\* How many registrations of d are in the list l.
Count(l, d) == Cardinality(Matches(l, d))

\* Only members of D are registered.
DataIn(l, D) == \A k \in DOMAIN l : l[k].data \in D

LEMMA MatchesFacts ==
    ASSUME NEW l \in Seq(Callback), NEW d
    PROVE  /\ Matches(l, d) \in SUBSET (1 .. Len(l))
           /\ IsFiniteSet(Matches(l, d))
           /\ Count(l, d) \in Nat
           /\ Count(l, d) = 0 <=> Matches(l, d) = {}
  <1>1. DOMAIN l = 1 .. Len(l) /\ Len(l) \in Nat
    OBVIOUS
  <1>2. Matches(l, d) \in SUBSET (1 .. Len(l))
    BY <1>1 DEF Matches
  <1>3. IsFiniteSet(1 .. Len(l))
    BY <1>1, FS_Interval
  <1>4. IsFiniteSet(Matches(l, d))
    BY <1>2, <1>3, FS_Subset
  <1>5. QED
    BY <1>2, <1>4, FS_CardinalityType, FS_EmptySet DEF Count

\* add_callback(), n times.
Longer(l, d, n) == l \o [i \in 1 .. n |-> [data |-> d, func |-> TRUE]]

LEMMA AddFacts ==
    ASSUME NEW l \in Seq(Callback), NEW n \in Nat, NEW d \in Rep \cup Data \cup WeakPtr,
           NEW m, m = Longer(l, d, n)
    PROVE  /\ m \in Seq(Callback)
           /\ \A D : d \in D /\ DataIn(l, D) => DataIn(m, D)
           /\ \A e : e # d => Matches(m, e) = Matches(l, e)
           /\ Count(m, d) = Count(l, d) + n
           /\ n = 0 => m = l
  <1>1. PICK c \in Callback : c = [data |-> d, func |-> TRUE]
    BY DEF Callback
  <1>2. PICK new : new = [i \in 1 .. n |-> c]
    OBVIOUS
  <1>3. /\ new \in Seq(Callback) /\ Len(new) = n
        /\ \A i \in 1 .. n : new[i] = c
    BY <1>2
  <1>4. m = l \o new
    BY <1>1, <1>2 DEF Longer
  <1>5. PICK len \in Nat : len = Len(l)
    OBVIOUS
  <1>6. /\ m \in Seq(Callback)
        /\ DOMAIN l = 1 .. len
        /\ DOMAIN m = 1 .. len + n
        /\ \A k \in 1 .. len : m[k] = l[k]
        /\ \A k \in 1 .. len + n : k \notin 1 .. len => m[k] = c
    <2>1. /\ m \in Seq(Callback) /\ Len(m) = len + n
          /\ \A k \in 1 .. len + n : m[k] = IF k <= len THEN l[k] ELSE new[k - len]
      <3>1. new \in Seq(Callback)
        BY <1>3
      <3>2. /\ l \o new \in Seq(Callback)
            /\ Len(l \o new) = Len(l) + Len(new)
            /\ \A k \in 1 .. Len(l) + Len(new) :
                  (l \o new)[k] = IF k <= Len(l) THEN l[k] ELSE new[k - Len(l)]
        BY <3>1, ConcatProperties
      <3>3. QED
        BY <1>3, <1>4, <1>5, <3>2
    <2>2. /\ DOMAIN l = 1 .. len
          /\ DOMAIN m = 1 .. len + n
      BY <1>5, <2>1, LenProperties
    <2>3. \A k \in 1 .. len + n : k \notin 1 .. len => ~(k <= len) /\ k - len \in 1 .. n
      OBVIOUS
    <2>4. \A k \in 1 .. len : k \in 1 .. len + n /\ k <= len
      OBVIOUS
    <2>5. QED
      BY <1>3, <2>1, <2>2, <2>3, <2>4
  <1>7. \A k \in 1 .. len + n : k \notin 1 .. len => m[k].data = d /\ m[k].func
    BY <1>1, <1>6
  <1>8. ASSUME NEW e, e # d
        PROVE  Matches(m, e) = Matches(l, e)
    <2>1. \A k : k \in DOMAIN m /\ m[k].data = e /\ m[k].func
                    <=> k \in DOMAIN l /\ l[k].data = e /\ l[k].func
      <3>1. \A k : k \in 1 .. len => k \in 1 .. len + n
        BY <1>5
      <3>2. QED
        BY <1>6, <1>7, <1>8, <3>1
    <2>2. QED
      BY <2>1 DEF Matches
  <1>9. Matches(m, d) = Matches(l, d) \cup (len + 1 .. len + n)
    <2>1. \A k : k \in DOMAIN m <=> k \in DOMAIN l \/ k \in len + 1 .. len + n
      BY <1>6
    <2>2. \A k \in len + 1 .. len + n : k \in 1 .. len + n /\ k \notin 1 .. len
      BY <1>5
    <2>3. QED
      BY <1>6, <1>7, <2>1, <2>2 DEF Matches
  <1>10. Count(m, d) = Count(l, d) + n
    <2>1. Matches(l, d) \cap (len + 1 .. len + n) = {}
      BY <1>5, MatchesFacts
    <2>2. /\ IsFiniteSet(len + 1 .. len + n)
          /\ Cardinality(len + 1 .. len + n) = n
      <3>1. len + 1 \in Int /\ len + n \in Int
        OBVIOUS
      <3>2. /\ IsFiniteSet(len + 1 .. len + n)
            /\ Cardinality(len + 1 .. len + n) =
                  IF len + 1 > len + n THEN 0 ELSE (len + n) - (len + 1) + 1
        BY <3>1, FS_Interval
      <3>3. QED
        BY <3>2
    <2>3. IsFiniteSet(Matches(l, d))
      BY MatchesFacts
    <2>4. Cardinality(Matches(m, d)) = Cardinality(Matches(l, d)) + n - Cardinality({})
      BY <1>9, <2>1, <2>2, <2>3, FS_Union
    <2>5. Cardinality(Matches(l, d)) \in Nat
      BY <2>3, FS_CardinalityType
    <2>6. Cardinality({}) = 0
      BY FS_EmptySet
    <2>7. QED
      BY <2>4, <2>5, <2>6 DEF Count
  <1>11. ASSUME n = 0 PROVE m = l
    BY <1>3, <1>4, <1>11
  <1>12. \A D : d \in D /\ DataIn(l, D) => DataIn(m, D)
    <2>1. \A k \in 1 .. len + n : m[k].data = d \/ (k \in 1 .. len /\ m[k] = l[k])
      BY <1>6, <1>7
    <2>2. QED
      BY <1>6, <2>1 DEF DataIn
  <1>13. QED
    BY <1>6, <1>8, <1>10, <1>11, <1>12

\* std::list::erase of the elements at the positions gone.
LEMMA KeepFacts ==
    ASSUME NEW l \in Seq(Callback), NEW gone, NEW m, m = KeepOthers(l, gone)
    PROVE  /\ m \in Seq(Callback)
           /\ \A D : DataIn(l, D) => DataIn(m, D)
           /\ \A e : Count(m, e) = Cardinality(Matches(l, e) \ gone)
           /\ l = <<>> => m = <<>>
  <1>1. PICK S : S = DOMAIN l \ gone
    OBVIOUS
  <1>2. DOMAIN l = 1 .. Len(l) /\ Len(l) \in Nat
    OBVIOUS
  <1>3. S \in SUBSET (1 .. Len(l)) /\ S \in SUBSET Nat
    BY <1>1, <1>2
  <1>4. IsFiniteSet(S)
    <2>1. IsFiniteSet(1 .. Len(l))
      BY <1>2, FS_Interval
    <2>2. QED
      BY <1>3, <2>1, FS_Subset
  <1>5. PICK n : n = Cardinality(S)
    OBVIOUS
  <1>6. /\ n \in Nat
        /\ \A k \in 1 .. n : Nth(S, k) \in S
        /\ \A j, k \in 1 .. n : j < k => Nth(S, j) < Nth(S, k)
        /\ \A i \in S : \E k \in 1 .. n : Nth(S, k) = i
    BY <1>3, <1>4, <1>5, NthFacts
  <1>7. m = [k \in 1 .. n |-> l[Nth(S, k)]]
    BY <1>1, <1>5 DEF KeepOthers, InOrder
  <1>8. \A k \in 1 .. n : Nth(S, k) \in DOMAIN l /\ l[Nth(S, k)] \in Callback
    BY <1>1, <1>2, <1>6, ElementOfSeq
  <1>9. m \in Seq(Callback) /\ DOMAIN m = 1 .. n
    BY <1>6, <1>7, <1>8
  <1>10. ASSUME NEW e
         PROVE  Count(m, e) = Cardinality(Matches(l, e) \ gone)
    <2>1. PICK f : f = [k \in Matches(m, e) |-> Nth(S, k)]
      OBVIOUS
    <2>2. \A k \in 1 .. n : k \in Matches(m, e) <=> Nth(S, k) \in Matches(l, e) \ gone
      <3>1. \A k \in 1 .. n : m[k] = l[Nth(S, k)] /\ Nth(S, k) \in DOMAIN l \ gone
        BY <1>1, <1>6, <1>7
      <3>2. QED
        BY <1>9, <3>1 DEF Matches
    <2>3. Matches(m, e) \in SUBSET (1 .. n)
      BY <1>9 DEF Matches
    <2>4. f \in [Matches(m, e) -> Matches(l, e) \ gone]
      BY <2>1, <2>2, <2>3
    <2>5. \A j, k \in Matches(m, e) : f[j] = f[k] => j = k
      <3>1. SUFFICES ASSUME NEW j \in 1 .. n, NEW k \in 1 .. n,
                            Nth(S, j) = Nth(S, k)
                     PROVE  j = k
        BY <2>1, <2>3
      <3>2. Nth(S, j) \in Nat /\ Nth(S, k) \in Nat
        BY <1>3, <1>6
      <3>3. ~(j < k) /\ ~(k < j)
        BY <1>6, <3>1, <3>2
      <3>4. QED
        BY <1>6, <3>3
    <2>6. \A i \in Matches(l, e) \ gone : \E k \in Matches(m, e) : f[k] = i
      <3>1. \A i \in Matches(l, e) \ gone : i \in S
        BY <1>1 DEF Matches
      <3>2. QED
        BY <1>6, <2>1, <2>2, <3>1
    <2>7. f \in Bijection(Matches(m, e), Matches(l, e) \ gone)
      BY <2>4, <2>5, <2>6 DEF Bijection, Injection, Surjection, IsInjective
    <2>8. IsFiniteSet(Matches(m, e))
      BY <1>9, MatchesFacts
    <2>9. QED
      BY <2>7, <2>8, FS_Bijection DEF ExistsBijection, Count
  <1>11. ASSUME l = <<>> PROVE m = <<>>
    <2>1. S = {}
      BY <1>1, <1>11
    <2>2. n = 0
      BY <1>5, <2>1, FS_EmptySet
    <2>3. QED
      BY <1>9, <2>2, EmptySeq
  <1>12. \A D : DataIn(l, D) => DataIn(m, D)
    BY <1>7, <1>8, <1>9 DEF DataIn
  <1>13. QED
    BY <1>9, <1>10, <1>11, <1>12

\* remove_callback() of a list that is being destroyed.
Marked(l, gone) ==
    [i \in DOMAIN l |-> [l[i] EXCEPT !.func = @ /\ i \notin gone]]

LEMMA MarkFacts ==
    ASSUME NEW l \in Seq(Callback), NEW gone, NEW m, m = Marked(l, gone)
    PROVE  /\ m \in Seq(Callback)
           /\ DOMAIN m = DOMAIN l
           /\ \A D : DataIn(l, D) => DataIn(m, D)
           /\ \A e : Matches(m, e) = Matches(l, e) \ gone
  <1>1. PICK n \in Nat : n = Len(l) /\ DOMAIN l = 1 .. n
    OBVIOUS
  <1>2. \A k \in 1 .. n : l[k] \in Callback
    BY <1>1, ElementOfSeq
  <1>3. \A k \in 1 .. n : /\ m[k].data = l[k].data
                          /\ m[k].func = (l[k].func /\ k \notin gone)
                          /\ m[k] \in Callback
    BY <1>1, <1>2 DEF Callback, Marked
  <1>4. DOMAIN m = 1 .. n /\ m = [k \in 1 .. n |-> m[k]]
    BY <1>1 DEF Marked
  <1>5. m \in Seq(Callback)
    BY <1>3, <1>4
  <1>6. ASSUME NEW e
        PROVE  Matches(m, e) = Matches(l, e) \ gone
    <2>1. \A k : k \in Matches(m, e) <=> k \in Matches(l, e) \ gone
      BY <1>1, <1>3, <1>4 DEF Matches
    <2>2. QED
      BY <2>1
  <1>7. \A D : DataIn(l, D) => DataIn(m, D)
    BY <1>1, <1>3, <1>4 DEF DataIn
  <1>8. QED
    BY <1>1, <1>4, <1>5, <1>6, <1>7

\* n calls of remove_callback(d) find all of at most n registrations.
LEMMA FirstFacts ==
    ASSUME NEW l \in Seq(Callback), NEW d, NEW n
    PROVE  /\ FirstMatches(l, d, n) \in SUBSET Matches(l, d)
           /\ n \in Nat /\ Count(l, d) <= n => FirstMatches(l, d, n) = Matches(l, d)
  <1>1. FirstMatches(l, d, n) \in SUBSET Matches(l, d)
    BY DEF FirstMatches
  <1>2. ASSUME n \in Nat, Count(l, d) <= n, NEW i \in Matches(l, d)
        PROVE  i \in FirstMatches(l, d, n)
    <2>1. PICK S : S = {j \in Matches(l, d) : j <= i}
      OBVIOUS
    <2>2. S \in SUBSET Matches(l, d) /\ IsFiniteSet(Matches(l, d))
      BY <2>1, MatchesFacts
    <2>3. Cardinality(S) <= Cardinality(Matches(l, d)) /\ IsFiniteSet(S)
      BY <2>2, FS_Subset
    <2>4. Cardinality(S) \in Nat /\ Cardinality(Matches(l, d)) \in Nat
      BY <2>2, <2>3, FS_CardinalityType
    <2>5. Cardinality(S) <= n
      BY <1>2, <2>3, <2>4 DEF Count
    <2>6. QED
      BY <2>1, <2>5 DEF FirstMatches
  <1>3. QED
    BY <1>1, <1>2

LEMMA OtherMatches ==
    ASSUME NEW l, NEW d, NEW e, d # e
    PROVE  Matches(l, d) \cap Matches(l, e) = {}
  BY DEF Matches

\* The list of o after add_callback(d) and remove_callback(d), n times.
LEMMA AddedFacts ==
    ASSUME callbacks \in [Trackables -> Seq(Callback)],
           NEW o \in Trackables, NEW d \in Rep \cup Data \cup WeakPtr, NEW n \in Nat
    PROVE  /\ Added(o, d, n) \in Seq(Callback)
           /\ \A D : d \in D /\ DataIn(callbacks[o], D) => DataIn(Added(o, d, n), D)
           /\ \A e : e # d => Matches(Added(o, d, n), e) = Matches(callbacks[o], e)
           /\ o \notin clearing => Count(Added(o, d, n), d) = Count(callbacks[o], d) + n
           /\ o \in clearing \/ n = 0 => Added(o, d, n) = callbacks[o]
  <1>1. PICK l \in Seq(Callback) : l = callbacks[o]
    OBVIOUS
  <1>2. CASE o \in clearing
    BY <1>1, <1>2 DEF Added
  <1>3. CASE o \notin clearing
    <2>1. PICK m : m = Added(o, d, n)
      OBVIOUS
    <2>2. m = Longer(l, d, n)
      BY <1>1, <1>3, <2>1 DEF Added, Longer
    <2>3. /\ m \in Seq(Callback)
          /\ Count(m, d) = Count(l, d) + n
          /\ n = 0 => m = l
      BY <2>2, AddFacts
    <2>4. \A D : d \in D /\ DataIn(l, D) => DataIn(m, D)
      BY <2>2, AddFacts
    <2>5. \A e : e # d => Matches(m, e) = Matches(l, e)
      BY <2>2, AddFacts
    <2>6. QED
      BY <1>1, <1>3, <2>1, <2>3, <2>4, <2>5
  <1>4. QED
    BY <1>2, <1>3

LEMMA RemovedFacts ==
    ASSUME callbacks \in [Trackables -> Seq(Callback)],
           NEW o \in Trackables, NEW d, NEW n
    PROVE  /\ Removed(o, d, n) \in Seq(Callback)
           /\ \A D : DataIn(callbacks[o], D) => DataIn(Removed(o, d, n), D)
           /\ \A e : e # d => Count(Removed(o, d, n), e) = Count(callbacks[o], e)
           /\ n \in Nat /\ Count(callbacks[o], d) <= n =>
                 Count(Removed(o, d, n), d) = 0
           /\ o \in clearing =>
                 /\ DOMAIN Removed(o, d, n) = DOMAIN callbacks[o]
                 /\ \A e : Matches(Removed(o, d, n), e) \subseteq Matches(callbacks[o], e)
                 /\ \A e : e # d => Matches(Removed(o, d, n), e) = Matches(callbacks[o], e)
           /\ callbacks[o] = <<>> => Removed(o, d, n) = <<>>
  <1>1. PICK l \in Seq(Callback) : l = callbacks[o]
    OBVIOUS
  <1>2. PICK gone : gone = FirstMatches(l, d, n)
    OBVIOUS
  <1>3. PICK m : m = Removed(o, d, n)
    OBVIOUS
  <1>4. /\ gone \in SUBSET Matches(l, d)
        /\ n \in Nat /\ Count(l, d) <= n => gone = Matches(l, d)
    BY <1>2, FirstFacts
  <1>5. /\ \A e : e # d => Matches(l, e) \ gone = Matches(l, e)
        /\ n \in Nat /\ Count(l, d) <= n => Matches(l, d) \ gone = {}
    <2>1. \A e : e # d => Matches(l, d) \cap Matches(l, e) = {}
      BY OtherMatches
    <2>2. QED
      BY <1>4, <2>1
  <1>6. CASE o \in clearing
    <2>1. m = Marked(l, gone)
      BY <1>1, <1>2, <1>3, <1>6 DEF Removed, Marked
    <2>2. /\ m \in Seq(Callback)
          /\ DOMAIN m = DOMAIN l
          /\ \A D : DataIn(l, D) => DataIn(m, D)
          /\ \A e : Matches(m, e) = Matches(l, e) \ gone
      BY <2>1, MarkFacts
    <2>3. \A e : e # d => Count(m, e) = Count(l, e)
      BY <1>5, <2>2 DEF Count
    <2>4. n \in Nat /\ Count(l, d) <= n => Count(m, d) = 0
      BY <1>5, <2>2, FS_EmptySet DEF Count
    <2>5. l = <<>> => m = <<>>
      BY <2>2
    <2>6. \A e : Matches(m, e) \subseteq Matches(l, e)
      BY <2>2
    <2>7. \A e : e # d => Matches(m, e) = Matches(l, e)
      BY <1>5, <2>2
    <2>8. QED
      BY <1>1, <1>3, <2>2, <2>3, <2>4, <2>5, <2>6, <2>7
  <1>7. CASE o \notin clearing
    <2>1. m = KeepOthers(l, gone)
      BY <1>1, <1>2, <1>3, <1>7 DEF Removed
    <2>2. /\ m \in Seq(Callback)
          /\ \A D : DataIn(l, D) => DataIn(m, D)
          /\ \A e : Count(m, e) = Cardinality(Matches(l, e) \ gone)
          /\ l = <<>> => m = <<>>
      BY <2>1, KeepFacts
    <2>3. \A e : e # d => Count(m, e) = Count(l, e)
      BY <1>5, <2>2 DEF Count
    <2>4. n \in Nat /\ Count(l, d) <= n => Count(m, d) = 0
      BY <1>5, <2>2, FS_EmptySet
    <2>5. QED
      BY <1>1, <1>3, <1>7, <2>2, <2>3, <2>4
  <1>8. QED
    BY <1>6, <1>7

-----------------------------------------------------------------------------
(***************************************************************************)
(* The invariant. Its parts are predicates of the values they relate: cb,  *)
(* cl, dd, rp, fn, pt and stk are values of callbacks, clearing, dead,     *)
(* rep, functor, pointer and stack.                                        *)
(***************************************************************************)
TypeInv ==
    /\ callbacks \in [Trackables -> Seq(Callback)]
    /\ clearing \subseteq Object
    /\ dead \subseteq Object
    /\ rep \in [Rep -> {"none", "live", "freed"}]
    /\ functor \in [Rep -> {"none", "held", "dying"}]
    /\ pointer \in [WeakPtr -> Rep \cup {Null}]
    /\ stack \in Seq(Frame)
    /\ owed \in [Object -> [Data -> Int]]

\* The lists of the user's objects have callbacks of slot_reps and of users.
Installed(cb) == \A o \in Object : DataIn(cb[o], Rep \cup Data)

\* Each slot_rep that has a functor is in the lists as often as the functor
\* refers to their objects, and no other is in any.
Referred(cb, fn) ==
    \A r \in Rep, o \in Object :
        Count(cb[o], r) = IF fn[r] = "held" THEN Times[r][o] ELSE 0

Held(fn, rp) == \A r \in Rep : fn[r] = "held" => rp[r] = "live"

Emptied(cb, dd) == \A o \in dd : cb[o] = <<>>

Watched(cb, pt, rp) ==
    /\ \A w \in WeakPtr : pt[w] # Null => rp[pt[w]] = "live"
    /\ \A w \in WeakPtr, r \in Rep : Count(cb[r], w) = IF pt[w] = r THEN 1 ELSE 0

\* The frame stk[i] destroys the list of o.
Notifies(stk, i, o) == stk[i].op = "notify" /\ stk[i].of = o

Typed(stk) ==
    \A i \in DOMAIN stk :
        /\ stk[i].op = "notify" => stk[i].of \in Object /\ stk[i].at >= 1 /\ i < MaxStack
        /\ stk[i].op \in {"invalidate", "destroy", "delete"} => stk[i].of \in Rep

\* One destructor runs for a list; and none for the source of a move
\* assignment yet, but for those that end before that notifies it.
Walks(stk, cl) ==
    \A i \in DOMAIN stk, o \in Object : Notifies(stk, i, o) =>
        /\ o \in cl
        /\ \A j \in DOMAIN stk : Notifies(stk, j, o) => j = i
        /\ \A src \in Object : stk[i].after = <<src>> =>
              \A j \in DOMAIN stk : Notifies(stk, j, src) => j > i

\* A callback of a slot_rep that the destructor of a list has passed is being
\* executed further up.
Called(stk, cb) ==
    \A i \in DOMAIN stk, o \in Object, r \in Rep :
        Notifies(stk, i, o) =>
            \A k \in Matches(cb[o], r) : k < stk[i].at =>
                \E j \in DOMAIN stk : j > i /\ stk[j].op = "invalidate" /\ stk[j].of = r

\* The functor whose destructor runs is not bound again.
Losing(stk, fn, rp) ==
    \A i \in DOMAIN stk : stk[i].op \in {"destroy", "delete"} =>
        fn[stk[i].of] # "held" /\ rp[stk[i].of] # "none"

\* The frame stk[i] has a weak pointer to its slot_rep, its notifier.
Notifying(stk, i) == stk[i].op \in {"invalidate", "destroy"}

Notifiers(stk, pt, rp) ==
    /\ \A i \in 1 .. MaxStack : pt[i] # Null =>
          i \in DOMAIN stk /\ Notifying(stk, i) /\ stk[i].of = pt[i]
    /\ \A i \in DOMAIN stk : Notifying(stk, i) =>
          i <= MaxStack /\ (pt[i] = stk[i].of \/ rp[stk[i].of] = "freed")

BaseInv ==
    /\ TypeInv
    /\ Installed(callbacks)
    /\ Referred(callbacks, functor)
    /\ Held(functor, rep)
    /\ Emptied(callbacks, dead)
    /\ Watched(callbacks, pointer, rep)
    /\ Typed(stack)
    /\ Walks(stack, clearing)
    /\ Called(stack, callbacks)
    /\ Losing(stack, functor, rep)
    /\ Notifiers(stack, pointer, rep)

-----------------------------------------------------------------------------
(***************************************************************************)
(* The stack.                                                              *)
(***************************************************************************)
LEMMA PushFacts ==
    ASSUME NEW stk \in Seq(Frame), NEW f \in Frame
    PROVE  /\ Append(stk, f) \in Seq(Frame)
           /\ Len(stk) \in Nat
           /\ DOMAIN stk = 1 .. Len(stk)
           /\ DOMAIN Append(stk, f) = 1 .. Len(stk) + 1
           /\ Append(stk, f)[Len(stk) + 1] = f
           /\ \A k \in 1 .. Len(stk) : Append(stk, f)[k] = stk[k]
  OBVIOUS

LEMMA TopFacts ==
    ASSUME stack \in Seq(Frame), stack # <<>>
    PROVE  /\ Caller \in Seq(Frame)
           /\ Len(stack) \in Nat \ {0}
           /\ DOMAIN stack = 1 .. Len(stack)
           /\ DOMAIN Caller = 1 .. Len(stack) - 1
           /\ \A k \in 1 .. Len(stack) - 1 : Caller[k] = stack[k]
           /\ Top = stack[Len(stack)]
           /\ Top \in Frame
           /\ Len(Caller) = Len(stack) - 1
  <1>1. Len(stack) \in Nat \ {0} /\ DOMAIN stack = 1 .. Len(stack)
    BY LenProperties, EmptySeq
  <1>2. \A k \in 1 .. Len(stack) : stack[k] \in Frame
    BY ElementOfSeq
  <1>3. /\ Caller \in Seq(Frame)
        /\ Len(Caller) = Len(stack) - 1
        /\ \A k \in 1 .. Len(stack) - 1 : Caller[k] = stack[k]
    BY <1>1, <1>2, SubSeqProperties DEF Caller
  <1>4. DOMAIN Caller = 1 .. Len(stack) - 1
    BY <1>3, LenProperties
  <1>5. Top = stack[Len(stack)] /\ Top \in Frame
    BY <1>1, <1>2 DEF Top
  <1>6. QED
    BY <1>1, <1>3, <1>4, <1>5

LEMMA FrameFacts ==
    /\ \A r \in Rep, op \in {"invalidate", "destroy", "delete"} :
          Call(op, r) \in Frame /\ Call(op, r).op = op /\ Call(op, r).of = r
    /\ \A d \in Data : Call("user", d) \in Frame /\ Call("user", d).op = "user"
    /\ \A o \in Object :
          /\ Call("notify", o) \in Frame
          /\ Call("notify", o).op = "notify" /\ Call("notify", o).of = o
          /\ Call("notify", o).at = 1 /\ Call("notify", o).after = <<>>
    /\ Top \in Frame =>
          /\ Next1 \in Frame /\ Next1.op = Top.op /\ Next1.of = Top.of
          /\ Next1.at = Top.at + 1 /\ Next1.after = Top.after
  BY EmptySeq DEF Frame, Call, Next1

\* That the frame f may be pushed on stk.
Fits(f, stk, cl) ==
    /\ f.op = "notify" =>
          /\ f.of \in Object /\ f.of \in cl /\ f.at >= 1
          /\ Len(stk) + 1 < MaxStack
          /\ \A j \in DOMAIN stk : ~Notifies(stk, j, f.of)
          /\ \A src \in Object : f.after = <<src>> =>
                src # f.of /\ \A j \in DOMAIN stk : ~Notifies(stk, j, src)
    /\ f.op \in {"invalidate", "destroy", "delete"} => f.of \in Rep

LEMMA PushWalks ==
    ASSUME NEW stk \in Seq(Frame), NEW f \in Frame, NEW cl,
           Typed(stk), Walks(stk, cl), Fits(f, stk, cl)
    PROVE  Typed(Append(stk, f)) /\ Walks(Append(stk, f), cl)
  <1>1. PICK new : new = Append(stk, f)
    OBVIOUS
  <1>2. PICK n \in Nat : n = Len(stk)
    BY PushFacts
  <1>3. /\ DOMAIN stk = 1 .. n
        /\ DOMAIN new = 1 .. n + 1
        /\ new[n + 1] = f
        /\ \A k \in 1 .. n : new[k] = stk[k]
        /\ \A k \in 1 .. n + 1 : k = n + 1 \/ k \in 1 .. n
        /\ \A k \in 1 .. n : k # n + 1 /\ n + 1 > k
    BY <1>1, <1>2, PushFacts
  <1>4. Typed(new)
    <2>1. f.op = "notify" => f.of \in Object /\ f.at >= 1 /\ n + 1 < MaxStack
      BY <1>2 DEF Fits
    <2>2. f.op \in {"invalidate", "destroy", "delete"} => f.of \in Rep
      BY DEF Fits
    <2>3. QED
      BY <1>3, <2>1, <2>2 DEF Typed
  <1>5. \A k \in 1 .. n : \A o : Notifies(new, k, o) <=> Notifies(stk, k, o)
    BY <1>3 DEF Notifies
  <1>6. \A o : Notifies(new, n + 1, o) <=> f.op = "notify" /\ f.of = o
    BY <1>3 DEF Notifies
  <1>7. ASSUME NEW i \in 1 .. n, NEW o \in Object, Notifies(new, i, o)
        PROVE  /\ o \in cl
               /\ \A j \in DOMAIN new : Notifies(new, j, o) => j = i
               /\ \A src \in Object : new[i].after = <<src>> =>
                     \A j \in DOMAIN new : Notifies(new, j, src) => j > i
    <2>1. Notifies(stk, i, o) /\ i \in DOMAIN stk
      BY <1>3, <1>5, <1>7
    <2>2. /\ o \in cl
          /\ \A j \in 1 .. n : Notifies(stk, j, o) => j = i
          /\ \A src \in Object : stk[i].after = <<src>> =>
                \A j \in 1 .. n : Notifies(stk, j, src) => j > i
      BY <1>3, <2>1 DEF Walks
    <2>3. ~Notifies(new, n + 1, o)
      BY <1>6, <2>1 DEF Fits
    <2>4. \A j \in DOMAIN new : Notifies(new, j, o) => j = i
      BY <1>3, <1>5, <2>2, <2>3
    <2>5. ASSUME NEW src \in Object, new[i].after = <<src>>,
                 NEW j \in DOMAIN new, Notifies(new, j, src)
          PROVE  j > i
      <3>1. j = n + 1 \/ j \in 1 .. n
        BY <1>3
      <3>2. CASE j = n + 1
        BY <1>3, <3>2
      <3>3. CASE j \in 1 .. n
        BY <1>3, <1>5, <2>2, <2>5, <3>3
      <3>4. QED
        BY <3>1, <3>2, <3>3
    <2>6. QED
      BY <2>2, <2>4, <2>5
  <1>8. ASSUME NEW o \in Object, Notifies(new, n + 1, o)
        PROVE  /\ o \in cl
               /\ \A j \in DOMAIN new : Notifies(new, j, o) => j = n + 1
               /\ \A src \in Object : new[n + 1].after = <<src>> =>
                     \A j \in DOMAIN new : Notifies(new, j, src) => j > n + 1
    <2>1. f.op = "notify" /\ f.of = o
      BY <1>6, <1>8
    <2>2. /\ o \in cl
          /\ \A j \in 1 .. n : ~Notifies(stk, j, o)
          /\ \A src \in Object : f.after = <<src>> =>
                src # o /\ \A j \in 1 .. n : ~Notifies(stk, j, src)
      BY <1>3, <2>1 DEF Fits
    <2>3. \A j \in DOMAIN new : Notifies(new, j, o) => j = n + 1
      BY <1>3, <1>5, <2>2
    <2>4. \A src \in Object : f.after = <<src>> =>
              \A j \in DOMAIN new : ~Notifies(new, j, src)
      BY <1>3, <1>5, <1>6, <2>1, <2>2
    <2>5. QED
      BY <1>3, <2>2, <2>3, <2>4
  <1>9. Walks(new, cl)
    BY <1>3, <1>7, <1>8 DEF Walks
  <1>10. QED
    BY <1>1, <1>4, <1>9

LEMMA PopWalks ==
    ASSUME stack \in Seq(Frame), stack # <<>>, NEW cl,
           Typed(stack), Walks(stack, cl)
    PROVE  /\ Typed(Caller)
           /\ Walks(Caller, cl)
           /\ Top.op = "notify" => Walks(Caller, cl \ {Top.of})
           /\ \A j \in DOMAIN Caller : \A o : Notifies(Caller, j, o) => Notifies(stack, j, o)
  <1>1. PICK n : n = Len(stack)
    OBVIOUS
  <1>2. /\ n \in Nat \ {0}
        /\ DOMAIN stack = 1 .. n
        /\ DOMAIN Caller = 1 .. n - 1
        /\ \A k \in 1 .. n - 1 : Caller[k] = stack[k]
        /\ Top = stack[n]
    BY <1>1, TopFacts
  <1>3. \A k \in 1 .. n - 1 : \A o : Notifies(Caller, k, o) <=> Notifies(stack, k, o)
    BY <1>2 DEF Notifies
  <1>4. \A k \in 1 .. n - 1 : k \in 1 .. n /\ k # n
    BY <1>2
  <1>5. Typed(Caller)
    BY <1>2, <1>4 DEF Typed
  <1>6. Walks(Caller, cl)
    BY <1>2, <1>3, <1>4 DEF Walks
  <1>7. ASSUME Top.op = "notify"
        PROVE  Walks(Caller, cl \ {Top.of})
    <2>1. Notifies(stack, n, Top.of) /\ Top.of \in Object /\ n \in DOMAIN stack
      BY <1>2, <1>7 DEF Notifies, Typed
    <2>2. \A k \in 1 .. n - 1 : ~Notifies(Caller, k, Top.of)
      BY <1>2, <1>3, <1>4, <2>1 DEF Walks
    <2>3. QED
      BY <1>2, <1>6, <2>2 DEF Walks
  <1>8. QED
    BY <1>2, <1>3, <1>5, <1>6, <1>7

\* What the destructor of a list has not reached yet is not being executed.
NotPassed(f, cb) ==
    f.op = "notify" => \A r \in Rep : \A k \in Matches(cb[f.of], r) : ~(k < f.at)

LEMMA CalledPush ==
    ASSUME NEW stk \in Seq(Frame), NEW f \in Frame, NEW cb,
           Called(stk, cb), NotPassed(f, cb)
    PROVE  Called(Append(stk, f), cb)
  <1>1. PICK new : new = Append(stk, f)
    OBVIOUS
  <1>2. PICK n \in Nat : n = Len(stk)
    BY PushFacts
  <1>3. /\ DOMAIN stk = 1 .. n
        /\ DOMAIN new = 1 .. n + 1
        /\ new[n + 1] = f
        /\ \A k \in 1 .. n : new[k] = stk[k]
        /\ \A k \in 1 .. n + 1 : k = n + 1 \/ k \in 1 .. n
        /\ \A k \in 1 .. n : k \in 1 .. n + 1
    BY <1>1, <1>2, PushFacts
  <1>4. ASSUME NEW i \in DOMAIN new, NEW o \in Object, NEW r \in Rep,
               Notifies(new, i, o), NEW k \in Matches(cb[o], r), k < new[i].at
        PROVE  \E j \in DOMAIN new : j > i /\ new[j].op = "invalidate" /\ new[j].of = r
    <2>1. i # n + 1
      BY <1>3, <1>4 DEF Notifies, NotPassed
    <2>2. i \in DOMAIN stk /\ Notifies(stk, i, o) /\ k < stk[i].at
      BY <1>3, <1>4, <2>1 DEF Notifies
    <2>3. PICK j \in DOMAIN stk : j > i /\ stk[j].op = "invalidate" /\ stk[j].of = r
      BY <2>2 DEF Called
    <2>4. QED
      BY <1>3, <2>3
  <1>5. QED
    BY <1>1, <1>4 DEF Called

\* The destructor of a list has called the callback of a slot_rep.
LEMMA CalledInvoke ==
    ASSUME NEW stk \in Seq(Frame), NEW f \in Frame, NEW g \in Frame, NEW cb,
           Called(stk, cb), f.op = "notify", g.op = "invalidate",
           \A r \in Rep : \A k \in Matches(cb[f.of], r) : k < f.at => r = g.of
    PROVE  Called(Append(Append(stk, f), g), cb)
  <1>1. PICK mid : mid = Append(stk, f)
    OBVIOUS
  <1>2. PICK new : new = Append(mid, g)
    OBVIOUS
  <1>3. PICK n \in Nat : n = Len(stk)
    BY PushFacts
  <1>4. /\ DOMAIN stk = 1 .. n
        /\ DOMAIN mid = 1 .. n + 1
        /\ mid[n + 1] = f
        /\ \A k \in 1 .. n : mid[k] = stk[k]
        /\ mid \in Seq(Frame)
    BY <1>1, <1>3, PushFacts
  <1>5. Len(mid) = n + 1
    BY <1>4, LenProperties
  <1>6. /\ DOMAIN new = 1 .. n + 2
        /\ new[n + 2] = g
        /\ \A k \in 1 .. n + 1 : new[k] = mid[k]
    BY <1>2, <1>4, <1>5, PushFacts
  <1>7. /\ \A k \in 1 .. n : new[k] = stk[k] /\ k \in 1 .. n + 2
        /\ new[n + 1] = f /\ n + 2 \in 1 .. n + 2 /\ n + 2 > n + 1
        /\ \A k \in 1 .. n + 2 : k = n + 1 \/ k = n + 2 \/ k \in 1 .. n
    BY <1>4, <1>6
  <1>8. ASSUME NEW i \in DOMAIN new, NEW o \in Object, NEW r \in Rep,
               Notifies(new, i, o), NEW k \in Matches(cb[o], r), k < new[i].at
        PROVE  \E j \in DOMAIN new : j > i /\ new[j].op = "invalidate" /\ new[j].of = r
    <2>1. CASE i = n + 1
      <3>1. r = g.of
        BY <1>7, <1>8, <2>1 DEF Notifies
      <3>2. QED
        BY <1>6, <1>7, <2>1, <3>1
    <2>2. CASE i = n + 2
      BY <1>6, <1>8, <2>2 DEF Notifies
    <2>3. CASE i \in 1 .. n
      <3>1. i \in DOMAIN stk /\ Notifies(stk, i, o) /\ k < stk[i].at
        BY <1>4, <1>7, <1>8, <2>3 DEF Notifies
      <3>2. PICK j \in DOMAIN stk : j > i /\ stk[j].op = "invalidate" /\ stk[j].of = r
        BY <3>1 DEF Called
      <3>3. QED
        BY <1>4, <1>6, <1>7, <3>2
    <2>4. QED
      BY <1>6, <1>7, <2>1, <2>2, <2>3
  <1>9. QED
    BY <1>1, <1>2, <1>8 DEF Called

LEMMA CalledPop ==
    ASSUME stack \in Seq(Frame), stack # <<>>, NEW cb, Called(stack, cb),
           Top.op = "invalidate" => \A o \in Object : Matches(cb[o], Top.of) = {}
    PROVE  Called(Caller, cb)
  <1>1. PICK n : n = Len(stack)
    OBVIOUS
  <1>2. /\ n \in Nat \ {0}
        /\ DOMAIN stack = 1 .. n
        /\ DOMAIN Caller = 1 .. n - 1
        /\ \A k \in 1 .. n - 1 : Caller[k] = stack[k]
        /\ Top = stack[n]
    BY <1>1, TopFacts
  <1>3. ASSUME NEW i \in DOMAIN Caller, NEW o \in Object, NEW r \in Rep,
               Notifies(Caller, i, o), NEW k \in Matches(cb[o], r), k < Caller[i].at
        PROVE  \E j \in DOMAIN Caller :
                  j > i /\ Caller[j].op = "invalidate" /\ Caller[j].of = r
    <2>1. i \in DOMAIN stack /\ Notifies(stack, i, o) /\ k < stack[i].at
      BY <1>2, <1>3 DEF Notifies
    <2>2. PICK j \in DOMAIN stack : j > i /\ stack[j].op = "invalidate" /\ stack[j].of = r
      BY <2>1 DEF Called
    <2>3. j # n
      BY <1>2, <1>3, <2>2
    <2>4. j \in 1 .. n - 1
      BY <1>2, <2>2, <2>3
    <2>5. QED
      BY <1>2, <2>2, <2>4
  <1>4. QED
    BY <1>3 DEF Called

LEMMA CalledMono ==
    ASSUME NEW stk, NEW cl, NEW cb, NEW cb2, Walks(stk, cl), Called(stk, cb),
           \A o \in Object, r \in Rep :
              o \in cl => Matches(cb2[o], r) \subseteq Matches(cb[o], r)
    PROVE  Called(stk, cb2)
  <1>1. ASSUME NEW i \in DOMAIN stk, NEW o \in Object, NEW r \in Rep,
               Notifies(stk, i, o), NEW k \in Matches(cb2[o], r)
        PROVE  k \in Matches(cb[o], r)
    BY <1>1 DEF Walks
  <1>2. QED
    BY <1>1 DEF Called

\* Nothing is above the top of the stack.
LEMMA CalledTop ==
    ASSUME stack \in Seq(Frame), TopIs("notify"), Typed(stack), NEW cb, Called(stack, cb)
    PROVE  NotPassed(Top, cb)
  <1>1. stack # <<>> /\ Top.op = "notify"
    BY DEF TopIs
  <1>2. PICK n : n = Len(stack)
    OBVIOUS
  <1>3. n \in Nat /\ DOMAIN stack = 1 .. n /\ n \in DOMAIN stack /\ Top = stack[n]
    BY <1>1, <1>2, TopFacts
  <1>4. Notifies(stack, n, Top.of) /\ Top.of \in Object
    BY <1>1, <1>3 DEF Notifies, Typed
  <1>5. \A j \in DOMAIN stack : ~(j > n)
    BY <1>3
  <1>6. QED
    BY <1>3, <1>4, <1>5 DEF Called, NotPassed

LEMMA NotifiersPush ==
    ASSUME NEW stk \in Seq(Frame), NEW f \in Frame, NEW pt, NEW pt2, NEW rp,
           Notifiers(stk, pt, rp),
           \A i \in 1 .. MaxStack : i # Len(stk) + 1 => pt2[i] = pt[i],
           IF f.op \in {"invalidate", "destroy"}
           THEN Len(stk) + 1 <= MaxStack /\ f.of # Null /\ pt2[Len(stk) + 1] = f.of
           ELSE pt2 = pt
    PROVE  Notifiers(Append(stk, f), pt2, rp)
  <1>1. PICK new : new = Append(stk, f)
    OBVIOUS
  <1>2. PICK n \in Nat : n = Len(stk)
    BY PushFacts
  <1>3. /\ DOMAIN stk = 1 .. n
        /\ DOMAIN new = 1 .. n + 1
        /\ new[n + 1] = f
        /\ \A k \in 1 .. n : new[k] = stk[k] /\ k # n + 1
        /\ \A k \in 1 .. n + 1 : k = n + 1 \/ k \in 1 .. n
        /\ \A k \in 1 .. n : k \in 1 .. n + 1
    BY <1>1, <1>2, PushFacts
  <1>4. Notifying(new, n + 1) <=> f.op \in {"invalidate", "destroy"}
    BY <1>3 DEF Notifying
  <1>5. \A i \in 1 .. n : Notifying(new, i) <=> Notifying(stk, i)
    BY <1>3 DEF Notifying
  <1>6. ASSUME NEW i \in 1 .. MaxStack, pt2[i] # Null
        PROVE  i \in DOMAIN new /\ Notifying(new, i) /\ new[i].of = pt2[i]
    <2>1. CASE i = n + 1 /\ Notifying(new, n + 1)
      BY <1>2, <1>3, <1>4, <2>1
    <2>2. CASE ~(i = n + 1 /\ Notifying(new, n + 1))
      <3>1. pt2[i] = pt[i]
        BY <1>2, <1>4, <2>2
      <3>2. i \in DOMAIN stk /\ Notifying(stk, i) /\ stk[i].of = pt[i]
        BY <1>6, <3>1 DEF Notifiers
      <3>3. QED
        BY <1>3, <1>5, <3>1, <3>2
    <2>3. QED
      BY <2>1, <2>2
  <1>7. ASSUME NEW i \in DOMAIN new, Notifying(new, i)
        PROVE  i <= MaxStack /\ (pt2[i] = new[i].of \/ rp[new[i].of] = "freed")
    <2>1. CASE i = n + 1
      BY <1>2, <1>3, <1>4, <1>7, <2>1
    <2>2. CASE i \in 1 .. n
      <3>1. i <= MaxStack /\ (pt[i] = stk[i].of \/ rp[stk[i].of] = "freed")
        BY <1>3, <1>5, <1>7, <2>2 DEF Notifiers
      <3>2. pt2[i] = pt[i]
        BY <1>2, <1>3, <2>2, <3>1, BoundAssumption
      <3>3. QED
        BY <1>3, <2>2, <3>1, <3>2
    <2>3. QED
      BY <1>3, <2>1, <2>2
  <1>8. QED
    BY <1>1, <1>6, <1>7 DEF Notifiers

LEMMA NotifiersPop ==
    ASSUME stack \in Seq(Frame), stack # <<>>, NEW pt, NEW pt2, NEW rp,
           Notifiers(stack, pt, rp),
           \A i \in 1 .. MaxStack : i # Len(stack) => pt2[i] = pt[i],
           Len(stack) \in 1 .. MaxStack => pt2[Len(stack)] = Null
    PROVE  Notifiers(Caller, pt2, rp)
  <1>1. PICK n : n = Len(stack)
    OBVIOUS
  <1>2. /\ n \in Nat \ {0}
        /\ DOMAIN stack = 1 .. n
        /\ DOMAIN Caller = 1 .. n - 1
        /\ \A k \in 1 .. n - 1 : Caller[k] = stack[k]
        /\ \A k \in 1 .. n : k # n => k \in 1 .. n - 1
        /\ \A k \in 1 .. n - 1 : k # n /\ k \in 1 .. n
    BY <1>1, TopFacts
  <1>3. \A i \in 1 .. n - 1 : Notifying(Caller, i) <=> Notifying(stack, i)
    BY <1>2 DEF Notifying
  <1>4. ASSUME NEW i \in 1 .. MaxStack, pt2[i] # Null
        PROVE  i \in DOMAIN Caller /\ Notifying(Caller, i) /\ Caller[i].of = pt2[i]
    <2>1. i # n /\ pt2[i] = pt[i]
      BY <1>1, <1>4
    <2>2. i \in DOMAIN stack /\ Notifying(stack, i) /\ stack[i].of = pt[i]
      BY <1>4, <2>1 DEF Notifiers
    <2>3. QED
      BY <1>2, <1>3, <2>1, <2>2
  <1>5. ASSUME NEW i \in DOMAIN Caller, Notifying(Caller, i)
        PROVE  i <= MaxStack /\ (pt2[i] = Caller[i].of \/ rp[Caller[i].of] = "freed")
    <2>1. i <= MaxStack /\ (pt[i] = stack[i].of \/ rp[stack[i].of] = "freed")
      BY <1>2, <1>3, <1>5 DEF Notifiers
    <2>2. pt2[i] = pt[i]
      BY <1>1, <1>2, <2>1, BoundAssumption
    <2>3. QED
      BY <1>2, <2>1, <2>2
  <1>6. QED
    BY <1>4, <1>5 DEF Notifiers

\* The pointer of a frame that is no invalidation is null.
LEMMA NoNotifier ==
    ASSUME stack \in Seq(Frame), stack # <<>>, NEW pt, NEW rp,
           Notifiers(stack, pt, rp), Top.op \notin {"invalidate", "destroy"}
    PROVE  Len(stack) \in 1 .. MaxStack => pt[Len(stack)] = Null
  <1>1. Top = stack[Len(stack)]
    BY TopFacts
  <1>2. QED
    BY <1>1 DEF Notifiers, Notifying

LEMMA LosingPush ==
    ASSUME NEW stk \in Seq(Frame), NEW f \in Frame, NEW fn, NEW rp,
           Losing(stk, fn, rp),
           f.op \in {"destroy", "delete"} => fn[f.of] # "held" /\ rp[f.of] # "none"
    PROVE  Losing(Append(stk, f), fn, rp)
  <1>1. PICK new : new = Append(stk, f)
    OBVIOUS
  <1>2. PICK n \in Nat : n = Len(stk)
    BY PushFacts
  <1>3. /\ DOMAIN stk = 1 .. n
        /\ DOMAIN new = 1 .. n + 1
        /\ new[n + 1] = f
        /\ \A k \in 1 .. n : new[k] = stk[k]
        /\ \A k \in 1 .. n + 1 : k = n + 1 \/ k \in 1 .. n
    BY <1>1, <1>2, PushFacts
  <1>4. QED
    BY <1>1, <1>3 DEF Losing

LEMMA LosingPop ==
    ASSUME stack \in Seq(Frame), stack # <<>>, NEW fn, NEW rp, Losing(stack, fn, rp)
    PROVE  Losing(Caller, fn, rp)
  <1>1. PICK n : n = Len(stack)
    OBVIOUS
  <1>2. /\ n \in Nat \ {0}
        /\ DOMAIN stack = 1 .. n
        /\ DOMAIN Caller = 1 .. n - 1
        /\ \A k \in 1 .. n - 1 : Caller[k] = stack[k] /\ k \in 1 .. n
    BY <1>1, TopFacts
  <1>3. QED
    BY <1>2 DEF Losing

\* The pointers of the stack are told of the slot_reps that are freed.
PointersTold(pt, pt2, rp2) ==
    \A i \in 1 .. MaxStack :
        pt2[i] = pt[i] \/ (pt2[i] = Null /\ rp2[pt[i]] = "freed")

\* A slot_rep that has been freed, or created, is not what it was before.
RepsGoOn(rp, rp2) ==
    \A q \in Rep : /\ rp[q] = "freed" => rp2[q] = "freed"
                   /\ rp[q] # "none" => rp2[q] # "none"

\* A slot_rep gets its functor when it is created, and only then.
NeverBoundAgain(fn, fn2, rp) ==
    \A q \in Rep : fn[q] # "held" /\ rp[q] # "none" => fn2[q] # "held"

\* Other slot_reps are created and freed meanwhile, and those that are freed
\* tell the pointers to them.
LEMMA NotifiersGoOn ==
    ASSUME NEW stk \in Seq(Frame), NEW pt, NEW pt2, NEW rp, NEW rp2, Typed(stk),
           Notifiers(stk, pt, rp), PointersTold(pt, pt2, rp2), RepsGoOn(rp, rp2)
    PROVE  Notifiers(stk, pt2, rp2)
  <1>1. ASSUME NEW i \in 1 .. MaxStack, pt2[i] # Null
        PROVE  i \in DOMAIN stk /\ Notifying(stk, i) /\ stk[i].of = pt2[i]
    BY <1>1 DEF Notifiers, PointersTold
  <1>2. ASSUME NEW i \in DOMAIN stk, Notifying(stk, i)
        PROVE  i <= MaxStack /\ (pt2[i] = stk[i].of \/ rp2[stk[i].of] = "freed")
    <2>1. i <= MaxStack /\ (pt[i] = stk[i].of \/ rp[stk[i].of] = "freed")
      BY <1>2 DEF Notifiers
    <2>2. i \in 1 .. MaxStack
      <3>1. i \in 1 .. Len(stk) /\ Len(stk) \in Nat
        OBVIOUS
      <3>2. QED
        BY <2>1, <3>1, BoundAssumption
    <2>3. stk[i].of \in Rep
      BY <1>2 DEF Typed, Notifying
    <2>4. QED
      BY <2>1, <2>2, <2>3 DEF PointersTold, RepsGoOn
  <1>3. QED
    BY <1>1, <1>2 DEF Notifiers

LEMMA LosingGoesOn ==
    ASSUME NEW stk, NEW fn, NEW fn2, NEW rp, NEW rp2, Typed(stk),
           Losing(stk, fn, rp), RepsGoOn(rp, rp2), NeverBoundAgain(fn, fn2, rp)
    PROVE  Losing(stk, fn2, rp2)
  BY DEF Losing, Typed, RepsGoOn, NeverBoundAgain

-----------------------------------------------------------------------------
(***************************************************************************)
(* What the operations do to the lists.                                    *)
(***************************************************************************)
\* Users neither register with an object that is being notified nor notify it
\* again.
WellUsed == ~AddWhileNotified /\ ~Reenter

LEMMA BindFacts ==
    ASSUME WellUsed, BaseInv, NEW r \in Rep, functor[r] # "held",
           \A o \in Object : Times[r][o] > 0 => Usable(o)
    PROVE  /\ Bind(r) \in [Trackables -> Seq(Callback)]
           /\ Installed(Bind(r))
           /\ \A q \in Rep : Bind(r)[q] = callbacks[q]
           /\ \A o \in clearing \cup dead : Bind(r)[o] = callbacks[o]
           /\ \A o \in Object : Count(Bind(r)[o], r) = Times[r][o]
           /\ \A o \in Object : \A d : d # r => Matches(Bind(r)[o], d) = Matches(callbacks[o], d)
  <1>1. callbacks \in [Trackables -> Seq(Callback)] /\ Installed(callbacks)
    BY DEF BaseInv, TypeInv
  <1>2. Object \subseteq Trackables /\ Rep \subseteq Trackables
    BY DEF Trackables
  <1>3. \A o \in Object : Times[r][o] \in Nat
    BY ClientAssumption
  <1>4. ASSUME NEW o \in Object
        PROVE  /\ Bind(r)[o] \in Seq(Callback)
               /\ DataIn(Bind(r)[o], Rep \cup Data)
               /\ o \in clearing \cup dead => Bind(r)[o] = callbacks[o]
               /\ Count(Bind(r)[o], r) = Times[r][o]
               /\ \A d : d # r => Matches(Bind(r)[o], d) = Matches(callbacks[o], d)
    <2>1. PICK n \in Nat : n = Times[r][o]
      BY <1>3
    <2>2. Bind(r)[o] = Added(o, r, n) /\ o \in Trackables
      BY <1>2, <2>1 DEF Bind
    <2>3. /\ Added(o, r, n) \in Seq(Callback)
          /\ \A D : r \in D /\ DataIn(callbacks[o], D) => DataIn(Added(o, r, n), D)
          /\ \A d : d # r => Matches(Added(o, r, n), d) = Matches(callbacks[o], d)
          /\ o \notin clearing => Count(Added(o, r, n), r) = Count(callbacks[o], r) + n
          /\ o \in clearing \/ n = 0 => Added(o, r, n) = callbacks[o]
      BY <1>1, <2>2, AddedFacts
    <2>4. Count(callbacks[o], r) = 0
      BY DEF BaseInv, Referred
    <2>5. n = 0 \/ (o \notin clearing /\ o \notin dead)
      BY <2>1 DEF Usable, WellUsed
    <2>6. DataIn(callbacks[o], Rep \cup Data)
      BY <1>1 DEF Installed
    <2>7. Count(Added(o, r, n), r) = n
      BY <2>3, <2>4, <2>5
    <2>8. DataIn(Added(o, r, n), Rep \cup Data)
      BY <2>3, <2>6
    <2>9. QED
      BY <2>1, <2>2, <2>3, <2>5, <2>7, <2>8
  <1>5. \A q \in Rep : Bind(r)[q] = callbacks[q]
    BY <1>2, ClientAssumption DEF Bind
  <1>6. \A q \in Rep : Bind(r)[q] \in Seq(Callback)
    BY <1>1, <1>2, <1>5
  <1>7. Bind(r) \in [Trackables -> Seq(Callback)]
    <2>1. DOMAIN Bind(r) = Trackables /\ Bind(r) = [o \in Trackables |-> Bind(r)[o]]
      BY DEF Bind
    <2>2. QED
      BY <1>4, <1>6, <2>1 DEF Trackables
  <1>8. clearing \cup dead \subseteq Object
    BY DEF BaseInv, TypeInv
  <1>9. Installed(Bind(r))
    BY <1>4 DEF Installed
  <1>10. QED
    BY <1>4, <1>5, <1>7, <1>8, <1>9

LEMMA UnbindFacts ==
    ASSUME BaseInv, NEW r \in Rep, functor[r] = "held"
    PROVE  /\ Unbind(r) \in [Trackables -> Seq(Callback)]
           /\ Installed(Unbind(r))
           /\ \A q \in Rep : Unbind(r)[q] = callbacks[q]
           /\ \A o \in Object : Count(Unbind(r)[o], r) = 0
           /\ \A o \in Object : \A d : d # r => Count(Unbind(r)[o], d) = Count(callbacks[o], d)
           /\ Emptied(Unbind(r), dead)
           /\ \A o \in clearing :
                 /\ DOMAIN Unbind(r)[o] = DOMAIN callbacks[o]
                 /\ \A d : Matches(Unbind(r)[o], d) \subseteq Matches(callbacks[o], d)
                 /\ \A d : d # r => Matches(Unbind(r)[o], d) = Matches(callbacks[o], d)
  <1>1. callbacks \in [Trackables -> Seq(Callback)] /\ Installed(callbacks)
    BY DEF BaseInv, TypeInv
  <1>2. Object \subseteq Trackables /\ Rep \subseteq Trackables
    BY DEF Trackables
  <1>3. \A o \in Object : Times[r][o] \in Nat
    BY ClientAssumption
  <1>4. ASSUME NEW o \in Object
        PROVE  /\ Unbind(r)[o] \in Seq(Callback)
               /\ DataIn(Unbind(r)[o], Rep \cup Data)
               /\ Count(Unbind(r)[o], r) = 0
               /\ \A d : d # r => Count(Unbind(r)[o], d) = Count(callbacks[o], d)
               /\ callbacks[o] = <<>> => Unbind(r)[o] = <<>>
               /\ o \in clearing =>
                    /\ DOMAIN Unbind(r)[o] = DOMAIN callbacks[o]
                    /\ \A d : Matches(Unbind(r)[o], d) \subseteq Matches(callbacks[o], d)
                    /\ \A d : d # r => Matches(Unbind(r)[o], d) = Matches(callbacks[o], d)
    <2>1. PICK n \in Nat : n = Times[r][o]
      BY <1>3
    <2>2. PICK m : m = Unbind(r)[o]
      OBVIOUS
    <2>3. m = Removed(o, r, n) /\ o \in Trackables
      BY <1>2, <2>1, <2>2 DEF Unbind
    <2>4. /\ m \in Seq(Callback)
          /\ \A D : DataIn(callbacks[o], D) => DataIn(m, D)
          /\ \A e : e # r => Count(m, e) = Count(callbacks[o], e)
          /\ Count(callbacks[o], r) <= n => Count(m, r) = 0
          /\ o \in clearing =>
                /\ DOMAIN m = DOMAIN callbacks[o]
                /\ \A e : Matches(m, e) \subseteq Matches(callbacks[o], e)
                /\ \A e : e # r => Matches(m, e) = Matches(callbacks[o], e)
          /\ callbacks[o] = <<>> => m = <<>>
      BY <1>1, <2>3, RemovedFacts
    <2>5. Count(callbacks[o], r) = n
      BY <2>1 DEF BaseInv, Referred
    <2>6. Count(m, r) = 0
      BY <2>4, <2>5
    <2>7. DataIn(m, Rep \cup Data)
      BY <1>1, <2>4 DEF Installed
    <2>8. QED
      BY <2>2, <2>4, <2>6, <2>7
  <1>5. \A q \in Rep : Unbind(r)[q] = callbacks[q]
    BY <1>2, ClientAssumption DEF Unbind
  <1>6. \A q \in Rep : Unbind(r)[q] \in Seq(Callback)
    BY <1>1, <1>2, <1>5
  <1>7. Unbind(r) \in [Trackables -> Seq(Callback)]
    <2>1. DOMAIN Unbind(r) = Trackables /\ Unbind(r) = [o \in Trackables |-> Unbind(r)[o]]
      BY DEF Unbind
    <2>2. QED
      BY <1>4, <1>6, <2>1 DEF Trackables
  <1>8. clearing \subseteq Object /\ dead \subseteq Object /\ Emptied(callbacks, dead)
    BY DEF BaseInv, TypeInv
  <1>9. Installed(Unbind(r)) /\ Emptied(Unbind(r), dead)
    BY <1>4, <1>8 DEF Installed, Emptied
  <1>10. QED
    BY <1>4, <1>5, <1>7, <1>8, <1>9

\* ~weak_raw_ptr of the notifier at the top of the stack.
LEMMA DropFacts ==
    ASSUME BaseInv, stack # <<>>, Top.op \in {"invalidate", "destroy"},
           DropNotifier(callbacks)
    PROVE  /\ callbacks' \in [Trackables -> Seq(Callback)]
           /\ pointer' \in [WeakPtr -> Rep \cup {Null}]
           /\ \A o \in Object : callbacks'[o] = callbacks[o]
           /\ Watched(callbacks', pointer', rep)
           /\ \A i \in 1 .. MaxStack : i # Len(stack) => pointer'[i] = pointer[i]
           /\ Len(stack) \in 1 .. MaxStack => pointer'[Len(stack)] = Null
  <1>1. PICK n : n = Len(stack)
    OBVIOUS
  <1>2. stack \in Seq(Frame) /\ pointer \in [WeakPtr -> Rep \cup {Null}]
    BY DEF BaseInv, TypeInv
  <1>3. n \in DOMAIN stack /\ n \in Nat \ {0} /\ Top = stack[n]
    BY <1>1, <1>2, TopFacts
  <1>4. n \in 1 .. MaxStack /\ n \in WeakPtr
    <2>1. n <= MaxStack
      BY <1>3 DEF BaseInv, Notifiers, Notifying
    <2>2. QED
      BY <1>3, <2>1, BoundAssumption DEF WeakPtr
  <1>5. PICK p \in Rep \cup {Null} : p = pointer[n]
    BY <1>2, <1>4
  <1>6. /\ pointer' \in [WeakPtr -> Rep \cup {Null}]
        /\ pointer'[n] = Null
        /\ \A w \in WeakPtr \ {n} : pointer'[w] = pointer[w]
    BY <1>1, <1>2, <1>4 DEF DropNotifier
  <1>7. \A i \in 1 .. MaxStack : i # n => pointer'[i] = pointer[i]
    BY <1>6 DEF WeakPtr
  <1>8. callbacks \in [Trackables -> Seq(Callback)] /\ clearing \subseteq Object
    BY DEF BaseInv, TypeInv
  <1>9. Watched(callbacks, pointer, rep)
    BY DEF BaseInv
  <1>10. CASE p = Null
    <2>1. callbacks' = callbacks
      BY <1>1, <1>5, <1>10 DEF DropNotifier
    <2>2. pointer' = pointer
      BY <1>1, <1>2, <1>5, <1>10 DEF DropNotifier
    <2>3. QED
      BY <1>1, <1>6, <1>7, <1>8, <1>9, <2>1, <2>2
  <1>11. CASE p \in Rep
    <2>1. p # Null /\ p \notin clearing /\ p \in Trackables
      BY <1>8, <1>11, ClientAssumption DEF Trackables
    <2>2. callbacks' = [callbacks EXCEPT ![p] = KeepOthers(callbacks[p], FirstMatches(callbacks[p], n, 1))]
      BY <1>1, <1>5, <2>1 DEF DropNotifier
    <2>3. KeepOthers(callbacks[p], FirstMatches(callbacks[p], n, 1)) = Removed(p, n, 1)
      BY <2>1 DEF Removed
    <2>4. /\ Removed(p, n, 1) \in Seq(Callback)
          /\ \A e : e # n => Count(Removed(p, n, 1), e) = Count(callbacks[p], e)
          /\ Count(callbacks[p], n) <= 1 => Count(Removed(p, n, 1), n) = 0
      <3>1. 1 \in Nat
        OBVIOUS
      <3>2. QED
        BY <1>8, <2>1, <3>1, RemovedFacts
    <2>5. Count(callbacks[p], n) = 1
      BY <1>4, <1>5, <1>9, <1>11 DEF Watched
    <2>6. /\ callbacks' \in [Trackables -> Seq(Callback)]
          /\ \A o \in Trackables \ {p} : callbacks'[o] = callbacks[o]
          /\ Count(callbacks'[p], n) = 0
          /\ \A e : e # n => Count(callbacks'[p], e) = Count(callbacks[p], e)
      BY <1>8, <2>1, <2>2, <2>3, <2>4, <2>5
    <2>7. \A o \in Object : callbacks'[o] = callbacks[o]
      BY <1>11, <2>6, ClientAssumption DEF Trackables
    <2>8. ASSUME NEW w \in WeakPtr, NEW q \in Rep
          PROVE  Count(callbacks'[q], w) = IF pointer'[w] = q THEN 1 ELSE 0
      <3>1. Count(callbacks[q], w) = IF pointer[w] = q THEN 1 ELSE 0
        BY <1>9 DEF Watched
      <3>2. q # Null /\ q \in Trackables
        BY ClientAssumption DEF Trackables
      <3>3. CASE w = n
        <4>1. pointer'[w] # q
          BY <1>6, <3>2, <3>3
        <4>2. Count(callbacks'[q], w) = 0
          BY <1>5, <2>6, <3>1, <3>2, <3>3
        <4>3. QED
          BY <4>1, <4>2
      <3>4. CASE w # n
        <4>1. pointer'[w] = pointer[w]
          BY <1>6, <3>4
        <4>2. Count(callbacks'[q], w) = Count(callbacks[q], w)
          BY <2>6, <3>2, <3>4
        <4>3. QED
          BY <3>1, <4>1, <4>2
      <3>5. QED
        BY <3>3, <3>4
    <2>9. \A w \in WeakPtr : pointer'[w] # Null => rep[pointer'[w]] = "live"
      BY <1>6, <1>9 DEF Watched
    <2>10. QED
      BY <1>1, <1>6, <1>7, <2>6, <2>7, <2>8, <2>9 DEF Watched
  <1>12. QED
    BY <1>10, <1>11

\* The list of a slot_rep that is freed tells the pointers to it.
LEMMA FreeFacts ==
    ASSUME BaseInv, NEW r \in Rep, Free(r),
           callbacks' = [callbacks EXCEPT ![r] = <<>>]
    PROVE  /\ callbacks' \in [Trackables -> Seq(Callback)]
           /\ pointer' \in [WeakPtr -> Rep \cup {Null}]
           /\ rep' \in [Rep -> {"none", "live", "freed"}]
           /\ rep'[r] = "freed" /\ \A q \in Rep \ {r} : rep'[q] = rep[q]
           /\ \A o \in Object : callbacks'[o] = callbacks[o]
           /\ Watched(callbacks', pointer', rep')
           /\ PointersTold(pointer, pointer', rep')
  <1>1. /\ callbacks \in [Trackables -> Seq(Callback)]
        /\ pointer \in [WeakPtr -> Rep \cup {Null}]
        /\ rep \in [Rep -> {"none", "live", "freed"}]
        /\ Watched(callbacks, pointer, rep)
    BY DEF BaseInv, TypeInv
  <1>2. Rep \subseteq Trackables /\ Object \subseteq Trackables
    BY DEF Trackables
  <1>3. /\ callbacks' \in [Trackables -> Seq(Callback)]
        /\ callbacks'[r] = <<>>
        /\ \A o \in Trackables \ {r} : callbacks'[o] = callbacks[o]
    BY <1>1, <1>2, EmptySeq
  <1>4. \A o \in Object : callbacks'[o] = callbacks[o]
    BY <1>2, <1>3, ClientAssumption
  <1>5. /\ rep' \in [Rep -> {"none", "live", "freed"}]
        /\ rep'[r] = "freed" /\ \A q \in Rep \ {r} : rep'[q] = rep[q]
    BY <1>1 DEF Free
  <1>6. \A w \in WeakPtr : Matches(callbacks[r], w) # {} <=> pointer[w] = r
    <2>1. callbacks[r] \in Seq(Callback)
      BY <1>1, <1>2
    <2>2. \A w \in WeakPtr : Count(callbacks[r], w) = IF pointer[w] = r THEN 1 ELSE 0
      BY <1>1 DEF Watched
    <2>3. \A w \in WeakPtr : Count(callbacks[r], w) = 0 <=> Matches(callbacks[r], w) = {}
      BY <2>1, MatchesFacts
    <2>4. QED
      BY <2>2, <2>3
  <1>7. \A w \in WeakPtr : pointer'[w] = IF pointer[w] = r THEN Null ELSE pointer[w]
    BY <1>6 DEF Free
  <1>8. pointer' \in [WeakPtr -> Rep \cup {Null}]
    BY <1>1 DEF Free
  <1>9. PointersTold(pointer, pointer', rep')
    BY <1>5, <1>7 DEF PointersTold, WeakPtr
  <1>10. ASSUME NEW w \in WeakPtr, pointer'[w] # Null
         PROVE  rep'[pointer'[w]] = "live"
    <2>1. pointer'[w] = pointer[w] /\ pointer[w] # r
      BY <1>7, <1>10
    <2>2. pointer[w] \in Rep /\ rep[pointer[w]] = "live"
      BY <1>1, <1>10, <2>1 DEF Watched
    <2>3. QED
      BY <1>5, <2>1, <2>2
  <1>11. ASSUME NEW w \in WeakPtr, NEW q \in Rep
         PROVE  Count(callbacks'[q], w) = IF pointer'[w] = q THEN 1 ELSE 0
    <2>1. Count(callbacks[q], w) = IF pointer[w] = q THEN 1 ELSE 0
      BY <1>1 DEF Watched
    <2>2. q # Null
      BY ClientAssumption
    <2>3. CASE q = r
      <3>1. pointer'[w] # q
        BY <1>7, <2>2, <2>3
      <3>2. Matches(<<>>, w) = {}
        BY DEF Matches
      <3>3. QED
        BY <1>3, <2>3, <3>1, <3>2, FS_EmptySet DEF Count
    <2>4. CASE q # r
      <3>1. callbacks'[q] = callbacks[q]
        BY <1>2, <1>3, <2>4
      <3>2. pointer'[w] = q <=> pointer[w] = q
        BY <1>7, <2>2, <2>4
      <3>3. QED
        BY <2>1, <3>1, <3>2
    <2>5. QED
      BY <2>3, <2>4
  <1>12. QED
    BY <1>3, <1>4, <1>5, <1>8, <1>9, <1>10, <1>11 DEF Watched

-----------------------------------------------------------------------------
(***************************************************************************)
(* What user code does.                                                    *)
(***************************************************************************)
LEMMA NewSlotStep ==
    ASSUME WellUsed, BaseInv, NEW r \in Rep, NewSlot(r)
    PROVE  BaseInv'
  <1>1. /\ rep[r] = "none"
        /\ \A o \in Object : Times[r][o] > 0 => Usable(o)
        /\ rep' = [rep EXCEPT ![r] = "live"]
        /\ functor' = [functor EXCEPT ![r] = "held"]
        /\ callbacks' = Bind(r)
        /\ UNCHANGED <<clearing, dead, pointer, stack, owed>>
    BY DEF NewSlot
  <1>2. TypeInv /\ functor[r] # "held"
    BY <1>1 DEF BaseInv, Held
  <1>3. /\ rep' \in [Rep -> {"none", "live", "freed"}]
        /\ functor' \in [Rep -> {"none", "held", "dying"}]
        /\ rep'[r] = "live" /\ functor'[r] = "held"
        /\ \A q \in Rep \ {r} : rep'[q] = rep[q] /\ functor'[q] = functor[q]
    BY <1>1, <1>2 DEF TypeInv
  <1>4. /\ callbacks' \in [Trackables -> Seq(Callback)]
        /\ Installed(callbacks')
        /\ \A q \in Rep : callbacks'[q] = callbacks[q]
        /\ \A o \in clearing \cup dead : callbacks'[o] = callbacks[o]
        /\ \A o \in Object : Count(callbacks'[o], r) = Times[r][o]
        /\ \A o \in Object : \A d : d # r => Matches(callbacks'[o], d) = Matches(callbacks[o], d)
    BY <1>1, <1>2, BindFacts
  <1>5. TypeInv'
    BY <1>1, <1>2, <1>3, <1>4 DEF TypeInv
  <1>6. Referred(callbacks', functor')
    <2>1. ASSUME NEW q \in Rep, NEW o \in Object
          PROVE  Count(callbacks'[o], q) = IF functor'[q] = "held" THEN Times[q][o] ELSE 0
      <3>1. CASE q = r
        BY <1>3, <1>4, <3>1
      <3>2. CASE q # r
        <4>1. Count(callbacks'[o], q) = Count(callbacks[o], q)
          BY <1>4, <3>2 DEF Count
        <4>2. QED
          BY <1>3, <3>2, <4>1 DEF BaseInv, Referred
      <3>3. QED
        BY <3>1, <3>2
    <2>2. QED
      BY <2>1 DEF Referred
  <1>7. Held(functor', rep')
    BY <1>3 DEF BaseInv, Held
  <1>8. Emptied(callbacks', dead)
    BY <1>4 DEF BaseInv, Emptied
  <1>9. Watched(callbacks', pointer, rep')
    <2>1. Watched(callbacks, pointer, rep) /\ pointer \in [WeakPtr -> Rep \cup {Null}]
      BY <1>2 DEF BaseInv, TypeInv
    <2>2. QED
      BY <1>3, <1>4, <2>1 DEF Watched
  <1>10. Called(stack, callbacks')
    <2>1. Walks(stack, clearing) /\ Called(stack, callbacks)
      BY DEF BaseInv
    <2>2. \A o \in Object, q \in Rep :
              o \in clearing => Matches(callbacks'[o], q) \subseteq Matches(callbacks[o], q)
      BY <1>4
    <2>3. QED
      BY <2>1, <2>2, CalledMono
  <1>11. Notifiers(stack, pointer, rep') /\ Losing(stack, functor', rep')
    <2>1. /\ stack \in Seq(Frame) /\ Typed(stack)
          /\ Notifiers(stack, pointer, rep) /\ Losing(stack, functor, rep)
      BY <1>2 DEF BaseInv, TypeInv
    <2>2. PointersTold(pointer, pointer, rep')
      BY DEF PointersTold
    <2>3. RepsGoOn(rep, rep') /\ NeverBoundAgain(functor, functor', rep)
      BY <1>1, <1>3 DEF RepsGoOn, NeverBoundAgain
    <2>4. Notifiers(stack, pointer, rep')
      BY <2>1, <2>2, <2>3, NotifiersGoOn
    <2>5. Losing(stack, functor', rep')
      BY <2>1, <2>3, LosingGoesOn
    <2>6. QED
      BY <2>4, <2>5
  <1>12. QED
    BY <1>1, <1>4, <1>5, <1>6, <1>7, <1>8, <1>9, <1>10, <1>11 DEF BaseInv

\* The functor of r is unbound from all objects, before it is destroyed.
LEMMA LosesFunctor ==
    ASSUME BaseInv, NEW r \in Rep, functor[r] = "held",
           functor' = [functor EXCEPT ![r] = "dying"],
           callbacks' = Unbind(r),
           UNCHANGED <<clearing, dead, rep, pointer>>
    PROVE  /\ callbacks' \in [Trackables -> Seq(Callback)]
           /\ functor' \in [Rep -> {"none", "held", "dying"}]
           /\ Installed(callbacks')
           /\ Referred(callbacks', functor')
           /\ Held(functor', rep')
           /\ Emptied(callbacks', dead')
           /\ Watched(callbacks', pointer', rep')
           /\ Called(stack, callbacks')
           /\ Notifiers(stack, pointer', rep') /\ Losing(stack, functor', rep')
           /\ functor'[r] # "held" /\ rep'[r] # "none"
           /\ \A o \in Object : Matches(callbacks'[o], r) = {}
  <1>1. TypeInv
    BY DEF BaseInv
  <1>2. /\ functor' \in [Rep -> {"none", "held", "dying"}]
        /\ functor'[r] = "dying"
        /\ \A q \in Rep \ {r} : functor'[q] = functor[q]
    BY <1>1 DEF TypeInv
  <1>3. /\ callbacks' \in [Trackables -> Seq(Callback)]
        /\ Installed(callbacks')
        /\ \A q \in Rep : callbacks'[q] = callbacks[q]
        /\ \A o \in Object : Count(callbacks'[o], r) = 0
        /\ \A o \in Object : \A d : d # r => Count(callbacks'[o], d) = Count(callbacks[o], d)
        /\ Emptied(callbacks', dead)
        /\ \A o \in clearing : \A d : Matches(callbacks'[o], d) \subseteq Matches(callbacks[o], d)
    BY UnbindFacts
  <1>4. Referred(callbacks', functor')
    <2>1. ASSUME NEW q \in Rep, NEW o \in Object
          PROVE  Count(callbacks'[o], q) = IF functor'[q] = "held" THEN Times[q][o] ELSE 0
      <3>1. Count(callbacks[o], q) = IF functor[q] = "held" THEN Times[q][o] ELSE 0
        BY DEF BaseInv, Referred
      <3>2. CASE q = r
        BY <1>2, <1>3, <3>2
      <3>3. CASE q # r
        <4>1. Count(callbacks'[o], q) = Count(callbacks[o], q)
          BY <1>3, <3>3
        <4>2. functor'[q] = functor[q]
          BY <1>2, <3>3
        <4>3. QED
          BY <3>1, <4>1, <4>2
      <3>4. QED
        BY <3>2, <3>3
    <2>2. QED
      BY <2>1 DEF Referred
  <1>5. Held(functor', rep) /\ rep[r] = "live"
    BY <1>2 DEF BaseInv, Held
  <1>6. Watched(callbacks', pointer, rep)
    BY <1>3 DEF BaseInv, Watched
  <1>7. Called(stack, callbacks')
    <2>1. Walks(stack, clearing) /\ Called(stack, callbacks)
      BY DEF BaseInv
    <2>2. QED
      BY <1>3, <2>1, CalledMono
  <1>8. Notifiers(stack, pointer, rep) /\ Losing(stack, functor', rep)
    <2>1. /\ stack \in Seq(Frame) /\ Typed(stack)
          /\ Notifiers(stack, pointer, rep) /\ Losing(stack, functor, rep)
      BY <1>1 DEF BaseInv, TypeInv
    <2>2. RepsGoOn(rep, rep) /\ NeverBoundAgain(functor, functor', rep)
      BY <1>2 DEF RepsGoOn, NeverBoundAgain
    <2>3. Losing(stack, functor', rep)
      BY <2>1, <2>2, LosingGoesOn
    <2>4. QED
      BY <2>1, <2>3
  <1>9. \A o \in Object : Matches(callbacks'[o], r) = {}
    <2>1. \A o \in Object : callbacks'[o] \in Seq(Callback)
      BY <1>3 DEF Trackables
    <2>2. QED
      BY <1>3, <2>1, MatchesFacts
  <1>10. QED
    BY <1>2, <1>3, <1>4, <1>5, <1>6, <1>7, <1>8, <1>9

LEMMA DeleteSlotStep ==
    ASSUME BaseInv, NEW r \in Rep, DeleteSlot(r)
    PROVE  BaseInv'
  <1>1. rep[r] = "live" /\ UNCHANGED <<clearing, dead, owed>>
    BY DEF DeleteSlot
  <1>2. /\ TypeInv /\ stack \in Seq(Frame)
        /\ Typed(stack) /\ Walks(stack, clearing)
    BY DEF BaseInv, TypeInv
  <1>3. CASE functor[r] = "held"
    <2>1. /\ functor' = [functor EXCEPT ![r] = "dying"]
          /\ callbacks' = Unbind(r)
          /\ stack' = Append(stack, Call("delete", r))
          /\ UNCHANGED <<rep, pointer>>
      BY <1>3 DEF DeleteSlot
    <2>2. /\ callbacks' \in [Trackables -> Seq(Callback)]
          /\ functor' \in [Rep -> {"none", "held", "dying"}]
          /\ Installed(callbacks')
          /\ Referred(callbacks', functor')
          /\ Held(functor', rep')
          /\ Emptied(callbacks', dead')
          /\ Watched(callbacks', pointer', rep')
          /\ Called(stack, callbacks')
          /\ Notifiers(stack, pointer', rep') /\ Losing(stack, functor', rep')
          /\ functor'[r] # "held" /\ rep'[r] # "none"
      BY <1>1, <1>3, <2>1, LosesFunctor
    <2>3. PICK f \in Frame : f = Call("delete", r) /\ f.op = "delete" /\ f.of = r
      BY FrameFacts
    <2>4. stack' = Append(stack, f) /\ stack' \in Seq(Frame)
      BY <1>2, <2>1, <2>3, PushFacts
    <2>5. Typed(stack') /\ Walks(stack', clearing)
      <3>1. Fits(f, stack, clearing)
        BY <2>3 DEF Fits
      <3>2. QED
        BY <1>2, <2>4, <3>1, PushWalks
    <2>6. Called(stack', callbacks')
      <3>1. NotPassed(f, callbacks')
        BY <2>3 DEF NotPassed
      <3>2. QED
        BY <1>2, <2>2, <2>4, <3>1, CalledPush
    <2>7. Losing(stack', functor', rep')
      BY <1>2, <2>2, <2>3, <2>4, LosingPush
    <2>8. Notifiers(stack', pointer', rep')
      <3>1. f.op \notin {"invalidate", "destroy"}
        BY <2>3
      <3>2. QED
        BY <1>2, <2>2, <2>4, <3>1, NotifiersPush
    <2>9. TypeInv'
      BY <1>1, <1>2, <2>1, <2>2, <2>4 DEF TypeInv
    <2>10. QED
      BY <1>1, <2>2, <2>5, <2>6, <2>7, <2>8, <2>9 DEF BaseInv
  <1>4. CASE functor[r] # "held"
    <2>1. /\ Free(r)
          /\ callbacks' = [callbacks EXCEPT ![r] = <<>>]
          /\ UNCHANGED <<functor, stack>>
      BY <1>4 DEF DeleteSlot
    <2>2. /\ callbacks' \in [Trackables -> Seq(Callback)]
          /\ pointer' \in [WeakPtr -> Rep \cup {Null}]
          /\ rep' \in [Rep -> {"none", "live", "freed"}]
          /\ rep'[r] = "freed" /\ \A q \in Rep \ {r} : rep'[q] = rep[q]
          /\ \A o \in Object : callbacks'[o] = callbacks[o]
          /\ Watched(callbacks', pointer', rep')
          /\ PointersTold(pointer, pointer', rep')
      BY <2>1, FreeFacts
    <2>3. /\ Installed(callbacks') /\ Referred(callbacks', functor)
          /\ Emptied(callbacks', dead)
      <3>1. Installed(callbacks) /\ Referred(callbacks, functor) /\ Emptied(callbacks, dead)
        BY DEF BaseInv
      <3>2. Installed(callbacks')
        BY <2>2, <3>1 DEF Installed
      <3>3. Referred(callbacks', functor)
        BY <2>2, <3>1 DEF Referred
      <3>4. Emptied(callbacks', dead)
        BY <1>2, <2>2, <3>1 DEF Emptied, TypeInv
      <3>5. QED
        BY <3>2, <3>3, <3>4
    <2>4. Held(functor, rep')
      BY <1>4, <2>2 DEF BaseInv, Held
    <2>5. Called(stack, callbacks')
      <3>1. Called(stack, callbacks)
        BY DEF BaseInv
      <3>2. QED
        BY <1>2, <2>2, <3>1, CalledMono
    <2>6. Notifiers(stack, pointer', rep') /\ Losing(stack, functor, rep')
      <3>1. Notifiers(stack, pointer, rep) /\ Losing(stack, functor, rep)
        BY DEF BaseInv
      <3>2. RepsGoOn(rep, rep') /\ NeverBoundAgain(functor, functor, rep)
        BY <2>2 DEF RepsGoOn, NeverBoundAgain
      <3>3. Notifiers(stack, pointer', rep')
        BY <1>2, <2>2, <3>1, <3>2, NotifiersGoOn
      <3>4. Losing(stack, functor, rep')
        BY <1>2, <3>1, <3>2, LosingGoesOn
      <3>5. QED
        BY <3>3, <3>4
    <2>7. TypeInv'
      BY <1>1, <1>2, <2>1, <2>2 DEF TypeInv
    <2>8. QED
      BY <1>1, <1>2, <2>1, <2>2, <2>3, <2>4, <2>5, <2>6, <2>7 DEF BaseInv
  <1>5. QED
    BY <1>3, <1>4

\* The pointers of connections are not those of the stack.
LEMMA WatchStep ==
    ASSUME BaseInv, NEW w \in Weak, NEW r \in Rep \cup {Null}, Watch(w, r)
    PROVE  BaseInv'
  <1>1. /\ r # Null => rep[r] = "live"
        /\ r # pointer[w]
        /\ pointer' = [pointer EXCEPT ![w] = r]
        /\ UNCHANGED <<clearing, dead, rep, functor, stack, owed>>
    BY DEF Watch
  <1>2. /\ TypeInv
        /\ callbacks \in [Trackables -> Seq(Callback)]
        /\ pointer \in [WeakPtr -> Rep \cup {Null}]
        /\ stack \in Seq(Frame)
        /\ clearing \subseteq Object
        /\ Watched(callbacks, pointer, rep)
    BY DEF BaseInv, TypeInv
  <1>3. PICK p \in Rep \cup {Null} : p = pointer[w]
    BY <1>2 DEF WeakPtr
  <1>4. callbacks' = [o \in Trackables |->
                        IF o = p THEN Removed(o, w, 1)
                        ELSE IF o = r THEN Added(o, w, 1)
                        ELSE callbacks[o]]
    BY <1>3 DEF Watch
  <1>5. w \in WeakPtr /\ 1 \in Nat
    BY DEF WeakPtr
  <1>6. \A q \in Rep : q # Null /\ q \notin clearing /\ q \in Trackables
    BY <1>2, ClientAssumption DEF Trackables
  <1>7. Null \notin Trackables
    BY ClientAssumption DEF Trackables
  <1>8. ASSUME NEW q \in Rep, q = p
        PROVE  /\ callbacks'[q] \in Seq(Callback)
               /\ Count(callbacks'[q], w) = 0
               /\ \A v : v # w => Count(callbacks'[q], v) = Count(callbacks[q], v)
    <2>1. PICK m : m = Removed(q, w, 1)
      OBVIOUS
    <2>2. callbacks'[q] = m /\ q \in Trackables
      BY <1>4, <1>6, <1>8, <2>1
    <2>3. /\ m \in Seq(Callback)
          /\ \A v : v # w => Count(m, v) = Count(callbacks[q], v)
          /\ Count(callbacks[q], w) <= 1 => Count(m, w) = 0
      BY <1>2, <1>5, <2>1, <2>2, RemovedFacts
    <2>4. Count(callbacks[q], w) = 1
      BY <1>2, <1>3, <1>5, <1>8 DEF Watched
    <2>5. QED
      BY <2>2, <2>3, <2>4
  <1>9. ASSUME NEW q \in Rep, q = r
        PROVE  /\ callbacks'[q] \in Seq(Callback)
               /\ Count(callbacks'[q], w) = 1
               /\ \A v : v # w => Count(callbacks'[q], v) = Count(callbacks[q], v)
    <2>1. PICK m : m = Added(q, w, 1)
      OBVIOUS
    <2>2. callbacks'[q] = m /\ q \in Trackables
      BY <1>1, <1>3, <1>4, <1>6, <1>9, <2>1
    <2>3. /\ m \in Seq(Callback)
          /\ \A v : v # w => Matches(m, v) = Matches(callbacks[q], v)
          /\ q \notin clearing => Count(m, w) = Count(callbacks[q], w) + 1
      <3>1. PICK n \in Nat : n = 1
        OBVIOUS
      <3>2. m = Added(q, w, n) /\ w \in Rep \cup Data \cup WeakPtr
        BY <1>5, <2>1, <3>1
      <3>3. /\ m \in Seq(Callback)
            /\ \A v : v # w => Matches(m, v) = Matches(callbacks[q], v)
            /\ q \notin clearing => Count(m, w) = Count(callbacks[q], w) + n
        BY <1>2, <2>2, <3>2, AddedFacts
      <3>4. QED
        BY <3>1, <3>3
    <2>4. Count(callbacks[q], w) = 0
      BY <1>1, <1>2, <1>5, <1>9 DEF Watched
    <2>5. \A v : v # w => Count(m, v) = Count(callbacks[q], v)
      BY <2>3 DEF Count
    <2>6. QED
      BY <1>6, <2>2, <2>3, <2>4, <2>5
  <1>10. \A o \in Trackables : o # p /\ o # r => callbacks'[o] = callbacks[o]
    BY <1>4
  <1>11. \A o \in Object : callbacks'[o] = callbacks[o]
    BY <1>10, ClientAssumption DEF Trackables
  <1>12. callbacks' \in [Trackables -> Seq(Callback)]
    <2>1. \A q \in Rep : callbacks'[q] \in Seq(Callback)
      BY <1>2, <1>6, <1>8, <1>9, <1>10
    <2>2. \A o \in Object : callbacks'[o] \in Seq(Callback)
      BY <1>2, <1>11 DEF Trackables
    <2>3. callbacks' = [o \in Trackables |-> callbacks'[o]]
      BY <1>4
    <2>4. QED
      BY <2>1, <2>2, <2>3 DEF Trackables
  <1>13. /\ pointer' \in [WeakPtr -> Rep \cup {Null}]
         /\ pointer'[w] = r
         /\ \A v \in WeakPtr : v # w => pointer'[v] = pointer[v]
    BY <1>1, <1>2, <1>5
  <1>14. Watched(callbacks', pointer', rep)
    <2>1. ASSUME NEW v \in WeakPtr, NEW q \in Rep
          PROVE  Count(callbacks'[q], v) = IF pointer'[v] = q THEN 1 ELSE 0
      <3>1. Count(callbacks[q], v) = IF pointer[v] = q THEN 1 ELSE 0
        BY <1>2 DEF Watched
      <3>2. CASE v = w
        <4>1. CASE q = p
          BY <1>1, <1>3, <1>8, <1>13, <3>2, <4>1
        <4>2. CASE q = r
          BY <1>9, <1>13, <3>2, <4>2
        <4>3. CASE q # p /\ q # r
          BY <1>3, <1>6, <1>10, <1>13, <3>1, <3>2, <4>3
        <4>4. QED
          BY <4>1, <4>2, <4>3
      <3>3. CASE v # w
        <4>1. Count(callbacks'[q], v) = Count(callbacks[q], v)
          BY <1>6, <1>8, <1>9, <1>10, <3>3
        <4>2. QED
          BY <1>13, <3>1, <3>3, <4>1
      <3>4. QED
        BY <3>2, <3>3
    <2>2. \A v \in WeakPtr : pointer'[v] # Null => rep[pointer'[v]] = "live"
      BY <1>1, <1>2, <1>13 DEF Watched
    <2>3. QED
      BY <2>1, <2>2 DEF Watched
  <1>15. Installed(callbacks')
    BY <1>11 DEF BaseInv, Installed
  <1>16. Referred(callbacks', functor)
    BY <1>11 DEF BaseInv, Referred
  <1>17. Emptied(callbacks', dead)
    <2>1. Emptied(callbacks, dead) /\ dead \subseteq Object
      BY <1>2 DEF BaseInv, TypeInv
    <2>2. QED
      BY <1>11, <2>1 DEF Emptied
  <1>18. Called(stack, callbacks')
    <2>1. Called(stack, callbacks) /\ Walks(stack, clearing)
      BY DEF BaseInv
    <2>2. QED
      BY <1>11, <2>1, CalledMono
  <1>19. Notifiers(stack, pointer', rep)
    <2>1. \A i \in 1 .. MaxStack : i \in WeakPtr /\ i # w
      BY ClientAssumption DEF WeakPtr
    <2>2. PointersTold(pointer, pointer', rep) /\ RepsGoOn(rep, rep)
      BY <1>13, <2>1 DEF PointersTold, RepsGoOn
    <2>3. Notifiers(stack, pointer, rep) /\ Typed(stack)
      BY DEF BaseInv
    <2>4. QED
      BY <1>2, <2>2, <2>3, NotifiersGoOn
  <1>20. TypeInv'
    BY <1>1, <1>2, <1>12, <1>13 DEF TypeInv
  <1>21. QED
    BY <1>1, <1>14, <1>15, <1>16, <1>17, <1>18, <1>19, <1>20 DEF BaseInv

\* Users change the list of an object, but none of its callbacks of slot_reps.
LEMMA UserListStep ==
    ASSUME BaseInv, NEW o \in Object, NEW m \in Seq(Callback), o \notin dead,
           DataIn(m, Rep \cup Data),
           \A r \in Rep : Count(m, r) = Count(callbacks[o], r),
           o \in clearing =>
              \A r \in Rep : Matches(m, r) \subseteq Matches(callbacks[o], r),
           callbacks' = [callbacks EXCEPT ![o] = m],
           owed' \in [Object -> [Data -> Int]],
           UNCHANGED <<clearing, dead, rep, functor, pointer, stack>>
    PROVE  BaseInv'
  <1>1. /\ TypeInv
        /\ callbacks \in [Trackables -> Seq(Callback)]
        /\ dead \subseteq Object
    BY DEF BaseInv, TypeInv
  <1>2. Object \subseteq Trackables /\ Rep \subseteq Trackables
    BY DEF Trackables
  <1>3. /\ callbacks' \in [Trackables -> Seq(Callback)]
        /\ callbacks'[o] = m
        /\ \A u \in Trackables : u # o => callbacks'[u] = callbacks[u]
    BY <1>1, <1>2
  <1>4. \A r \in Rep : callbacks'[r] = callbacks[r]
    BY <1>2, <1>3, ClientAssumption
  <1>5. Installed(callbacks')
    BY <1>2, <1>3 DEF BaseInv, Installed
  <1>6. Referred(callbacks', functor)
    <2>1. \A r \in Rep, u \in Object : Count(callbacks'[u], r) = Count(callbacks[u], r)
      BY <1>2, <1>3
    <2>2. QED
      BY <2>1 DEF BaseInv, Referred
  <1>7. Emptied(callbacks', dead)
    <2>1. \A u \in dead : callbacks'[u] = callbacks[u]
      BY <1>1, <1>2, <1>3
    <2>2. QED
      BY <2>1 DEF BaseInv, Emptied
  <1>8. Watched(callbacks', pointer, rep)
    BY <1>4 DEF BaseInv, Watched
  <1>9. Called(stack, callbacks')
    <2>1. \A u \in Object, r \in Rep :
              u \in clearing => Matches(callbacks'[u], r) \subseteq Matches(callbacks[u], r)
      BY <1>2, <1>3
    <2>2. Called(stack, callbacks) /\ Walks(stack, clearing)
      BY DEF BaseInv
    <2>3. QED
      BY <2>1, <2>2, CalledMono
  <1>10. TypeInv'
    BY <1>1, <1>3 DEF TypeInv
  <1>11. QED
    BY <1>5, <1>6, <1>7, <1>8, <1>9, <1>10 DEF BaseInv

LEMMA AddCallbackStep ==
    ASSUME BaseInv, NEW o \in Object, NEW d \in Data, AddCallback(o, d)
    PROVE  BaseInv'
  <1>1. /\ TypeInv
        /\ callbacks \in [Trackables -> Seq(Callback)]
        /\ owed \in [Object -> [Data -> Int]]
        /\ DataIn(callbacks[o], Rep \cup Data)
        /\ o \in Trackables /\ 1 \in Nat
    BY DEF BaseInv, TypeInv, Installed, Trackables
  <1>2. PICK m : m = Added(o, d, 1)
    OBVIOUS
  <1>3. /\ o \notin dead
        /\ callbacks' = [callbacks EXCEPT ![o] = m]
        /\ owed' = [owed EXCEPT ![o][d] = @ + 1]
        /\ UNCHANGED <<clearing, dead, rep, functor, pointer, stack>>
    BY <1>2 DEF AddCallback, Usable
  <1>4. /\ m \in Seq(Callback)
        /\ \A D : d \in D /\ DataIn(callbacks[o], D) => DataIn(m, D)
        /\ \A e : e # d => Matches(m, e) = Matches(callbacks[o], e)
    BY <1>1, <1>2, AddedFacts
  <1>5. \A r \in Rep : r # d
    BY ClientAssumption
  <1>6. \A r \in Rep : Matches(m, r) = Matches(callbacks[o], r)
    BY <1>4, <1>5
  <1>7. \A r \in Rep : Count(m, r) = Count(callbacks[o], r)
    BY <1>6 DEF Count
  <1>8. DataIn(m, Rep \cup Data)
    BY <1>1, <1>4
  <1>9. owed' \in [Object -> [Data -> Int]]
    BY <1>1, <1>3
  <1>10. QED
    BY <1>3, <1>4, <1>6, <1>7, <1>8, <1>9, UserListStep

LEMMA RemoveCallbackStep ==
    ASSUME BaseInv, NEW o \in Object, NEW d \in Data, RemoveCallback(o, d)
    PROVE  BaseInv'
  <1>1. /\ TypeInv
        /\ callbacks \in [Trackables -> Seq(Callback)]
        /\ owed \in [Object -> [Data -> Int]]
        /\ DataIn(callbacks[o], Rep \cup Data)
        /\ o \in Trackables
    BY DEF BaseInv, TypeInv, Installed, Trackables
  <1>2. PICK m : m = Removed(o, d, 1)
    OBVIOUS
  <1>3. /\ o \notin dead
        /\ callbacks' = [callbacks EXCEPT ![o] = m]
        /\ owed' = [owed EXCEPT ![o][d] = @ - 1]
        /\ UNCHANGED <<clearing, dead, rep, functor, pointer, stack>>
    BY <1>2 DEF RemoveCallback
  <1>4. /\ m \in Seq(Callback)
        /\ \A D : DataIn(callbacks[o], D) => DataIn(m, D)
        /\ \A e : e # d => Count(m, e) = Count(callbacks[o], e)
        /\ o \in clearing => \A e : Matches(m, e) \subseteq Matches(callbacks[o], e)
    BY <1>1, <1>2, RemovedFacts
  <1>5. \A r \in Rep : r # d
    BY ClientAssumption
  <1>6. \A r \in Rep : Count(m, r) = Count(callbacks[o], r)
    BY <1>4, <1>5
  <1>7. o \in clearing => \A r \in Rep : Matches(m, r) \subseteq Matches(callbacks[o], r)
    BY <1>4
  <1>8. DataIn(m, Rep \cup Data)
    BY <1>1, <1>4
  <1>9. owed' \in [Object -> [Data -> Int]]
    BY <1>1, <1>3
  <1>10. QED
    BY <1>3, <1>4, <1>6, <1>7, <1>8, <1>9, UserListStep

LEMMA WalksMono ==
    ASSUME NEW stk, NEW cl, NEW cl2, Walks(stk, cl), cl \subseteq cl2
    PROVE  Walks(stk, cl2)
  BY DEF Walks

\* notify_callbacks() of an object that nobody notifies.
LEMMA NotifyStep ==
    ASSUME WellUsed, BaseInv, NEW o \in Object,
           NEW after \in {<<>>, <<"dies">>} \cup {<<s>> : s \in Object},
           \A src \in Object : after = <<src>> => src # o /\ src \notin clearing,
           Notify(o, after)
    PROVE  BaseInv'
  <1>1. /\ o \notin clearing
        /\ Len(stack) + 1 < MaxStack
        /\ clearing' = clearing \cup {o}
        /\ stack' = Append(stack, [Call("notify", o) EXCEPT !.after = after])
        /\ UNCHANGED <<callbacks, dead, rep, functor, pointer, owed>>
    BY DEF Notify, WellUsed
  <1>2. /\ TypeInv /\ stack \in Seq(Frame) /\ clearing \subseteq Object
        /\ callbacks \in [Trackables -> Seq(Callback)]
        /\ Typed(stack) /\ Walks(stack, clearing) /\ Called(stack, callbacks)
        /\ Losing(stack, functor, rep) /\ Notifiers(stack, pointer, rep)
    BY DEF BaseInv, TypeInv
  <1>3. PICK f : f = [Call("notify", o) EXCEPT !.after = after]
    OBVIOUS
  <1>4. /\ f \in Frame /\ f.op = "notify" /\ f.of = o /\ f.at = 1 /\ f.after = after
    BY <1>3 DEF Call, Frame
  <1>5. stack' = Append(stack, f) /\ stack' \in Seq(Frame)
    BY <1>1, <1>2, <1>3, <1>4, PushFacts
  <1>6. Typed(stack') /\ Walks(stack', clearing')
    <2>1. Walks(stack, clearing')
      <3>1. clearing \subseteq clearing'
        BY <1>1
      <3>2. QED
        BY <1>2, <3>1, WalksMono
    <2>2. \A j \in DOMAIN stack : \A u \in Object :
              u \notin clearing => ~Notifies(stack, j, u)
      BY <1>2 DEF Walks
    <2>3. Fits(f, stack, clearing')
      BY <1>1, <1>4, <2>2 DEF Fits
    <2>4. QED
      BY <1>2, <1>4, <1>5, <2>1, <2>3, PushWalks
  <1>7. Called(stack', callbacks)
    <2>1. \A k \in DOMAIN callbacks[o] : ~(k < 1)
      <3>1. callbacks[o] \in Seq(Callback)
        BY <1>2 DEF Trackables
      <3>2. QED
        BY <3>1, LenProperties
    <2>2. NotPassed(f, callbacks)
      BY <1>4, <2>1 DEF NotPassed, Matches
    <2>3. QED
      BY <1>2, <1>4, <1>5, <2>2, CalledPush
  <1>8. Losing(stack', functor, rep)
    BY <1>2, <1>4, <1>5, LosingPush
  <1>9. Notifiers(stack', pointer, rep)
    <2>1. f.op \notin {"invalidate", "destroy"}
      BY <1>4
    <2>2. QED
      BY <1>2, <1>4, <1>5, <2>1, NotifiersPush
  <1>10. TypeInv'
    BY <1>1, <1>2, <1>5 DEF TypeInv
  <1>11. QED
    BY <1>1, <1>6, <1>7, <1>8, <1>9, <1>10 DEF BaseInv

LEMMA UserOperationStep ==
    ASSUME WellUsed, BaseInv, UserOperation
    PROVE  BaseInv'
  <1>1. ASSUME NEW r \in Rep, NewSlot(r) PROVE BaseInv'
    BY <1>1, NewSlotStep
  <1>2. ASSUME NEW r \in Rep, DeleteSlot(r) PROVE BaseInv'
    BY <1>2, DeleteSlotStep
  <1>3. ASSUME NEW w \in Weak, NEW r \in Rep \cup {Null}, Watch(w, r) PROVE BaseInv'
    BY <1>3, WatchStep
  <1>4. ASSUME NEW o \in Object, NEW d \in Data, AddCallback(o, d) PROVE BaseInv'
    BY <1>4, AddCallbackStep
  <1>5. ASSUME NEW o \in Object, NEW d \in Data, RemoveCallback(o, d) PROVE BaseInv'
    BY <1>5, RemoveCallbackStep
  <1>6. ASSUME NEW o \in Object, Notify(o, <<>>) PROVE BaseInv'
    <2>1. \A src \in Object : <<>> # <<src>>
      OBVIOUS
    <2>2. QED
      BY <1>6, <2>1, NotifyStep
  <1>7. ASSUME NEW o \in Object, Destroy(o) PROVE BaseInv'
    <2>1. Notify(o, <<"dies">>)
      BY <1>7 DEF Destroy
    <2>2. \A src \in Object : <<"dies">> # <<src>>
      BY ClientAssumption
    <2>3. QED
      BY <2>1, <2>2, NotifyStep
  <1>8. ASSUME NEW o \in Object, NEW src \in Object, MoveAssign(o, src) PROVE BaseInv'
    <2>1. o # src /\ src \notin clearing /\ Notify(o, <<src>>)
      BY <1>8 DEF MoveAssign
    <2>2. \A s \in Object : <<src>> = <<s>> => s = src
      OBVIOUS
    <2>3. <<src>> \in {<<>>, <<"dies">>} \cup {<<s>> : s \in Object}
      OBVIOUS
    <2>4. QED
      BY <2>1, <2>2, <2>3, NotifyStep
  <1>9. QED
    BY <1>1, <1>2, <1>3, <1>4, <1>5, <1>6, <1>7, <1>8 DEF UserOperation

-----------------------------------------------------------------------------
(***************************************************************************)
(* The destructor of a list.                                               *)
(***************************************************************************)
\* The frame at the top of the stack moves on.
LEMMA TopFits ==
    ASSUME stack \in Seq(Frame), TopIs("notify"), Typed(stack), Walks(stack, clearing),
           NEW f \in Frame, f.op = "notify", f.of = Top.of, f.after = Top.after, f.at >= 1
    PROVE  Fits(f, Caller, clearing)
  <1>1. PICK n : n = Len(stack)
    OBVIOUS
  <1>2. stack # <<>> /\ Top.op = "notify"
    BY DEF TopIs
  <1>3. /\ n \in Nat \ {0}
        /\ DOMAIN stack = 1 .. n
        /\ DOMAIN Caller = 1 .. n - 1
        /\ \A k \in 1 .. n - 1 : Caller[k] = stack[k]
        /\ Top = stack[n]
        /\ Len(Caller) = n - 1
    BY <1>1, <1>2, TopFacts
  <1>4. Top.of \in Object /\ n < MaxStack /\ n \in DOMAIN stack
    BY <1>2, <1>3 DEF Typed
  <1>5. Notifies(stack, n, Top.of)
    BY <1>2, <1>3 DEF Notifies
  <1>6. \A j \in 1 .. n - 1 : \A o : Notifies(Caller, j, o) <=> Notifies(stack, j, o)
    BY <1>3 DEF Notifies
  <1>7. \A j \in 1 .. n - 1 : j \in DOMAIN stack /\ j # n /\ ~(j > n)
    BY <1>3
  <1>8. Top.of \in clearing /\ \A j \in DOMAIN Caller : ~Notifies(Caller, j, Top.of)
    BY <1>3, <1>4, <1>5, <1>6, <1>7 DEF Walks
  <1>9. ASSUME NEW src \in Object, Top.after = <<src>>
        PROVE  src # Top.of /\ \A j \in DOMAIN Caller : ~Notifies(Caller, j, src)
    <2>1. \A j \in DOMAIN stack : Notifies(stack, j, src) => j > n
      BY <1>3, <1>4, <1>5, <1>9 DEF Walks
    <2>2. ~(n > n)
      BY <1>3
    <2>3. QED
      BY <1>3, <1>4, <1>5, <1>6, <1>7, <2>1, <2>2
  <1>10. Len(Caller) + 1 < MaxStack
    BY <1>3, <1>4
  <1>11. QED
    BY <1>4, <1>8, <1>9, <1>10 DEF Fits

\* The callbacks of slot_reps that the destructor has passed when it moves on.
LEMMA PassedNext ==
    ASSUME BaseInv, TopIs("notify"), Top.at <= Len(callbacks[Top.of])
    PROVE  /\ Top.of \in Object
           /\ Top.at \in DOMAIN callbacks[Top.of]
           /\ callbacks[Top.of][Top.at].data \in Rep \cup Data
           /\ \A r \in Rep : \A k \in Matches(callbacks[Top.of], r) :
                 k < Next1.at => /\ callbacks[Top.of][Top.at].func
                                 /\ callbacks[Top.of][Top.at].data = r
  <1>1. /\ stack \in Seq(Frame) /\ callbacks \in [Trackables -> Seq(Callback)]
        /\ Typed(stack) /\ Called(stack, callbacks) /\ Installed(callbacks)
    BY DEF BaseInv, TypeInv
  <1>2. stack # <<>> /\ Top.op = "notify"
    BY DEF TopIs
  <1>3. /\ Len(stack) \in DOMAIN stack /\ Top = stack[Len(stack)] /\ Top \in Frame
    BY <1>1, <1>2, TopFacts
  <1>4. Top.of \in Object /\ Top.at >= 1 /\ Top.at \in Nat
    BY <1>1, <1>2, <1>3 DEF Typed, Frame
  <1>5. PICK l \in Seq(Callback) : l = callbacks[Top.of]
    BY <1>1, <1>4 DEF Trackables
  <1>6. DOMAIN l = 1 .. Len(l) /\ Len(l) \in Nat
    OBVIOUS
  <1>7. Top.at \in DOMAIN l
    BY <1>4, <1>5, <1>6
  <1>8. l[Top.at].data \in Rep \cup Data
    BY <1>1, <1>4, <1>5, <1>7 DEF Installed, DataIn
  <1>9. \A r \in Rep : \A k \in Matches(l, r) : ~(k < Top.at)
    <2>1. NotPassed(Top, callbacks)
      BY <1>1, CalledTop
    <2>2. QED
      BY <1>2, <1>5, <2>1 DEF NotPassed
  <1>10. Next1.at = Top.at + 1
    BY <1>3 DEF Next1, Frame
  <1>11. ASSUME NEW r \in Rep, NEW k \in Matches(l, r), k < Next1.at
         PROVE  l[Top.at].func /\ l[Top.at].data = r
    <2>1. k \in Nat /\ l[k].func /\ l[k].data = r
      BY <1>6 DEF Matches
    <2>2. k = Top.at
      BY <1>4, <1>9, <1>10, <1>11, <2>1
    <2>3. QED
      BY <2>1, <2>2
  <1>12. QED
    BY <1>4, <1>5, <1>7, <1>8, <1>11

LEMMA NotifySkipStep ==
    ASSUME BaseInv, NotifySkip
    PROVE  BaseInv'
  <1>1. /\ TopIs("notify")
        /\ Top.at <= Len(callbacks[Top.of])
        /\ ~callbacks[Top.of][Top.at].func
        /\ stack' = Append(Caller, Next1)
        /\ UNCHANGED <<callbacks, clearing, dead, rep, functor, pointer, owed>>
    BY DEF NotifySkip
  <1>2. /\ TypeInv /\ stack \in Seq(Frame)
        /\ Typed(stack) /\ Walks(stack, clearing) /\ Called(stack, callbacks)
        /\ Losing(stack, functor, rep) /\ Notifiers(stack, pointer, rep)
    BY DEF BaseInv, TypeInv
  <1>3. stack # <<>> /\ Top.op = "notify"
    BY <1>1 DEF TopIs
  <1>4. Top \in Frame /\ Caller \in Seq(Frame)
    BY <1>2, <1>3, TopFacts
  <1>5. PICK f \in Frame : /\ f = Next1 /\ f.op = "notify" /\ f.of = Top.of
                           /\ f.at = Top.at + 1 /\ f.after = Top.after
    BY <1>3, <1>4, FrameFacts
  <1>6. stack' = Append(Caller, f) /\ stack' \in Seq(Frame)
    BY <1>1, <1>4, <1>5, PushFacts
  <1>7. Typed(stack') /\ Walks(stack', clearing)
    <2>1. Typed(Caller) /\ Walks(Caller, clearing)
      BY <1>2, <1>3, PopWalks
    <2>2. f.at >= 1
      BY <1>4, <1>5 DEF Frame
    <2>3. Fits(f, Caller, clearing)
      BY <1>1, <1>2, <1>5, <2>2, TopFits
    <2>4. QED
      BY <1>4, <1>6, <2>1, <2>3, PushWalks
  <1>8. Called(stack', callbacks)
    <2>1. Called(Caller, callbacks)
      BY <1>2, <1>3, CalledPop
    <2>2. NotPassed(f, callbacks)
      <3>1. \A r \in Rep : \A k \in Matches(callbacks[Top.of], r) : ~(k < Next1.at)
        BY <1>1, PassedNext
      <3>2. QED
        BY <1>5, <3>1 DEF NotPassed
    <2>3. QED
      BY <1>4, <1>6, <2>1, <2>2, CalledPush
  <1>9. Losing(stack', functor, rep)
    <2>1. Losing(Caller, functor, rep)
      BY <1>2, <1>3, LosingPop
    <2>2. QED
      BY <1>4, <1>5, <1>6, <2>1, LosingPush
  <1>10. Notifiers(stack', pointer, rep)
    <2>1. Len(stack) \in 1 .. MaxStack => pointer[Len(stack)] = Null
      BY <1>2, <1>3, NoNotifier
    <2>2. Notifiers(Caller, pointer, rep)
      BY <1>2, <1>3, <2>1, NotifiersPop
    <2>3. f.op \notin {"invalidate", "destroy"}
      BY <1>5
    <2>4. QED
      BY <1>4, <1>6, <2>2, <2>3, NotifiersPush
  <1>11. TypeInv'
    BY <1>1, <1>2, <1>6 DEF TypeInv
  <1>12. QED
    BY <1>1, <1>7, <1>8, <1>9, <1>10, <1>11 DEF BaseInv

\* The two frames that a call of a callback puts on the stack.
LEMMA CallFrames ==
    ASSUME stack \in Seq(Frame), TopIs("notify"), NEW g \in Frame
    PROVE  \E f \in Frame, mid \in Seq(Frame) :
               /\ f = Next1 /\ f.op = "notify" /\ f.of = Top.of
               /\ f.at = Top.at + 1 /\ f.at >= 1 /\ f.after = Top.after
               /\ mid = Append(Caller, f)
               /\ Append(Caller, Next1) \o <<g>> = Append(mid, g)
               /\ Append(mid, g) \in Seq(Frame)
               /\ Len(mid) = Len(stack)
  <1>1. stack # <<>> /\ Top.op = "notify"
    BY DEF TopIs
  <1>2. Top \in Frame /\ Caller \in Seq(Frame) /\ Len(Caller) = Len(stack) - 1
        /\ Len(stack) \in Nat \ {0}
    BY <1>1, TopFacts
  <1>3. PICK f \in Frame : /\ f = Next1 /\ f.op = "notify" /\ f.of = Top.of
                           /\ f.at = Top.at + 1 /\ f.after = Top.after
    BY <1>1, <1>2, FrameFacts
  <1>4. f.at >= 1
    BY <1>2, <1>3 DEF Frame
  <1>5. PICK mid \in Seq(Frame) : mid = Append(Caller, f)
    BY <1>2, <1>3, PushFacts
  <1>6. Len(mid) = Len(Caller) + 1
    BY <1>2, <1>5, AppendProperties
  <1>7. mid \o <<g>> = Append(mid, g)
    BY AppendIsConcat
  <1>8. Append(mid, g) \in Seq(Frame)
    BY PushFacts
  <1>9. Append(Caller, Next1) \o <<g>> = Append(mid, g)
    BY <1>3, <1>5, <1>7
  <1>10. Len(mid) = Len(stack)
    BY <1>2, <1>6
  <1>11. QED
    BY <1>3, <1>4, <1>5, <1>8, <1>9, <1>10

\* A user's callback is called.
LEMMA NotifyUserStep ==
    ASSUME BaseInv, NotifyCall, callbacks[Top.of][Top.at].data \notin Rep
    PROVE  BaseInv'
  <1>1. PICK d : d = callbacks[Top.of][Top.at].data
    OBVIOUS
  <1>2. /\ TopIs("notify")
        /\ Top.at <= Len(callbacks[Top.of])
        /\ stack' = Append(Caller, Next1) \o <<Call("user", d)>>
        /\ owed' = [owed EXCEPT ![Top.of][d] = @ - 1]
        /\ UNCHANGED <<callbacks, clearing, dead, rep, functor, pointer>>
    BY <1>1 DEF NotifyCall
  <1>3. /\ TypeInv /\ stack \in Seq(Frame)
        /\ Typed(stack) /\ Walks(stack, clearing) /\ Called(stack, callbacks)
        /\ Losing(stack, functor, rep) /\ Notifiers(stack, pointer, rep)
        /\ owed \in [Object -> [Data -> Int]]
    BY DEF BaseInv, TypeInv
  <1>4. /\ Top.of \in Object /\ d \in Data
        /\ \A r \in Rep : \A k \in Matches(callbacks[Top.of], r) : ~(k < Next1.at)
    BY <1>1, <1>2, PassedNext
  <1>5. PICK g \in Frame : g = Call("user", d) /\ g.op = "user"
    BY <1>4, FrameFacts
  <1>6. PICK f \in Frame, mid \in Seq(Frame) :
               /\ f = Next1 /\ f.op = "notify" /\ f.of = Top.of
               /\ f.at = Top.at + 1 /\ f.at >= 1 /\ f.after = Top.after
               /\ mid = Append(Caller, f)
               /\ Append(Caller, Next1) \o <<g>> = Append(mid, g)
               /\ Append(mid, g) \in Seq(Frame)
               /\ Len(mid) = Len(stack)
    BY <1>2, <1>3, CallFrames
  <1>7. stack' = Append(mid, g)
    BY <1>2, <1>5, <1>6
  <1>8. stack # <<>> /\ Top.op = "notify" /\ Caller \in Seq(Frame)
    BY <1>2, <1>3, TopFacts DEF TopIs
  <1>9. Typed(stack') /\ Walks(stack', clearing)
    <2>1. Typed(Caller) /\ Walks(Caller, clearing)
      BY <1>3, <1>8, PopWalks
    <2>2. Fits(f, Caller, clearing)
      BY <1>2, <1>3, <1>6, TopFits
    <2>3. Typed(mid) /\ Walks(mid, clearing)
      BY <1>6, <1>8, <2>1, <2>2, PushWalks
    <2>4. Fits(g, mid, clearing)
      BY <1>5 DEF Fits
    <2>5. QED
      BY <1>6, <1>7, <2>3, <2>4, PushWalks
  <1>10. Called(stack', callbacks)
    <2>1. Called(Caller, callbacks)
      BY <1>3, <1>8, CalledPop
    <2>2. NotPassed(f, callbacks) /\ NotPassed(g, callbacks)
      BY <1>4, <1>5, <1>6 DEF NotPassed
    <2>3. Called(mid, callbacks)
      BY <1>6, <1>8, <2>1, <2>2, CalledPush
    <2>4. QED
      BY <1>6, <1>7, <2>2, <2>3, CalledPush
  <1>11. Losing(stack', functor, rep)
    <2>1. Losing(Caller, functor, rep)
      BY <1>3, <1>8, LosingPop
    <2>2. Losing(mid, functor, rep)
      BY <1>6, <1>8, <2>1, LosingPush
    <2>3. QED
      BY <1>5, <1>6, <1>7, <2>2, LosingPush
  <1>12. Notifiers(stack', pointer, rep)
    <2>1. Len(stack) \in 1 .. MaxStack => pointer[Len(stack)] = Null
      BY <1>3, <1>8, NoNotifier
    <2>2. Notifiers(Caller, pointer, rep)
      BY <1>3, <1>8, <2>1, NotifiersPop
    <2>3. f.op \notin {"invalidate", "destroy"} /\ g.op \notin {"invalidate", "destroy"}
      BY <1>5, <1>6
    <2>4. Notifiers(mid, pointer, rep)
      BY <1>6, <1>8, <2>2, <2>3, NotifiersPush
    <2>5. QED
      BY <1>6, <1>7, <2>3, <2>4, NotifiersPush
  <1>13. TypeInv'
    <2>1. owed' \in [Object -> [Data -> Int]]
      BY <1>2, <1>3, <1>4
    <2>2. QED
      BY <1>2, <1>3, <1>6, <1>7, <2>1 DEF TypeInv
  <1>14. QED
    BY <1>2, <1>9, <1>10, <1>11, <1>12, <1>13 DEF BaseInv

\* An invalidation makes its notifier: the pointer n is in the list of d.
LEMMA NotifierFacts ==
    ASSUME BaseInv, NEW d \in Rep, NEW n \in 1 .. MaxStack,
           rep[d] = "live", pointer[n] = Null,
           pointer' = [pointer EXCEPT ![n] = d],
           callbacks' = [callbacks EXCEPT ![d] = Added(d, n, 1)]
    PROVE  /\ callbacks' \in [Trackables -> Seq(Callback)]
           /\ pointer' \in [WeakPtr -> Rep \cup {Null}]
           /\ pointer'[n] = d
           /\ \A i \in 1 .. MaxStack : i # n => pointer'[i] = pointer[i]
           /\ \A o \in Object : callbacks'[o] = callbacks[o]
           /\ Watched(callbacks', pointer', rep)
  <1>1. /\ callbacks \in [Trackables -> Seq(Callback)]
        /\ pointer \in [WeakPtr -> Rep \cup {Null}]
        /\ Watched(callbacks, pointer, rep)
        /\ clearing \subseteq Object
    BY DEF BaseInv, TypeInv
  <1>2. n \in WeakPtr /\ n \in Rep \cup Data \cup WeakPtr
    BY DEF WeakPtr
  <1>3. d \in Trackables /\ d \notin clearing /\ d # Null
    BY <1>1, ClientAssumption DEF Trackables
  <1>4. PICK one \in Nat : one = 1
    OBVIOUS
  <1>5. PICK m : m = Added(d, n, one)
    OBVIOUS
  <1>6. /\ m \in Seq(Callback)
        /\ \A v : v # n => Matches(m, v) = Matches(callbacks[d], v)
        /\ d \notin clearing => Count(m, n) = Count(callbacks[d], n) + one
    BY <1>1, <1>2, <1>3, <1>4, <1>5, AddedFacts
  <1>7. Count(callbacks[d], n) = 0
    BY <1>1, <1>2, <1>3 DEF Watched
  <1>8. Count(m, n) = 1 /\ \A v : v # n => Count(m, v) = Count(callbacks[d], v)
    BY <1>3, <1>4, <1>6, <1>7 DEF Count
  <1>9. callbacks' = [callbacks EXCEPT ![d] = m]
    BY <1>4, <1>5
  <1>10. /\ callbacks' \in [Trackables -> Seq(Callback)]
        /\ callbacks'[d] = m
        /\ \A u \in Trackables : u # d => callbacks'[u] = callbacks[u]
    BY <1>1, <1>3, <1>6, <1>9
  <1>11. /\ pointer' \in [WeakPtr -> Rep \cup {Null}]
         /\ pointer'[n] = d
         /\ \A v \in WeakPtr : v # n => pointer'[v] = pointer[v]
    BY <1>1, <1>2
  <1>12. \A o \in Object : callbacks'[o] = callbacks[o]
    BY <1>10, ClientAssumption DEF Trackables
  <1>13. \A i \in 1 .. MaxStack : i # n => pointer'[i] = pointer[i]
    BY <1>11 DEF WeakPtr
  <1>14. ASSUME NEW v \in WeakPtr, NEW q \in Rep
         PROVE  Count(callbacks'[q], v) = IF pointer'[v] = q THEN 1 ELSE 0
    <2>1. Count(callbacks[q], v) = IF pointer[v] = q THEN 1 ELSE 0
      BY <1>1 DEF Watched
    <2>2. q \in Trackables /\ q # Null
      BY ClientAssumption DEF Trackables
    <2>3. CASE v = n
      <3>1. CASE q = d
        BY <1>8, <1>10, <1>11, <2>3, <3>1
      <3>2. CASE q # d
        BY <1>10, <1>11, <2>1, <2>2, <2>3, <3>2
      <3>3. QED
        BY <3>1, <3>2
    <2>4. CASE v # n
      <3>1. Count(callbacks'[q], v) = Count(callbacks[q], v)
        BY <1>8, <1>10, <2>2, <2>4
      <3>2. QED
        BY <1>11, <2>1, <2>4, <3>1
    <2>5. QED
      BY <2>3, <2>4
  <1>15. \A v \in WeakPtr : pointer'[v] # Null => rep[pointer'[v]] = "live"
    BY <1>1, <1>11 DEF Watched
  <1>16. QED
    BY <1>10, <1>11, <1>12, <1>13, <1>14, <1>15 DEF Watched

\* The callback of a slot_rep is called.
LEMMA NotifyRepStep ==
    ASSUME BaseInv, NotifyCall, callbacks[Top.of][Top.at].data \in Rep
    PROVE  BaseInv'
  <1>1. PICK d \in Rep : d = callbacks[Top.of][Top.at].data
    OBVIOUS
  <1>2. PICK n : n = Len(stack) + 1
    OBVIOUS
  <1>3. /\ TopIs("notify")
        /\ Top.at <= Len(callbacks[Top.of])
        /\ callbacks[Top.of][Top.at].func
        /\ stack' = Append(Caller, Next1) \o <<Call("invalidate", d)>>
        /\ pointer' = [pointer EXCEPT ![n] = d]
        /\ callbacks' = [callbacks EXCEPT ![d] = Added(d, n, 1)]
        /\ UNCHANGED <<clearing, dead, rep, functor, owed>>
    BY <1>1, <1>2 DEF NotifyCall
  <1>4. /\ TypeInv /\ stack \in Seq(Frame)
        /\ callbacks \in [Trackables -> Seq(Callback)]
        /\ Installed(callbacks) /\ Referred(callbacks, functor)
        /\ Held(functor, rep) /\ Emptied(callbacks, dead) /\ dead \subseteq Object
        /\ Typed(stack) /\ Walks(stack, clearing) /\ Called(stack, callbacks)
        /\ Losing(stack, functor, rep) /\ Notifiers(stack, pointer, rep)
    BY DEF BaseInv, TypeInv
  <1>5. /\ Top.of \in Object
        /\ Top.at \in DOMAIN callbacks[Top.of]
        /\ \A r \in Rep : \A k \in Matches(callbacks[Top.of], r) : k < Next1.at => d = r
    BY <1>1, <1>3, PassedNext
  <1>6. PICK g \in Frame : g = Call("invalidate", d) /\ g.op = "invalidate" /\ g.of = d
    BY FrameFacts
  <1>7. PICK f \in Frame, mid \in Seq(Frame) :
               /\ f = Next1 /\ f.op = "notify" /\ f.of = Top.of
               /\ f.at = Top.at + 1 /\ f.at >= 1 /\ f.after = Top.after
               /\ mid = Append(Caller, f)
               /\ Append(Caller, Next1) \o <<g>> = Append(mid, g)
               /\ Append(mid, g) \in Seq(Frame)
               /\ Len(mid) = Len(stack)
    BY <1>3, <1>4, CallFrames
  <1>8. stack' = Append(mid, g) /\ stack' = Append(Append(Caller, f), g)
    BY <1>3, <1>6, <1>7
  <1>9. stack # <<>> /\ Top.op = "notify" /\ Caller \in Seq(Frame)
    BY <1>3, <1>4, TopFacts DEF TopIs
  <1>10. /\ Len(stack) \in Nat \ {0} /\ DOMAIN stack = 1 .. Len(stack)
         /\ Top = stack[Len(stack)]
    BY <1>4, <1>9, TopFacts
  <1>11. n \in 1 .. MaxStack /\ n \notin DOMAIN stack
    <2>1. Len(stack) < MaxStack
      BY <1>4, <1>9, <1>10 DEF Typed
    <2>2. QED
      BY <1>2, <1>10, <2>1, BoundAssumption
  <1>12. pointer[n] = Null
    BY <1>4, <1>11 DEF Notifiers
  <1>13. rep[d] = "live"
    <2>1. Matches(callbacks[Top.of], d) # {}
      BY <1>1, <1>3, <1>5 DEF Matches
    <2>2. callbacks[Top.of] \in Seq(Callback)
      BY <1>4, <1>5 DEF Trackables
    <2>3. Count(callbacks[Top.of], d) # 0
      BY <2>1, <2>2, MatchesFacts
    <2>4. functor[d] = "held"
      BY <1>4, <1>5, <2>3 DEF Referred
    <2>5. QED
      BY <1>4, <2>4 DEF Held
  <1>14. /\ callbacks' \in [Trackables -> Seq(Callback)]
         /\ pointer' \in [WeakPtr -> Rep \cup {Null}]
         /\ pointer'[n] = d
         /\ \A i \in 1 .. MaxStack : i # n => pointer'[i] = pointer[i]
         /\ \A o \in Object : callbacks'[o] = callbacks[o]
         /\ Watched(callbacks', pointer', rep)
    BY <1>3, <1>11, <1>12, <1>13, NotifierFacts
  <1>15. Installed(callbacks')
    BY <1>4, <1>14 DEF Installed
  <1>16. Referred(callbacks', functor)
    BY <1>4, <1>14 DEF Referred
  <1>17. Emptied(callbacks', dead)
    BY <1>4, <1>14 DEF Emptied
  <1>18. Typed(stack') /\ Walks(stack', clearing)
    <2>1. Typed(Caller) /\ Walks(Caller, clearing)
      BY <1>4, <1>9, PopWalks
    <2>2. Fits(f, Caller, clearing)
      BY <1>3, <1>4, <1>7, TopFits
    <2>3. Typed(mid) /\ Walks(mid, clearing)
      BY <1>7, <1>9, <2>1, <2>2, PushWalks
    <2>4. Fits(g, mid, clearing)
      BY <1>6 DEF Fits
    <2>5. QED
      BY <1>7, <1>8, <2>3, <2>4, PushWalks
  <1>19. Called(stack', callbacks')
    <2>1. Called(Caller, callbacks)
      BY <1>4, <1>9, CalledPop
    <2>2. \A r \in Rep : \A k \in Matches(callbacks[f.of], r) : k < f.at => r = g.of
      BY <1>5, <1>6, <1>7
    <2>3. Called(stack', callbacks)
      BY <1>6, <1>7, <1>8, <1>9, <2>1, <2>2, CalledInvoke
    <2>4. \A o \in Object, r \in Rep :
              o \in clearing => Matches(callbacks'[o], r) \subseteq Matches(callbacks[o], r)
      BY <1>14
    <2>5. QED
      BY <1>18, <2>3, <2>4, CalledMono
  <1>20. Losing(stack', functor, rep)
    <2>1. Losing(Caller, functor, rep)
      BY <1>4, <1>9, LosingPop
    <2>2. Losing(mid, functor, rep)
      BY <1>7, <1>9, <2>1, LosingPush
    <2>3. QED
      BY <1>6, <1>7, <1>8, <2>2, LosingPush
  <1>21. Notifiers(stack', pointer', rep)
    <2>1. Len(stack) \in 1 .. MaxStack => pointer[Len(stack)] = Null
      BY <1>4, <1>9, NoNotifier
    <2>2. Notifiers(Caller, pointer, rep)
      BY <1>4, <1>9, <2>1, NotifiersPop
    <2>3. f.op \notin {"invalidate", "destroy"}
      BY <1>7
    <2>4. Notifiers(mid, pointer, rep)
      BY <1>7, <1>9, <2>2, <2>3, NotifiersPush
    <2>5. /\ g.op \in {"invalidate", "destroy"}
          /\ Len(mid) + 1 = n /\ n <= MaxStack
          /\ g.of # Null /\ pointer'[n] = g.of
      BY <1>2, <1>6, <1>7, <1>11, <1>14, ClientAssumption
    <2>6. QED
      BY <1>7, <1>8, <1>14, <2>4, <2>5, NotifiersPush
  <1>22. TypeInv'
    BY <1>3, <1>4, <1>7, <1>8, <1>14 DEF TypeInv
  <1>23. QED
    BY <1>3, <1>4, <1>14, <1>15, <1>16, <1>17, <1>18, <1>19, <1>20, <1>21, <1>22 DEF BaseInv

\* No functor refers to an object when the destructor of its list ends.
LEMMA EndFacts ==
    ASSUME BaseInv, TopIs("notify"), Top.at > Len(callbacks[Top.of])
    PROVE  \A r \in Rep : Matches(callbacks[Top.of], r) = {}
  <1>1. /\ stack \in Seq(Frame) /\ callbacks \in [Trackables -> Seq(Callback)]
        /\ Typed(stack) /\ Called(stack, callbacks)
    BY DEF BaseInv, TypeInv
  <1>2. stack # <<>> /\ Top.op = "notify"
    BY DEF TopIs
  <1>3. Len(stack) \in DOMAIN stack /\ Top = stack[Len(stack)] /\ Top \in Frame
    BY <1>1, <1>2, TopFacts
  <1>4. Top.of \in Object /\ Top.at \in Nat
    BY <1>1, <1>2, <1>3 DEF Typed, Frame
  <1>5. PICK l \in Seq(Callback) : l = callbacks[Top.of]
    BY <1>1, <1>4 DEF Trackables
  <1>6. NotPassed(Top, callbacks)
    BY <1>1, CalledTop
  <1>7. \A r \in Rep : \A k \in Matches(l, r) : ~(k < Top.at)
    BY <1>2, <1>5, <1>6 DEF NotPassed
  <1>8. ASSUME NEW r \in Rep, NEW k \in Matches(l, r)
        PROVE  FALSE
    <2>1. k \in 1 .. Len(l) /\ Len(l) \in Nat
      BY DEF Matches
    <2>2. k < Top.at
      BY <1>4, <1>5, <2>1
    <2>3. QED
      BY <1>7, <2>2
  <1>9. QED
    BY <1>5, <1>8

LEMMA NotifyEndStep ==
    ASSUME BaseInv, NotifyEnd
    PROVE  BaseInv'
  <1>1. PICK o : o = Top.of
    OBVIOUS
  <1>2. PICK left : left = clearing \ {o}
    OBVIOUS
  <1>3. /\ TopIs("notify")
        /\ Top.at > Len(callbacks[Top.of])
        /\ callbacks' = [callbacks EXCEPT ![o] = <<>>]
        /\ UNCHANGED <<rep, functor, pointer, owed>>
    BY <1>1 DEF NotifyEnd
  <1>4. /\ TypeInv /\ stack \in Seq(Frame)
        /\ callbacks \in [Trackables -> Seq(Callback)]
        /\ clearing \subseteq Object /\ dead \subseteq Object
        /\ Installed(callbacks) /\ Referred(callbacks, functor)
        /\ Emptied(callbacks, dead) /\ Watched(callbacks, pointer, rep)
        /\ Typed(stack) /\ Walks(stack, clearing) /\ Called(stack, callbacks)
        /\ Losing(stack, functor, rep) /\ Notifiers(stack, pointer, rep)
    BY DEF BaseInv, TypeInv
  <1>5. stack # <<>> /\ Top.op = "notify"
    BY <1>3 DEF TopIs
  <1>6. /\ Len(stack) \in Nat \ {0} /\ DOMAIN stack = 1 .. Len(stack)
        /\ Caller \in Seq(Frame) /\ Len(Caller) = Len(stack) - 1
        /\ Top \in Frame /\ Top = stack[Len(stack)]
    BY <1>4, <1>5, TopFacts
  <1>7. o \in Object /\ Len(stack) < MaxStack
    BY <1>1, <1>4, <1>5, <1>6 DEF Typed
  <1>8. \A r \in Rep : Matches(callbacks[o], r) = {}
    BY <1>1, <1>3, EndFacts
  <1>9. /\ callbacks' \in [Trackables -> Seq(Callback)]
        /\ callbacks'[o] = <<>>
        /\ \A u \in Trackables : u # o => callbacks'[u] = callbacks[u]
    BY <1>3, <1>4, <1>7, EmptySeq DEF Trackables
  <1>10. \A r \in Rep : callbacks'[r] = callbacks[r]
    BY <1>7, <1>9, ClientAssumption DEF Trackables
  <1>11. \A r \in Rep, u \in Object : Matches(callbacks'[u], r) = Matches(callbacks[u], r)
    <2>1. \A r : Matches(<<>>, r) = {}
      BY DEF Matches
    <2>2. QED
      BY <1>8, <1>9, <2>1 DEF Trackables
  <1>12. Installed(callbacks')
    <2>1. DataIn(<<>>, Rep \cup Data)
      BY DEF DataIn
    <2>2. QED
      BY <1>4, <1>9, <2>1 DEF Installed, Trackables
  <1>13. Referred(callbacks', functor)
    BY <1>4, <1>11 DEF Referred, Count
  <1>14. Emptied(callbacks', dead) /\ Emptied(callbacks', dead \cup {o})
    BY <1>4, <1>9 DEF Emptied, Trackables
  <1>15. Watched(callbacks', pointer, rep)
    BY <1>4, <1>10 DEF Watched
  <1>16. /\ Typed(Caller) /\ Walks(Caller, left)
    BY <1>1, <1>2, <1>4, <1>5, PopWalks
  <1>17. Called(Caller, callbacks')
    <2>1. Called(Caller, callbacks)
      BY <1>4, <1>5, CalledPop
    <2>2. \A u \in Object, r \in Rep :
              u \in left => Matches(callbacks'[u], r) \subseteq Matches(callbacks[u], r)
      BY <1>11
    <2>3. QED
      BY <1>16, <2>1, <2>2, CalledMono
  <1>18. Losing(Caller, functor, rep)
    BY <1>4, <1>5, LosingPop
  <1>19. Notifiers(Caller, pointer, rep)
    <2>1. Len(stack) \in 1 .. MaxStack => pointer[Len(stack)] = Null
      BY <1>4, <1>5, NoNotifier
    <2>2. QED
      BY <1>4, <1>5, <2>1, NotifiersPop
  <1>20. CASE Top.after \in {<<>>, <<"dies">>}
    <2>1. /\ dead' = IF Top.after = <<>> THEN dead ELSE dead \cup {o}
          /\ clearing' = left
          /\ stack' = Caller
      BY <1>1, <1>2, <1>20 DEF NotifyEnd
    <2>2. Emptied(callbacks', dead') /\ dead' \subseteq Object
      BY <1>4, <1>7, <1>14, <2>1
    <2>3. TypeInv'
      BY <1>2, <1>3, <1>4, <1>6, <1>9, <2>1, <2>2 DEF TypeInv
    <2>4. Held(functor', rep')
      BY <1>3 DEF BaseInv, Held
    <2>5. QED
      BY <1>3, <1>12, <1>13, <1>15, <1>16, <1>17, <1>18, <1>19, <2>1, <2>2, <2>3, <2>4
      DEF BaseInv
  <1>21. CASE Top.after \notin {<<>>, <<"dies">>}
    <2>1. /\ clearing' = left \cup {Head(Top.after)}
          /\ stack' = Append(Caller, Call("notify", Head(Top.after)))
          /\ dead' = dead
      BY <1>1, <1>2, <1>21 DEF NotifyEnd
    <2>2. PICK src \in Object : Top.after = <<src>>
      BY <1>6, <1>21 DEF Frame
    <2>3. Head(Top.after) = src
      BY <2>2
    <2>4. PICK f \in Frame : /\ f = Call("notify", src) /\ f.op = "notify" /\ f.of = src
                             /\ f.at = 1 /\ f.after = <<>>
      BY FrameFacts
    <2>5. stack' = Append(Caller, f) /\ stack' \in Seq(Frame) /\ clearing' = left \cup {src}
      BY <1>6, <2>1, <2>3, <2>4, PushFacts
    <2>6. Typed(stack') /\ Walks(stack', clearing')
      <3>1. Walks(Caller, clearing')
        <4>1. left \subseteq clearing'
          BY <2>5
        <4>2. QED
          BY <1>16, <4>1, WalksMono
      <3>2. \A j \in DOMAIN Caller : ~Notifies(Caller, j, src)
        <4>1. Fits(Top, Caller, clearing)
          <5>1. Top.at >= 1
            BY <1>4, <1>5, <1>6 DEF Typed
          <5>2. QED
            BY <1>3, <1>4, <1>5, <1>6, <5>1, TopFits
        <4>2. QED
          BY <1>5, <2>2, <4>1 DEF Fits
      <3>3. Fits(f, Caller, clearing')
        <4>1. \A s \in Object : f.after # <<s>>
          <5>1. \A s \in Object : <<>> # <<s>>
            OBVIOUS
          <5>2. f.after = <<>>
            BY <2>4
          <5>3. QED
            BY <5>1, <5>2
        <4>2. Len(Caller) + 1 < MaxStack
          BY <1>6, <1>7
        <4>3. QED
          BY <2>4, <2>5, <3>2, <4>1, <4>2 DEF Fits
      <3>4. QED
        BY <1>6, <1>16, <2>5, <3>1, <3>3, PushWalks
    <2>7. Called(stack', callbacks')
      <3>1. \A k \in DOMAIN callbacks'[src] : ~(k < 1)
        <4>1. callbacks'[src] \in Seq(Callback)
          BY <1>9 DEF Trackables
        <4>2. QED
          BY <4>1, LenProperties
      <3>2. NotPassed(f, callbacks')
        BY <2>4, <3>1 DEF NotPassed, Matches
      <3>3. QED
        BY <1>6, <1>17, <2>5, <3>2, CalledPush
    <2>8. Losing(stack', functor, rep)
      BY <1>6, <1>18, <2>4, <2>5, LosingPush
    <2>9. Notifiers(stack', pointer, rep)
      <3>1. f.op \notin {"invalidate", "destroy"}
        BY <2>4
      <3>2. QED
        BY <1>6, <1>19, <2>5, <3>1, NotifiersPush
    <2>10. TypeInv'
      <3>1. clearing' \subseteq Object
        BY <1>2, <1>4, <2>5
      <3>2. QED
        BY <1>3, <1>4, <1>9, <2>1, <2>5, <3>1 DEF TypeInv
    <2>11. Held(functor', rep')
      BY <1>3 DEF BaseInv, Held
    <2>12. QED
      BY <1>3, <1>12, <1>13, <1>14, <1>15, <2>1, <2>6, <2>7, <2>8, <2>9, <2>10, <2>11
      DEF BaseInv
  <1>22. QED
    BY <1>20, <1>21

LEMMA UserCallbackReturnsStep ==
    ASSUME BaseInv, UserCallbackReturns
    PROVE  BaseInv'
  <1>1. /\ stack # <<>> /\ Top.op = "user" /\ stack' = Caller
        /\ UNCHANGED <<callbacks, clearing, dead, rep, functor, pointer, owed>>
    BY DEF UserCallbackReturns, TopIs
  <1>2. /\ TypeInv /\ stack \in Seq(Frame)
        /\ Typed(stack) /\ Walks(stack, clearing) /\ Called(stack, callbacks)
        /\ Losing(stack, functor, rep) /\ Notifiers(stack, pointer, rep)
    BY DEF BaseInv, TypeInv
  <1>3. Typed(Caller) /\ Walks(Caller, clearing)
    BY <1>1, <1>2, PopWalks
  <1>4. Called(Caller, callbacks)
    BY <1>1, <1>2, CalledPop
  <1>5. Losing(Caller, functor, rep)
    BY <1>1, <1>2, LosingPop
  <1>6. Notifiers(Caller, pointer, rep)
    <2>1. Len(stack) \in 1 .. MaxStack => pointer[Len(stack)] = Null
      <3>1. Top.op \notin {"invalidate", "destroy"}
        BY <1>1
      <3>2. QED
        BY <1>1, <1>2, <3>1, NoNotifier
    <2>2. QED
      BY <1>1, <1>2, <2>1, NotifiersPop
  <1>7. Caller \in Seq(Frame)
    BY <1>1, <1>2, TopFacts
  <1>8. TypeInv'
    BY <1>1, <1>2, <1>7 DEF TypeInv
  <1>9. QED
    BY <1>1, <1>3, <1>4, <1>5, <1>6, <1>8 DEF BaseInv

-----------------------------------------------------------------------------
(***************************************************************************)
(* The end of a slot_rep.                                                  *)
(***************************************************************************)
\* disconnect() has returned, and the functor is destroyed.
LEMMA InvalidateLosesStep ==
    ASSUME BaseInv, InvalidateResume,
           pointer[Len(stack)] # Null, functor[Top.of] = "held"
    PROVE  BaseInv'
  <1>1. PICK r : r = Top.of
    OBVIOUS
  <1>2. /\ stack # <<>> /\ Top.op = "invalidate"
        /\ functor' = [functor EXCEPT ![r] = "dying"]
        /\ callbacks' = Unbind(r)
        /\ stack' = Append(Caller, Call("destroy", r))
        /\ UNCHANGED <<clearing, dead, rep, pointer, owed>>
    BY <1>1 DEF InvalidateResume, TopIs
  <1>3. /\ TypeInv /\ stack \in Seq(Frame)
        /\ pointer \in [WeakPtr -> Rep \cup {Null}]
        /\ Typed(stack) /\ Walks(stack, clearing) /\ Notifiers(stack, pointer, rep)
    BY DEF BaseInv, TypeInv
  <1>4. /\ Len(stack) \in Nat \ {0} /\ DOMAIN stack = 1 .. Len(stack)
        /\ Caller \in Seq(Frame) /\ Len(Caller) = Len(stack) - 1
        /\ Top = stack[Len(stack)]
    BY <1>2, <1>3, TopFacts
  <1>5. r \in Rep
    BY <1>1, <1>2, <1>3, <1>4 DEF Typed
  <1>6. functor[r] = "held"
    BY <1>1
  <1>7. /\ callbacks' \in [Trackables -> Seq(Callback)]
        /\ functor' \in [Rep -> {"none", "held", "dying"}]
        /\ Installed(callbacks')
        /\ Referred(callbacks', functor')
        /\ Held(functor', rep')
        /\ Emptied(callbacks', dead')
        /\ Watched(callbacks', pointer', rep')
        /\ Called(stack, callbacks')
        /\ Notifiers(stack, pointer', rep') /\ Losing(stack, functor', rep')
        /\ functor'[r] # "held" /\ rep'[r] # "none"
        /\ \A o \in Object : Matches(callbacks'[o], r) = {}
    BY <1>2, <1>5, <1>6, LosesFunctor
  <1>8. PICK f \in Frame : f = Call("destroy", r) /\ f.op = "destroy" /\ f.of = r
    BY <1>5, FrameFacts
  <1>9. stack' = Append(Caller, f) /\ stack' \in Seq(Frame)
    BY <1>2, <1>4, <1>8, PushFacts
  <1>10. Typed(stack') /\ Walks(stack', clearing)
    <2>1. Typed(Caller) /\ Walks(Caller, clearing)
      BY <1>2, <1>3, PopWalks
    <2>2. Fits(f, Caller, clearing)
      BY <1>5, <1>8 DEF Fits
    <2>3. QED
      BY <1>4, <1>9, <2>1, <2>2, PushWalks
  <1>11. Called(stack', callbacks')
    <2>1. Called(Caller, callbacks')
      BY <1>1, <1>2, <1>3, <1>7, CalledPop
    <2>2. NotPassed(f, callbacks')
      BY <1>8 DEF NotPassed
    <2>3. QED
      BY <1>4, <1>9, <2>1, <2>2, CalledPush
  <1>12. Losing(stack', functor', rep')
    <2>1. Losing(Caller, functor', rep')
      BY <1>2, <1>3, <1>7, LosingPop
    <2>2. QED
      BY <1>4, <1>7, <1>8, <1>9, <2>1, LosingPush
  <1>13. Notifiers(stack', pointer, rep)
    <2>1. PICK n : n = Len(stack)
      OBVIOUS
    <2>2. n \in 1 .. MaxStack /\ n \in WeakPtr
      <3>1. Notifying(stack, n) /\ n \in DOMAIN stack
        BY <1>2, <1>4, <2>1 DEF Notifying
      <3>2. n <= MaxStack
        BY <1>3, <3>1 DEF Notifiers
      <3>3. QED
        BY <1>4, <2>1, <3>2, BoundAssumption DEF WeakPtr
    <2>3. pointer[n] = r
      BY <1>1, <1>3, <1>4, <2>1, <2>2 DEF Notifiers
    <2>4. PICK pt : pt = [pointer EXCEPT ![n] = Null]
      OBVIOUS
    <2>5. pt[n] = Null /\ \A i \in 1 .. MaxStack : i # n => pt[i] = pointer[i]
      BY <1>3, <2>2, <2>4 DEF WeakPtr
    <2>6. Notifiers(Caller, pt, rep)
      BY <1>2, <1>3, <2>1, <2>5, NotifiersPop
    <2>7. Len(Caller) + 1 = n /\ n <= MaxStack
      BY <1>4, <2>1, <2>2
    <2>8. f.op \in {"invalidate", "destroy"} /\ f.of # Null /\ pointer[n] = f.of
      BY <1>5, <1>8, <2>3, ClientAssumption
    <2>9. \A i \in 1 .. MaxStack : i # n => pointer[i] = pt[i]
      BY <2>5
    <2>10. QED
      BY <1>4, <1>9, <2>6, <2>7, <2>8, <2>9, NotifiersPush
  <1>14. TypeInv'
    BY <1>2, <1>3, <1>7, <1>9 DEF TypeInv
  <1>15. QED
    BY <1>2, <1>7, <1>10, <1>11, <1>12, <1>13, <1>14 DEF BaseInv

\* A function that has a notifier returns.
LEMMA NotifierReturns ==
    ASSUME BaseInv, stack # <<>>, Top.op \in {"invalidate", "destroy"},
           Top.op = "invalidate" => functor[Top.of] # "held" \/ pointer[Len(stack)] = Null,
           DropNotifier(callbacks), stack' = Caller,
           functor' \in [Rep -> {"none", "held", "dying"}],
           \A q \in Rep : functor'[q] = "held" <=> functor[q] = "held",
           UNCHANGED <<clearing, dead, rep, owed>>
    PROVE  BaseInv'
  <1>1. /\ TypeInv /\ stack \in Seq(Frame) /\ dead \subseteq Object
        /\ callbacks \in [Trackables -> Seq(Callback)]
        /\ Typed(stack) /\ Walks(stack, clearing) /\ Called(stack, callbacks)
        /\ Losing(stack, functor, rep) /\ Notifiers(stack, pointer, rep)
        /\ Installed(callbacks) /\ Referred(callbacks, functor)
        /\ Held(functor, rep) /\ Emptied(callbacks, dead)
    BY DEF BaseInv, TypeInv
  <1>2. /\ callbacks' \in [Trackables -> Seq(Callback)]
        /\ pointer' \in [WeakPtr -> Rep \cup {Null}]
        /\ \A o \in Object : callbacks'[o] = callbacks[o]
        /\ Watched(callbacks', pointer', rep)
        /\ \A i \in 1 .. MaxStack : i # Len(stack) => pointer'[i] = pointer[i]
        /\ Len(stack) \in 1 .. MaxStack => pointer'[Len(stack)] = Null
    BY DropFacts
  <1>3. /\ Len(stack) \in Nat \ {0} /\ DOMAIN stack = 1 .. Len(stack)
        /\ Caller \in Seq(Frame) /\ Top = stack[Len(stack)]
    BY <1>1, TopFacts
  <1>4. Top.of \in Rep
    BY <1>1, <1>3 DEF Typed
  <1>5. Top.op = "invalidate" => \A o \in Object : Matches(callbacks[o], Top.of) = {}
    <2>1. ASSUME Top.op = "invalidate"
          PROVE  functor[Top.of] # "held"
      <3>1. CASE pointer[Len(stack)] # Null
        BY <2>1, <3>1
      <3>2. CASE pointer[Len(stack)] = Null
        <4>1. Notifying(stack, Len(stack)) /\ Len(stack) \in DOMAIN stack
          BY <1>3 DEF Notifying
        <4>2. rep[Top.of] = "freed"
          BY <1>1, <1>3, <1>4, <3>2, <4>1, ClientAssumption DEF Notifiers
        <4>3. QED
          BY <1>1, <1>4, <4>2 DEF Held
      <3>3. QED
        BY <3>1, <3>2
    <2>2. functor[Top.of] # "held" => \A o \in Object : Count(callbacks[o], Top.of) = 0
      BY <1>1, <1>4 DEF Referred
    <2>3. \A o \in Object : callbacks[o] \in Seq(Callback)
      BY <1>1 DEF Trackables
    <2>4. \A o \in Object : Count(callbacks[o], Top.of) = 0 => Matches(callbacks[o], Top.of) = {}
      BY <2>3, MatchesFacts
    <2>5. QED
      BY <2>1, <2>2, <2>4
  <1>6. Typed(Caller) /\ Walks(Caller, clearing)
    BY <1>1, PopWalks
  <1>7. Called(Caller, callbacks')
    <2>1. Called(Caller, callbacks)
      BY <1>1, <1>5, CalledPop
    <2>2. \A o \in Object, r \in Rep :
              o \in clearing => Matches(callbacks'[o], r) \subseteq Matches(callbacks[o], r)
      BY <1>2
    <2>3. QED
      BY <1>6, <2>1, <2>2, CalledMono
  <1>8. Losing(Caller, functor', rep)
    <2>1. Losing(Caller, functor, rep)
      BY <1>1, LosingPop
    <2>2. RepsGoOn(rep, rep) /\ NeverBoundAgain(functor, functor', rep)
      BY DEF RepsGoOn, NeverBoundAgain
    <2>3. QED
      BY <1>6, <2>1, <2>2, LosingGoesOn
  <1>9. Notifiers(Caller, pointer', rep)
    BY <1>1, <1>2, NotifiersPop
  <1>10. Installed(callbacks')
    BY <1>1, <1>2 DEF Installed
  <1>11. Referred(callbacks', functor')
    BY <1>1, <1>2 DEF Referred
  <1>12. Held(functor', rep)
    BY <1>1 DEF Held
  <1>13. Emptied(callbacks', dead)
    BY <1>1, <1>2 DEF Emptied
  <1>14. TypeInv'
    BY <1>1, <1>2, <1>3 DEF TypeInv
  <1>15. QED
    BY <1>2, <1>6, <1>7, <1>8, <1>9, <1>10, <1>11, <1>12, <1>13, <1>14 DEF BaseInv

LEMMA InvalidateResumeStep ==
    ASSUME BaseInv, InvalidateResume
    PROVE  BaseInv'
  <1>1. CASE pointer[Len(stack)] # Null /\ functor[Top.of] = "held"
    BY <1>1, InvalidateLosesStep
  <1>2. CASE ~(pointer[Len(stack)] # Null /\ functor[Top.of] = "held")
    <2>1. /\ stack # <<>> /\ Top.op = "invalidate"
          /\ DropNotifier(callbacks) /\ stack' = Caller
          /\ UNCHANGED <<functor, clearing, dead, rep, owed>>
      BY <1>2 DEF InvalidateResume, TopIs
    <2>2. functor' \in [Rep -> {"none", "held", "dying"}]
      BY <2>1 DEF BaseInv, TypeInv
    <2>3. Top.op \in {"invalidate", "destroy"}
      BY <2>1
    <2>4. \A q \in Rep : functor'[q] = "held" <=> functor[q] = "held"
      BY <2>1
    <2>5. QED
      BY <1>2, <2>1, <2>2, <2>3, <2>4, NotifierReturns
  <1>3. QED
    BY <1>1, <1>2

LEMMA FunctorDestroyedStep ==
    ASSUME BaseInv, FunctorDestroyed
    PROVE  BaseInv'
  <1>1. /\ stack # <<>> /\ Top.op = "destroy"
        /\ functor' = [functor EXCEPT ![Top.of] = "none"]
        /\ DropNotifier(callbacks) /\ stack' = Caller
        /\ UNCHANGED <<clearing, dead, rep, owed>>
    BY DEF FunctorDestroyed, TopIs
  <1>2. /\ stack \in Seq(Frame) /\ functor \in [Rep -> {"none", "held", "dying"}]
        /\ Typed(stack) /\ Losing(stack, functor, rep)
    BY DEF BaseInv, TypeInv
  <1>3. Len(stack) \in DOMAIN stack /\ Top = stack[Len(stack)]
    BY <1>1, <1>2, TopFacts
  <1>4. Top.of \in Rep /\ functor[Top.of] # "held"
    BY <1>1, <1>2, <1>3 DEF Typed, Losing
  <1>5. functor' \in [Rep -> {"none", "held", "dying"}]
    BY <1>1, <1>2
  <1>6. \A q \in Rep : functor'[q] = "held" <=> functor[q] = "held"
    BY <1>1, <1>2, <1>4
  <1>7. Top.op \in {"invalidate", "destroy"} /\ Top.op # "invalidate"
    BY <1>1
  <1>8. QED
    BY <1>1, <1>5, <1>6, <1>7, NotifierReturns

LEMMA RepDeletedStep ==
    ASSUME BaseInv, RepDeleted
    PROVE  BaseInv'
  <1>1. PICK r : r = Top.of
    OBVIOUS
  <1>2. /\ stack # <<>> /\ Top.op = "delete"
        /\ functor' = [functor EXCEPT ![r] = "none"]
        /\ Free(r)
        /\ callbacks' = [callbacks EXCEPT ![r] = <<>>]
        /\ stack' = Caller
        /\ UNCHANGED <<clearing, dead, owed>>
    BY <1>1 DEF RepDeleted, TopIs
  <1>3. /\ TypeInv /\ stack \in Seq(Frame) /\ dead \subseteq Object
        /\ functor \in [Rep -> {"none", "held", "dying"}]
        /\ Typed(stack) /\ Walks(stack, clearing) /\ Called(stack, callbacks)
        /\ Losing(stack, functor, rep) /\ Notifiers(stack, pointer, rep)
        /\ Installed(callbacks) /\ Referred(callbacks, functor)
        /\ Held(functor, rep) /\ Emptied(callbacks, dead)
    BY DEF BaseInv, TypeInv
  <1>4. /\ Len(stack) \in DOMAIN stack /\ Caller \in Seq(Frame)
        /\ Top = stack[Len(stack)]
    BY <1>2, <1>3, TopFacts
  <1>5. r \in Rep /\ functor[r] # "held"
    BY <1>1, <1>2, <1>3, <1>4 DEF Typed, Losing
  <1>6. /\ callbacks' \in [Trackables -> Seq(Callback)]
        /\ pointer' \in [WeakPtr -> Rep \cup {Null}]
        /\ rep' \in [Rep -> {"none", "live", "freed"}]
        /\ rep'[r] = "freed" /\ \A q \in Rep \ {r} : rep'[q] = rep[q]
        /\ \A o \in Object : callbacks'[o] = callbacks[o]
        /\ Watched(callbacks', pointer', rep')
        /\ PointersTold(pointer, pointer', rep')
    BY <1>2, <1>5, FreeFacts
  <1>7. /\ functor' \in [Rep -> {"none", "held", "dying"}]
        /\ \A q \in Rep : functor'[q] = "held" <=> functor[q] = "held"
    BY <1>2, <1>3, <1>5
  <1>8. Typed(Caller) /\ Walks(Caller, clearing)
    BY <1>2, <1>3, PopWalks
  <1>9. Called(Caller, callbacks')
    <2>1. Called(Caller, callbacks)
      BY <1>2, <1>3, CalledPop
    <2>2. \A o \in Object, q \in Rep :
              o \in clearing => Matches(callbacks'[o], q) \subseteq Matches(callbacks[o], q)
      BY <1>6
    <2>3. QED
      BY <1>8, <2>1, <2>2, CalledMono
  <1>10. RepsGoOn(rep, rep')
    BY <1>6 DEF RepsGoOn
  <1>11. Losing(Caller, functor', rep')
    <2>1. Losing(Caller, functor, rep)
      BY <1>2, <1>3, LosingPop
    <2>2. NeverBoundAgain(functor, functor', rep)
      BY <1>7 DEF NeverBoundAgain
    <2>3. QED
      BY <1>8, <1>10, <2>1, <2>2, LosingGoesOn
  <1>12. Notifiers(Caller, pointer', rep')
    <2>1. Notifiers(stack, pointer', rep')
      BY <1>3, <1>6, <1>10, NotifiersGoOn
    <2>2. Top.op \notin {"invalidate", "destroy"}
      BY <1>2
    <2>3. Len(stack) \in 1 .. MaxStack => pointer'[Len(stack)] = Null
      BY <1>2, <1>3, <2>1, <2>2, NoNotifier
    <2>4. QED
      BY <1>2, <1>3, <2>1, <2>3, NotifiersPop
  <1>13. Installed(callbacks')
    BY <1>3, <1>6 DEF Installed
  <1>14. Referred(callbacks', functor')
    BY <1>3, <1>6, <1>7 DEF Referred
  <1>15. Held(functor', rep')
    <2>1. \A q \in Rep : functor'[q] = "held" => q # r
      BY <1>5, <1>7
    <2>2. QED
      BY <1>3, <1>6, <1>7, <2>1 DEF Held
  <1>16. Emptied(callbacks', dead)
    BY <1>3, <1>6 DEF Emptied
  <1>17. TypeInv'
    BY <1>2, <1>3, <1>4, <1>6, <1>7 DEF TypeInv
  <1>18. QED
    BY <1>2, <1>6, <1>8, <1>9, <1>11, <1>12, <1>13, <1>14, <1>15, <1>16, <1>17 DEF BaseInv

-----------------------------------------------------------------------------
(***************************************************************************)
(* The theorems.                                                           *)
(***************************************************************************)
LEMMA InitBase ==
    ASSUME Init
    PROVE  BaseInv
  <1>1. TypeInv
    BY ClientAssumption, EmptySeq DEF Init, TypeInv
  <1>2. \A o \in Trackables : callbacks[o] = <<>>
    BY DEF Init
  <1>3. \A d : Count(<<>>, d) = 0
    <2>1. \A d : Matches(<<>>, d) = {}
      BY DEF Matches
    <2>2. QED
      BY <2>1, FS_EmptySet DEF Count
  <1>4. Installed(callbacks)
    BY <1>2 DEF Installed, DataIn, Trackables
  <1>5. Referred(callbacks, functor)
    BY <1>2, <1>3 DEF Init, Referred, Trackables
  <1>6. Held(functor, rep)
    BY DEF Init, Held
  <1>7. Emptied(callbacks, dead)
    BY DEF Init, Emptied
  <1>8. Watched(callbacks, pointer, rep)
    <2>1. \A w \in WeakPtr : pointer[w] = Null
      BY DEF Init
    <2>2. \A r \in Rep : r # Null /\ callbacks[r] = <<>>
      BY <1>2, ClientAssumption DEF Trackables
    <2>3. QED
      BY <1>3, <2>1, <2>2 DEF Watched
  <1>9. stack = <<>> /\ DOMAIN stack = {}
    BY DEF Init
  <1>10. Typed(stack) /\ Walks(stack, clearing)
    BY <1>9 DEF Typed, Walks
  <1>11. Called(stack, callbacks) /\ Losing(stack, functor, rep)
    BY <1>9 DEF Called, Losing
  <1>12. Notifiers(stack, pointer, rep)
    <2>1. \A i \in 1 .. MaxStack : pointer[i] = Null
      BY DEF Init, WeakPtr
    <2>2. QED
      BY <1>9, <2>1 DEF Notifiers
  <1>13. QED
    BY <1>1, <1>4, <1>5, <1>6, <1>7, <1>8, <1>10, <1>11, <1>12 DEF BaseInv

LEMMA StutterBase ==
    ASSUME BaseInv, UNCHANGED vars
    PROVE  BaseInv'
  <1>1. /\ callbacks' = callbacks /\ clearing' = clearing /\ dead' = dead
        /\ rep' = rep /\ functor' = functor /\ pointer' = pointer
        /\ stack' = stack /\ owed' = owed
    BY DEF vars
  <1>2. TypeInv'
    BY <1>1 DEF BaseInv, TypeInv
  <1>3. QED
    BY <1>1, <1>2 DEF BaseInv

LEMMA NextBase ==
    ASSUME WellUsed, BaseInv, [Next]_vars
    PROVE  BaseInv'
  <1>1. CASE UserOperation
    BY <1>1, UserOperationStep
  <1>2. CASE Finished
    BY <1>2, StutterBase DEF Finished
  <1>3. CASE NotifySkip
    BY <1>3, NotifySkipStep
  <1>4. CASE NotifyCall
    BY <1>4, NotifyRepStep, NotifyUserStep
  <1>5. CASE NotifyEnd
    BY <1>5, NotifyEndStep
  <1>6. CASE UserCallbackReturns
    BY <1>6, UserCallbackReturnsStep
  <1>7. CASE InvalidateResume
    BY <1>7, InvalidateResumeStep
  <1>8. CASE FunctorDestroyed
    BY <1>8, FunctorDestroyedStep
  <1>9. CASE RepDeleted
    BY <1>9, RepDeletedStep
  <1>10. CASE UNCHANGED vars
    BY <1>10, StutterBase
  <1>11. QED
    BY <1>1, <1>2, <1>3, <1>4, <1>5, <1>6, <1>7, <1>8, <1>9, <1>10 DEF Next

\* What is true of the lists, the slot_reps, the pointers and the stack
\* whenever control is with a user or between two steps of the library
\* (trackable.cc:41-155, slot_base.cc:40-90).
THEOREM TrackableInvariant == WellUsed => (Spec => []BaseInv)
  <1>1. ASSUME WellUsed PROVE Spec => []BaseInv
    <2>1. Init => BaseInv
      BY InitBase
    <2>2. BaseInv /\ [Next]_vars => BaseInv'
      BY <1>1, NextBase
    <2>3. QED
      BY <2>1, <2>2, PTL DEF Spec
  <1>2. QED
    BY <1>1

\* A functor that a slot holds refers to no object that is gone: every slot
\* is told of the end of every object that it refers to, however the
\* destructors, the disconnections and the deletions are nested
\* (trackable.h:97-99, trackable.cc:121-135, slot_base.cc:71-90).
THEOREM ReferencesDoNotDangle == WellUsed => (Spec => []NoDanglingReference)
  <1>1. BaseInv => NoDanglingReference
    <2>1. \A d : Count(<<>>, d) = 0
      <3>1. \A d : Matches(<<>>, d) = {}
        BY DEF Matches
      <3>2. QED
        BY <3>1, FS_EmptySet DEF Count
    <2>2. ASSUME BaseInv, NEW r \in Rep, NEW o \in dead, functor[r] = "held"
          PROVE  Times[r][o] = 0
      <3>1. o \in Object /\ callbacks[o] = <<>>
        BY <2>2 DEF BaseInv, TypeInv, Emptied
      <3>2. Count(callbacks[o], r) = Times[r][o]
        BY <2>2, <3>1 DEF BaseInv, Referred
      <3>3. QED
        BY <2>1, <3>1, <3>2
    <2>3. QED
      BY <2>2 DEF NoDanglingReference
  <1>2. QED
    BY <1>1, TrackableInvariant, PTL

\* The list of an object has the callbacks of the slots that refer to it, as
\* many as there are references, and none of a slot_rep that has lost its
\* functor (trackable.cc:113-155, slot.h:107-119).
THEOREM CallbacksAsReferred == WellUsed => (Spec => []RegisteredAsReferred)
  <1>1. BaseInv => RegisteredAsReferred
    BY DEF BaseInv, Referred, RegisteredAsReferred, Count
  <1>2. QED
    BY <1>1, TrackableInvariant, PTL

\* A weak pointer to a slot_rep is null when the slot_rep is gone, and the
\* slot_rep knows of each pointer to it (weak_raw_ptr.h:36-92).
THEOREM PointersAreTold == WellUsed => (Spec => []WeakPointersTold)
  <1>1. BaseInv => WeakPointersTold
    BY DEF BaseInv, Watched, WeakPointersTold, Count
  <1>2. QED
    BY <1>1, TrackableInvariant, PTL

\* Only a slot_rep that lives and has its functor begins to destroy it
\* (slot_base.cc:71-90).
THEOREM FunctorsDestroyedOnce == WellUsed => (Spec => DestroyedOnce)
  <1>1. ASSUME BaseInv, [Next]_vars, NEW r \in Rep,
               functor[r] # "dying", functor'[r] = "dying"
        PROVE  functor[r] = "held" /\ rep[r] = "live"
    <2>1. functor \in [Rep -> {"none", "held", "dying"}] /\ Held(functor, rep)
      BY <1>1 DEF BaseInv, TypeInv
    <2>2. ASSUME functor[r] = "held" PROVE rep[r] = "live"
      BY <2>1, <2>2 DEF Held
    <2>3. CASE UserOperation
      <3>1. ASSUME NEW q \in Rep, NewSlot(q) PROVE functor[r] = "held"
        BY <1>1, <2>1, <3>1 DEF NewSlot
      <3>2. ASSUME NEW q \in Rep, DeleteSlot(q) PROVE functor[r] = "held"
        BY <1>1, <2>1, <3>2 DEF DeleteSlot
      <3>3. UserOperation =>
                \/ \E q \in Rep : NewSlot(q) \/ DeleteSlot(q)
                \/ UNCHANGED functor
        BY DEF UserOperation, Watch, AddCallback, RemoveCallback, Notify, Destroy, MoveAssign
      <3>4. QED
        BY <1>1, <2>2, <2>3, <3>1, <3>2, <3>3
    <2>4. CASE NotifySkip \/ NotifyCall \/ NotifyEnd \/ UserCallbackReturns
      BY <1>1, <2>4 DEF NotifySkip, NotifyCall, NotifyEnd, UserCallbackReturns
    <2>5. CASE InvalidateResume
      BY <1>1, <2>1, <2>2, <2>5 DEF InvalidateResume
    <2>6. CASE FunctorDestroyed
      BY <1>1, <2>1, <2>6 DEF FunctorDestroyed
    <2>7. CASE RepDeleted
      BY <1>1, <2>1, <2>7 DEF RepDeleted
    <2>8. CASE UNCHANGED vars \/ Finished
      BY <1>1, <2>8 DEF Finished, vars
    <2>9. QED
      BY <1>1, <2>3, <2>4, <2>5, <2>6, <2>7, <2>8 DEF Next
  <1>2. ASSUME WellUsed PROVE Spec => DestroyedOnce
    <2>1. Spec => []BaseInv
      BY <1>2, TrackableInvariant
    <2>2. BaseInv /\ [Next]_vars =>
              [\A r \in Rep : functor[r] # "dying" /\ functor'[r] = "dying" =>
                  functor[r] = "held" /\ rep[r] = "live"]_vars
      BY <1>1
    <2>3. QED
      BY <2>1, <2>2, PTL DEF Spec, DestroyedOnce
  <1>3. QED
    BY <1>2

-----------------------------------------------------------------------------
(***************************************************************************)
(* What users installed.                                                   *)
(***************************************************************************)
\* No destructor of the list of o has passed the position k.
Reached(stk, o, k) ==
    \A i \in DOMAIN stk : Notifies(stk, i, o) => k >= stk[i].at

Remaining(stk, l, o, d) == {k \in Matches(l, d) : Reached(stk, o, k)}

\* The list of o still has to call d as often as n says; and what is registered
\* once is in the list once.
Owes(stk, cb, o, d, n) ==
    /\ Cardinality(Remaining(stk, cb[o], o, d)) = n
    /\ Count(cb[o], d) <= MaxRegistrations

OwedInv(stk, cb, ow) ==
    \A o \in Object, d \in Data : Owes(stk, cb, o, d, ow[o][d])

LEMMA ReachedPush ==
    ASSUME NEW stk \in Seq(Frame), NEW f \in Frame, NEW o, NEW k
    PROVE  Reached(Append(stk, f), o, k) <=>
              Reached(stk, o, k) /\ (f.op = "notify" /\ f.of = o => k >= f.at)
  <1>1. PICK new : new = Append(stk, f)
    OBVIOUS
  <1>2. PICK n \in Nat : n = Len(stk)
    BY PushFacts
  <1>3. /\ DOMAIN stk = 1 .. n
        /\ DOMAIN new = 1 .. n + 1
        /\ new[n + 1] = f
        /\ \A i \in 1 .. n : new[i] = stk[i]
        /\ \A i \in 1 .. n + 1 : i = n + 1 \/ i \in 1 .. n
        /\ \A i \in 1 .. n : i \in 1 .. n + 1
        /\ n + 1 \in 1 .. n + 1
    BY <1>1, <1>2, PushFacts
  <1>4. Reached(new, o, k) <=>
            /\ \A i \in 1 .. n : Notifies(new, i, o) => k >= new[i].at
            /\ Notifies(new, n + 1, o) => k >= new[n + 1].at
    BY <1>3 DEF Reached
  <1>5. Reached(stk, o, k) <=> \A i \in 1 .. n : Notifies(new, i, o) => k >= new[i].at
    BY <1>3 DEF Reached, Notifies
  <1>6. Notifies(new, n + 1, o) <=> f.op = "notify" /\ f.of = o
    BY <1>3 DEF Notifies
  <1>7. QED
    BY <1>1, <1>3, <1>4, <1>5, <1>6

LEMMA ReachedPop ==
    ASSUME stack \in Seq(Frame), stack # <<>>, NEW o, NEW k
    PROVE  Reached(stack, o, k) <=>
              Reached(Caller, o, k) /\ (Top.op = "notify" /\ Top.of = o => k >= Top.at)
  <1>1. PICK n : n = Len(stack)
    OBVIOUS
  <1>2. /\ n \in Nat \ {0}
        /\ DOMAIN stack = 1 .. n
        /\ DOMAIN Caller = 1 .. n - 1
        /\ \A i \in 1 .. n - 1 : Caller[i] = stack[i] /\ i \in 1 .. n
        /\ \A i \in 1 .. n : i = n \/ i \in 1 .. n - 1
        /\ n \in 1 .. n
        /\ Top = stack[n]
    BY <1>1, TopFacts
  <1>3. Reached(stack, o, k) <=>
            /\ \A i \in 1 .. n - 1 : Notifies(stack, i, o) => k >= stack[i].at
            /\ Notifies(stack, n, o) => k >= stack[n].at
    BY <1>2 DEF Reached
  <1>4. Reached(Caller, o, k) <=>
            \A i \in 1 .. n - 1 : Notifies(stack, i, o) => k >= stack[i].at
    BY <1>2 DEF Reached, Notifies
  <1>5. Notifies(stack, n, o) <=> Top.op = "notify" /\ Top.of = o
    BY <1>2 DEF Notifies
  <1>6. QED
    BY <1>2, <1>3, <1>4, <1>5

\* The destructors of lists have not moved.
SameReach(stk, stk2) ==
    \A o \in Object, k \in Nat : k >= 1 => (Reached(stk2, o, k) <=> Reached(stk, o, k))

\* The callbacks of a user are where they were in a list that is destroyed,
\* and as many in another.
SameDatum(cb, cb2, cl, o, d) ==
    /\ o \in cl => Matches(cb2[o], d) = Matches(cb[o], d)
    /\ Count(cb2[o], d) = Count(cb[o], d)

SameData(cb, cb2, cl) ==
    \A o \in Object, d \in Data : SameDatum(cb, cb2, cl, o, d)

LEMMA SamePush ==
    ASSUME NEW stk \in Seq(Frame), NEW f \in Frame, f.op # "notify" \/ f.at = 1
    PROVE  SameReach(stk, Append(stk, f))
  <1>1. ASSUME NEW o \in Object, NEW k \in Nat, k >= 1
        PROVE  Reached(Append(stk, f), o, k) <=> Reached(stk, o, k)
    BY <1>1, ReachedPush
  <1>2. QED
    BY <1>1 DEF SameReach

LEMMA SamePop ==
    ASSUME stack \in Seq(Frame), stack # <<>>, Top.op # "notify"
    PROVE  SameReach(stack, Caller)
  <1>1. ASSUME NEW o \in Object, NEW k \in Nat
        PROVE  Reached(Caller, o, k) <=> Reached(stack, o, k)
    BY ReachedPop
  <1>2. QED
    BY <1>1 DEF SameReach

LEMMA SameTrans ==
    ASSUME NEW s1, NEW s2, NEW s3, SameReach(s1, s2), SameReach(s2, s3)
    PROVE  SameReach(s1, s3)
  BY DEF SameReach

\* A list that is not being destroyed has to call all that it has.
LEMMA RemainsAll ==
    ASSUME NEW stk, NEW cl, Walks(stk, cl), NEW o \in Object, o \notin cl, NEW k
    PROVE  Reached(stk, o, k)
  BY DEF Walks, Reached

LEMMA OwesKept ==
    ASSUME NEW stk, NEW stk2, NEW cl, NEW cb, NEW cb2, NEW o \in Object, NEW d, NEW n,
           cb \in [Trackables -> Seq(Callback)],
           cb2 \in [Trackables -> Seq(Callback)],
           Walks(stk, cl), Owes(stk, cb, o, d, n),
           SameReach(stk, stk2), SameDatum(cb, cb2, cl, o, d)
    PROVE  Owes(stk2, cb2, o, d, n)
  <1>1. /\ Cardinality(Remaining(stk, cb[o], o, d)) = n
        /\ Count(cb[o], d) <= MaxRegistrations
    BY DEF Owes
  <1>2. Count(cb2[o], d) = Count(cb[o], d)
    BY DEF SameDatum
  <1>3. /\ \A k \in Matches(cb[o], d) : k \in Nat /\ k >= 1
        /\ \A k \in Matches(cb2[o], d) : k \in Nat /\ k >= 1
    <2>1. cb[o] \in Seq(Callback) /\ cb2[o] \in Seq(Callback)
      BY DEF Trackables
    <2>2. QED
      BY <2>1 DEF Matches
  <1>4. CASE o \in cl
    <2>1. Matches(cb2[o], d) = Matches(cb[o], d)
      BY <1>4 DEF SameDatum
    <2>2. Remaining(stk2, cb2[o], o, d) = Remaining(stk, cb[o], o, d)
      BY <1>3, <2>1 DEF Remaining, SameReach
    <2>3. QED
      BY <1>1, <1>2, <2>2 DEF Owes
  <1>5. CASE o \notin cl
    <2>1. \A k : Reached(stk, o, k)
      BY <1>5, RemainsAll
    <2>2. Remaining(stk, cb[o], o, d) = Matches(cb[o], d)
      BY <2>1 DEF Remaining
    <2>3. Remaining(stk2, cb2[o], o, d) = Matches(cb2[o], d)
      BY <1>3, <2>1 DEF Remaining, SameReach
    <2>4. QED
      BY <1>1, <1>2, <2>2, <2>3 DEF Count, Owes
  <1>6. QED
    BY <1>4, <1>5

LEMMA OwedKept ==
    ASSUME NEW stk, NEW stk2, NEW cl, NEW cb, NEW cb2, NEW ow,
           cb \in [Trackables -> Seq(Callback)],
           cb2 \in [Trackables -> Seq(Callback)],
           Walks(stk, cl), OwedInv(stk, cb, ow),
           SameReach(stk, stk2), SameData(cb, cb2, cl)
    PROVE  OwedInv(stk2, cb2, ow)
  <1>1. ASSUME NEW o \in Object, NEW d \in Data
        PROVE  Owes(stk2, cb2, o, d, ow[o][d])
    <2>1. Owes(stk, cb, o, d, ow[o][d]) /\ SameDatum(cb, cb2, cl, o, d)
      BY DEF OwedInv, SameData
    <2>2. QED
      BY <2>1, OwesKept
  <1>2. QED
    BY <1>1 DEF OwedInv

LEMMA SameLists ==
    ASSUME NEW cb, NEW cb2, NEW cl, \A o \in Object : cb2[o] = cb[o]
    PROVE  SameData(cb, cb2, cl)
  BY DEF SameData, SameDatum

LEMMA SameUnbind ==
    ASSUME BaseInv, NEW r \in Rep, functor[r] = "held"
    PROVE  SameData(callbacks, Unbind(r), clearing)
  <1>1. /\ \A o \in Object : \A d : d # r => Count(Unbind(r)[o], d) = Count(callbacks[o], d)
        /\ \A o \in clearing :
              \A d : d # r => Matches(Unbind(r)[o], d) = Matches(callbacks[o], d)
    BY UnbindFacts
  <1>2. \A d \in Data : d # r
    BY ClientAssumption
  <1>3. QED
    BY <1>1, <1>2 DEF SameData, SameDatum

LEMMA SameBind ==
    ASSUME WellUsed, BaseInv, NEW r \in Rep, NewSlot(r)
    PROVE  SameData(callbacks, callbacks', clearing)
  <1>1. functor[r] # "held"
    BY DEF NewSlot, BaseInv, Held
  <1>2. /\ callbacks' = Bind(r)
        /\ \A o \in Object : Times[r][o] > 0 => Usable(o)
    BY DEF NewSlot
  <1>3. \A o \in Object : \A d : d # r => Matches(callbacks'[o], d) = Matches(callbacks[o], d)
    BY <1>1, <1>2, BindFacts
  <1>4. \A d \in Data : d # r
    BY ClientAssumption
  <1>5. QED
    BY <1>3, <1>4 DEF SameData, SameDatum, Count

LEMMA SameWatch ==
    ASSUME BaseInv, NEW w \in Weak, NEW r \in Rep \cup {Null}, Watch(w, r)
    PROVE  SameData(callbacks, callbacks', clearing)
  <1>1. pointer[w] \in Rep \cup {Null}
    BY DEF BaseInv, TypeInv, WeakPtr
  <1>2. \A o \in Object : o # pointer[w] /\ o # r /\ o \in Trackables
    BY <1>1, ClientAssumption DEF Trackables
  <1>3. \A o \in Object : callbacks'[o] = callbacks[o]
    BY <1>2 DEF Watch
  <1>4. QED
    BY <1>3, SameLists

\* What is the same when users do anything but register callbacks.
LEMMA OperationSame ==
    ASSUME WellUsed, BaseInv, UserOperation,
           ~\E o \in Object, d \in Data : AddCallback(o, d) \/ RemoveCallback(o, d)
    PROVE  /\ SameReach(stack, stack')
           /\ SameData(callbacks, callbacks', clearing)
           /\ owed' = owed
  <1>1. stack \in Seq(Frame) /\ SameReach(stack, stack) /\ SameData(callbacks, callbacks, clearing)
    BY DEF BaseInv, TypeInv, SameReach, SameData, SameDatum
  <1>2. ASSUME NEW r \in Rep, NewSlot(r)
        PROVE  SameReach(stack, stack') /\ SameData(callbacks, callbacks', clearing) /\ owed' = owed
    <2>1. stack' = stack /\ owed' = owed
      BY <1>2 DEF NewSlot
    <2>2. QED
      BY <1>1, <1>2, <2>1, SameBind
  <1>3. ASSUME NEW r \in Rep, DeleteSlot(r)
        PROVE  SameReach(stack, stack') /\ SameData(callbacks, callbacks', clearing) /\ owed' = owed
    <2>1. owed' = owed
      BY <1>3 DEF DeleteSlot
    <2>2. CASE functor[r] = "held"
      <3>1. callbacks' = Unbind(r) /\ stack' = Append(stack, Call("delete", r))
        BY <1>3, <2>2 DEF DeleteSlot
      <3>2. Call("delete", r) \in Frame /\ Call("delete", r).op # "notify"
        BY FrameFacts
      <3>3. SameReach(stack, stack')
        BY <1>1, <3>1, <3>2, SamePush
      <3>4. SameData(callbacks, callbacks', clearing)
        BY <2>2, <3>1, SameUnbind
      <3>5. QED
        BY <2>1, <3>3, <3>4
    <2>3. CASE functor[r] # "held"
      <3>1. callbacks' = [callbacks EXCEPT ![r] = <<>>] /\ stack' = stack
        BY <1>3, <2>3 DEF DeleteSlot
      <3>2. \A o \in Object : callbacks'[o] = callbacks[o]
        BY <3>1, ClientAssumption DEF BaseInv, TypeInv, Trackables
      <3>3. SameData(callbacks, callbacks', clearing)
        BY <3>2, SameLists
      <3>4. QED
        BY <1>1, <2>1, <3>1, <3>3
    <2>4. QED
      BY <2>2, <2>3
  <1>4. ASSUME NEW w \in Weak, NEW r \in Rep \cup {Null}, Watch(w, r)
        PROVE  SameReach(stack, stack') /\ SameData(callbacks, callbacks', clearing) /\ owed' = owed
    <2>1. stack' = stack /\ owed' = owed
      BY <1>4 DEF Watch
    <2>2. QED
      BY <1>1, <1>4, <2>1, SameWatch
  <1>5. ASSUME NEW o \in Object,
               NEW after \in {<<>>, <<"dies">>} \cup {<<s>> : s \in Object}, Notify(o, after)
        PROVE  SameReach(stack, stack') /\ SameData(callbacks, callbacks', clearing) /\ owed' = owed
    <2>1. PICK f : f = [Call("notify", o) EXCEPT !.after = after]
      OBVIOUS
    <2>2. f \in Frame /\ f.at = 1
      BY <2>1 DEF Call, Frame
    <2>3. stack' = Append(stack, f) /\ callbacks' = callbacks /\ owed' = owed
      BY <1>5, <2>1 DEF Notify
    <2>4. SameReach(stack, stack')
      BY <1>1, <2>2, <2>3, SamePush
    <2>5. QED
      BY <1>1, <2>3, <2>4
  <1>6. ASSUME NEW o \in Object, Notify(o, <<>>) \/ Destroy(o)
        PROVE  SameReach(stack, stack') /\ SameData(callbacks, callbacks', clearing) /\ owed' = owed
    BY <1>5, <1>6 DEF Destroy
  <1>7. ASSUME NEW o \in Object, NEW src \in Object, MoveAssign(o, src)
        PROVE  SameReach(stack, stack') /\ SameData(callbacks, callbacks', clearing) /\ owed' = owed
    <2>1. <<src>> \in {<<>>, <<"dies">>} \cup {<<s>> : s \in Object}
      OBVIOUS
    <2>2. Notify(o, <<src>>)
      BY <1>7 DEF MoveAssign
    <2>3. QED
      BY <1>5, <2>1, <2>2
  <1>8. QED
    BY <1>2, <1>3, <1>4, <1>6, <1>7 DEF UserOperation

LEMMA AddCallbackOwes ==
    ASSUME WellUsed, BaseInv, NEW o \in Object, NEW d \in Data, AddCallback(o, d),
           OwedInv(stack, callbacks, owed)
    PROVE  OwedInv(stack', callbacks', owed')
  <1>1. /\ callbacks \in [Trackables -> Seq(Callback)]
        /\ owed \in [Object -> [Data -> Int]]
        /\ Walks(stack, clearing)
        /\ o \in Trackables /\ Object \subseteq Trackables
    BY DEF BaseInv, TypeInv, Trackables
  <1>2. /\ o \notin clearing /\ stack' = stack
        /\ owed[o][d] < MaxRegistrations
        /\ owed' = [owed EXCEPT ![o][d] = @ + 1]
    BY DEF AddCallback, Usable, WellUsed
  <1>3. PICK one \in Nat : one = 1
    OBVIOUS
  <1>4. PICK m : m = Added(o, d, one)
    OBVIOUS
  <1>5. d \in Rep \cup Data \cup WeakPtr
    OBVIOUS
  <1>6. /\ m \in Seq(Callback)
        /\ \A e : e # d => Matches(m, e) = Matches(callbacks[o], e)
        /\ o \notin clearing => Count(m, d) = Count(callbacks[o], d) + one
    BY <1>1, <1>3, <1>4, <1>5, AddedFacts
  <1>7. callbacks' = [callbacks EXCEPT ![o] = m]
    BY <1>3, <1>4 DEF AddCallback
  <1>8. /\ callbacks' \in [Trackables -> Seq(Callback)]
        /\ callbacks'[o] = m
        /\ \A u \in Object : u # o => callbacks'[u] = callbacks[u]
    BY <1>1, <1>6, <1>7
  <1>9. \A u \in Object, e \in Data :
            owed'[u][e] = IF u = o /\ e = d THEN owed[o][d] + 1 ELSE owed[u][e]
    BY <1>1, <1>2
  <1>10. \A k : Reached(stack, o, k)
    BY <1>1, <1>2, RemainsAll
  <1>11. Owes(stack, callbacks', o, d, owed[o][d] + 1)
    <2>1. Owes(stack, callbacks, o, d, owed[o][d])
      BY DEF OwedInv
    <2>2. Count(callbacks[o], d) = owed[o][d]
      BY <1>10, <2>1 DEF Owes, Remaining, Count
    <2>3. Count(m, d) = owed[o][d] + 1
      BY <1>2, <1>3, <1>6, <2>2
    <2>4. Cardinality(Remaining(stack, m, o, d)) = owed[o][d] + 1
      BY <1>10, <2>3 DEF Remaining, Count
    <2>5. owed[o][d] + 1 <= MaxRegistrations
      BY <1>1, <1>2, BoundAssumption
    <2>6. QED
      BY <1>8, <2>3, <2>4, <2>5 DEF Owes
  <1>12. ASSUME NEW u \in Object, NEW e \in Data, ~(u = o /\ e = d)
         PROVE  Owes(stack, callbacks', u, e, owed[u][e])
    <2>1. Matches(callbacks'[u], e) = Matches(callbacks[u], e)
      BY <1>6, <1>8, <1>12
    <2>2. Owes(stack, callbacks, u, e, owed[u][e])
      BY DEF OwedInv
    <2>3. QED
      BY <2>1, <2>2 DEF Owes, Remaining, Count
  <1>13. QED
    BY <1>2, <1>9, <1>11, <1>12 DEF OwedInv

\* remove_callback() finds the one registration that there is.
LEMMA RemoveCallbackOwes ==
    ASSUME BaseInv, BaseInv', NEW o \in Object, NEW d \in Data, RemoveCallback(o, d),
           MaxRegistrations <= 1, OwedInv(stack, callbacks, owed)
    PROVE  OwedInv(stack', callbacks', owed')
  <1>1. /\ callbacks \in [Trackables -> Seq(Callback)]
        /\ callbacks' \in [Trackables -> Seq(Callback)]
        /\ owed \in [Object -> [Data -> Int]]
        /\ Walks(stack, clearing)
        /\ o \in Trackables /\ Object \subseteq Trackables
    BY DEF BaseInv, TypeInv, Trackables
  <1>2. /\ stack' = stack /\ owed[o][d] > 0
        /\ owed' = [owed EXCEPT ![o][d] = @ - 1]
    BY DEF RemoveCallback
  <1>3. PICK one \in Nat : one = 1
    OBVIOUS
  <1>4. PICK m : m = Removed(o, d, one)
    OBVIOUS
  <1>5. /\ m \in Seq(Callback)
        /\ \A e : e # d => Count(m, e) = Count(callbacks[o], e)
        /\ Count(callbacks[o], d) <= one => Count(m, d) = 0
        /\ o \in clearing => \A e : e # d => Matches(m, e) = Matches(callbacks[o], e)
    <2>1. callbacks \in [Trackables -> Seq(Callback)] /\ o \in Trackables
      BY <1>1
    <2>2. QED
      BY <1>3, <1>4, <2>1, RemovedFacts
  <1>6. callbacks' = [callbacks EXCEPT ![o] = m]
    BY <1>3, <1>4 DEF RemoveCallback
  <1>7. /\ callbacks'[o] = m
        /\ \A u \in Object : u # o => callbacks'[u] = callbacks[u]
    BY <1>1, <1>6
  <1>8. \A u \in Object, e \in Data :
            owed'[u][e] = IF u = o /\ e = d THEN owed[o][d] - 1 ELSE owed[u][e]
    BY <1>1, <1>2
  <1>9. Owes(stack, callbacks', o, d, owed[o][d] - 1)
    <2>1. Owes(stack, callbacks, o, d, owed[o][d])
      BY DEF OwedInv
    <2>2. callbacks[o] \in Seq(Callback)
      BY <1>1
    <2>3. IsFiniteSet(Matches(callbacks[o], d)) /\ Count(callbacks[o], d) \in Nat
      BY <2>2, MatchesFacts
    <2>4. Count(callbacks[o], d) <= 1
      BY <2>1, <2>3, BoundAssumption DEF Owes
    <2>5. owed[o][d] <= Count(callbacks[o], d)
      <3>1. Remaining(stack, callbacks[o], o, d) \in SUBSET Matches(callbacks[o], d)
        BY DEF Remaining
      <3>2. Cardinality(Remaining(stack, callbacks[o], o, d)) <= Cardinality(Matches(callbacks[o], d))
        BY <2>3, <3>1, FS_Subset
      <3>3. QED
        BY <2>1, <3>2 DEF Owes, Count
    <2>6. owed[o][d] - 1 = 0
      BY <1>1, <1>2, <2>3, <2>4, <2>5
    <2>7. Count(m, d) = 0
      BY <1>3, <1>5, <2>4
    <2>8. Matches(m, d) = {}
      BY <1>5, <2>7, MatchesFacts
    <2>9. Cardinality(Remaining(stack, m, o, d)) = 0
      BY <2>8, FS_EmptySet DEF Remaining
    <2>10. 0 <= MaxRegistrations
      BY BoundAssumption
    <2>11. QED
      BY <1>7, <2>6, <2>7, <2>9, <2>10 DEF Owes
  <1>10. ASSUME NEW u \in Object, NEW e \in Data, ~(u = o /\ e = d)
         PROVE  Owes(stack, callbacks', u, e, owed[u][e])
    <2>1. SameDatum(callbacks, callbacks', clearing, u, e)
      BY <1>5, <1>7, <1>10 DEF SameDatum
    <2>2. Owes(stack, callbacks, u, e, owed[u][e])
      BY DEF OwedInv
    <2>3. SameReach(stack, stack)
      BY DEF SameReach
    <2>4. QED
      BY <1>1, <2>1, <2>2, <2>3, OwesKept
  <1>11. QED
    BY <1>2, <1>8, <1>9, <1>10 DEF OwedInv

LEMMA NotifySkipOwes ==
    ASSUME BaseInv, NotifySkip, OwedInv(stack, callbacks, owed)
    PROVE  OwedInv(stack', callbacks', owed')
  <1>1. /\ TopIs("notify")
        /\ ~callbacks[Top.of][Top.at].func
        /\ stack' = Append(Caller, Next1)
        /\ callbacks' = callbacks /\ owed' = owed
    BY DEF NotifySkip
  <1>2. /\ stack \in Seq(Frame) /\ callbacks \in [Trackables -> Seq(Callback)]
        /\ Typed(stack)
    BY DEF BaseInv, TypeInv
  <1>3. stack # <<>> /\ Top.op = "notify"
    BY <1>1 DEF TopIs
  <1>4. /\ Top \in Frame /\ Caller \in Seq(Frame)
        /\ Len(stack) \in DOMAIN stack /\ Top = stack[Len(stack)]
    BY <1>2, <1>3, TopFacts
  <1>5. PICK f \in Frame : /\ f = Next1 /\ f.op = "notify" /\ f.of = Top.of
                           /\ f.at = Top.at + 1
    BY <1>3, <1>4, FrameFacts
  <1>6. stack' = Append(Caller, f)
    BY <1>1, <1>5
  <1>7. Top.at \in Nat
    BY <1>4 DEF Frame
  <1>8. ASSUME NEW o \in Object, NEW d \in Data, NEW k \in Matches(callbacks[o], d)
        PROVE  Reached(stack', o, k) <=> Reached(stack, o, k)
    <2>1. Reached(stack', o, k) <=> Reached(Caller, o, k) /\ (Top.of = o => k >= Top.at + 1)
      BY <1>4, <1>5, <1>6, ReachedPush
    <2>2. Reached(stack, o, k) <=> Reached(Caller, o, k) /\ (Top.of = o => k >= Top.at)
      BY <1>2, <1>3, ReachedPop
    <2>3. k \in Nat
      <3>1. callbacks[o] \in Seq(Callback)
        BY <1>2 DEF Trackables
      <3>2. QED
        BY <3>1 DEF Matches
    <2>4. Top.of = o => k # Top.at
      BY <1>1 DEF Matches
    <2>5. QED
      BY <1>7, <2>1, <2>2, <2>3, <2>4
  <1>9. \A o \in Object, d \in Data :
            Remaining(stack', callbacks[o], o, d) = Remaining(stack, callbacks[o], o, d)
    BY <1>8 DEF Remaining
  <1>10. QED
    BY <1>1, <1>9 DEF OwedInv, Owes

\* What is called is owed no more, and all else still is.
LEMMA NotifyCallOwes ==
    ASSUME BaseInv, NotifyCall, OwedInv(stack, callbacks, owed)
    PROVE  OwedInv(stack', callbacks', owed')
  <1>1. PICK c : c = callbacks[Top.of][Top.at].data
    OBVIOUS
  <1>2. PICK g : g = IF c \in Rep THEN Call("invalidate", c) ELSE Call("user", c)
    OBVIOUS
  <1>3. /\ TopIs("notify")
        /\ Top.at <= Len(callbacks[Top.of])
        /\ callbacks[Top.of][Top.at].func
        /\ stack' = Append(Caller, Next1) \o <<g>>
        /\ c \in Rep => owed' = owed /\ callbacks' =
              [callbacks EXCEPT ![c] = Added(c, Len(stack) + 1, 1)]
        /\ c \notin Rep => /\ callbacks' = callbacks
                           /\ owed' = [owed EXCEPT ![Top.of][c] = @ - 1]
    BY <1>1, <1>2 DEF NotifyCall
  <1>4. /\ stack \in Seq(Frame) /\ callbacks \in [Trackables -> Seq(Callback)]
        /\ owed \in [Object -> [Data -> Int]]
        /\ Typed(stack) /\ Walks(stack, clearing)
    BY DEF BaseInv, TypeInv
  <1>5. stack # <<>> /\ Top.op = "notify"
    BY <1>3 DEF TopIs
  <1>6. /\ Top \in Frame /\ Caller \in Seq(Frame)
        /\ Len(stack) \in DOMAIN stack /\ Top = stack[Len(stack)]
    BY <1>4, <1>5, TopFacts
  <1>7. /\ Top.of \in Object /\ c \in Rep \cup Data
        /\ Top.at \in DOMAIN callbacks[Top.of]
    BY <1>1, <1>3, PassedNext
  <1>8. g \in Frame /\ g.op # "notify"
    BY <1>2, <1>7, FrameFacts
  <1>9. PICK f \in Frame, mid \in Seq(Frame) :
               /\ f = Next1 /\ f.op = "notify" /\ f.of = Top.of
               /\ f.at = Top.at + 1 /\ f.at >= 1 /\ f.after = Top.after
               /\ mid = Append(Caller, f)
               /\ Append(Caller, Next1) \o <<g>> = Append(mid, g)
               /\ Append(mid, g) \in Seq(Frame)
               /\ Len(mid) = Len(stack)
    BY <1>3, <1>4, <1>8, CallFrames
  <1>10. stack' = Append(mid, g)
    BY <1>3, <1>9
  <1>11. Top.at \in Nat
    BY <1>6 DEF Frame
  <1>12. \A o \in Object : callbacks'[o] = callbacks[o]
    BY <1>3, <1>4, ClientAssumption DEF Trackables
  <1>13. ASSUME NEW o \in Object, NEW d \in Data, NEW k \in Matches(callbacks[o], d)
         PROVE  Reached(stack', o, k) <=>
                    Reached(stack, o, k) /\ ~(Top.of = o /\ k = Top.at)
    <2>1. Reached(mid, o, k) <=> Reached(Caller, o, k) /\ (Top.of = o => k >= Top.at + 1)
      BY <1>6, <1>9, ReachedPush
    <2>2. Reached(stack', o, k) <=> Reached(mid, o, k)
      BY <1>8, <1>9, <1>10, ReachedPush
    <2>3. Reached(stack, o, k) <=> Reached(Caller, o, k) /\ (Top.of = o => k >= Top.at)
      BY <1>4, <1>5, ReachedPop
    <2>4. k \in Nat
      <3>1. callbacks[o] \in Seq(Callback)
        BY <1>4 DEF Trackables
      <3>2. QED
        BY <3>1 DEF Matches
    <2>5. QED
      BY <1>11, <2>1, <2>2, <2>3, <2>4
  <1>14. ASSUME NEW o \in Object, NEW d \in Data, ~(Top.of = o /\ c = d)
         PROVE  Owes(stack', callbacks', o, d, owed[o][d])
    <2>1. \A k \in Matches(callbacks[o], d) : ~(Top.of = o /\ k = Top.at)
      BY <1>1, <1>14 DEF Matches
    <2>2. Remaining(stack', callbacks[o], o, d) = Remaining(stack, callbacks[o], o, d)
      BY <1>13, <2>1 DEF Remaining
    <2>3. Owes(stack, callbacks, o, d, owed[o][d])
      BY DEF OwedInv
    <2>4. QED
      BY <1>12, <2>2, <2>3 DEF Owes
  <1>15. CASE c \in Rep
    <2>1. \A d \in Data : d # c
      BY <1>15, ClientAssumption
    <2>2. QED
      BY <1>3, <1>14, <1>15, <2>1 DEF OwedInv
  <1>16. CASE c \notin Rep
    <2>1. PICK o \in Object : o = Top.of
      BY <1>7
    <2>2. c \in Data
      BY <1>7, <1>16
    <2>3. \A u \in Object, e \in Data :
              owed'[u][e] = IF u = o /\ e = c THEN owed[o][c] - 1 ELSE owed[u][e]
      BY <1>3, <1>4, <1>16, <2>1, <2>2
    <2>4. Owes(stack', callbacks', o, c, owed[o][c] - 1)
      <3>1. Owes(stack, callbacks, o, c, owed[o][c])
        BY <2>2 DEF OwedInv
      <3>2. PICK S : S = Remaining(stack, callbacks[o], o, c)
        OBVIOUS
      <3>3. IsFiniteSet(S) /\ Cardinality(S) = owed[o][c]
        <4>1. callbacks[o] \in Seq(Callback)
          BY <1>4 DEF Trackables
        <4>2. IsFiniteSet(Matches(callbacks[o], c))
          BY <4>1, MatchesFacts
        <4>3. S \in SUBSET Matches(callbacks[o], c)
          BY <3>2 DEF Remaining
        <4>4. QED
          BY <3>1, <3>2, <4>2, <4>3, FS_Subset DEF Owes
      <3>4. Top.at \in S
        <4>1. Top.at \in Matches(callbacks[o], c)
          BY <1>1, <1>3, <1>7, <2>1 DEF Matches
        <4>2. Reached(stack, o, Top.at)
          <5>1. Notifies(stack, Len(stack), o)
            BY <1>5, <1>6, <2>1 DEF Notifies
          <5>2. \A i \in DOMAIN stack : Notifies(stack, i, o) => i = Len(stack)
            BY <1>4, <1>6, <5>1 DEF Walks
          <5>3. Top.at >= Top.at
            BY <1>11
          <5>4. QED
            BY <1>6, <5>2, <5>3 DEF Reached
        <4>3. QED
          BY <3>2, <4>1, <4>2 DEF Remaining
      <3>5. Remaining(stack', callbacks[o], o, c) = S \ {Top.at}
        BY <1>13, <2>1, <2>2, <3>2 DEF Remaining
      <3>6. Cardinality(S \ {Top.at}) = Cardinality(S) - 1
        BY <3>3, <3>4, FS_RemoveElement
      <3>7. QED
        BY <1>12, <3>1, <3>3, <3>5, <3>6 DEF Owes
    <2>5. QED
      BY <1>14, <2>1, <2>3, <2>4 DEF OwedInv
  <1>17. QED
    BY <1>15, <1>16

\* Nothing that the list had to call is left when it ends.
LEMMA NotifyEndOwes ==
    ASSUME BaseInv, NotifyEnd, OwedInv(stack, callbacks, owed)
    PROVE  OwedInv(stack', callbacks', owed')
  <1>1. PICK t : t = Top.of
    OBVIOUS
  <1>2. /\ TopIs("notify")
        /\ Top.at > Len(callbacks[t])
        /\ callbacks' = [callbacks EXCEPT ![t] = <<>>]
        /\ owed' = owed
    BY <1>1 DEF NotifyEnd
  <1>3. /\ stack \in Seq(Frame) /\ callbacks \in [Trackables -> Seq(Callback)]
        /\ owed \in [Object -> [Data -> Int]]
        /\ Typed(stack)
    BY DEF BaseInv, TypeInv
  <1>4. stack # <<>> /\ Top.op = "notify"
    BY <1>2 DEF TopIs
  <1>5. /\ Top \in Frame /\ Caller \in Seq(Frame)
        /\ Len(stack) \in DOMAIN stack /\ Top = stack[Len(stack)]
    BY <1>3, <1>4, TopFacts
  <1>6. t \in Object /\ Top.at \in Nat
    BY <1>1, <1>3, <1>4, <1>5 DEF Typed, Frame
  <1>7. /\ callbacks'[t] = <<>>
        /\ \A o \in Object : o # t => callbacks'[o] = callbacks[o]
    BY <1>2, <1>3, <1>6 DEF Trackables
  <1>8. SameReach(Caller, stack')
    <2>1. CASE Top.after \in {<<>>, <<"dies">>}
      <3>1. stack' = Caller
        BY <2>1 DEF NotifyEnd
      <3>2. QED
        BY <3>1 DEF SameReach
    <2>2. CASE Top.after \notin {<<>>, <<"dies">>}
      <3>1. PICK src \in Object : Top.after = <<src>>
        BY <1>5, <2>2 DEF Frame
      <3>2. Head(Top.after) = src
        BY <3>1
      <3>3. PICK f \in Frame : f = Call("notify", src) /\ f.at = 1
        BY FrameFacts
      <3>4. stack' = Append(Caller, f)
        BY <2>2, <3>2, <3>3 DEF NotifyEnd
      <3>5. QED
        BY <1>5, <3>3, <3>4, SamePush
    <2>3. QED
      BY <2>1, <2>2
  <1>9. ASSUME NEW o \in Object, NEW d \in Data
        PROVE  Owes(stack', callbacks', o, d, owed[o][d])
    <2>1. Owes(stack, callbacks, o, d, owed[o][d])
      BY DEF OwedInv
    <2>2. \A k \in Matches(callbacks[o], d) : k \in Nat /\ k >= 1 /\ k <= Len(callbacks[o])
      <3>1. callbacks[o] \in Seq(Callback)
        BY <1>3 DEF Trackables
      <3>2. QED
        BY <3>1 DEF Matches
    <2>3. CASE o = t
      <3>1. \A k \in Matches(callbacks[o], d) : ~Reached(stack, o, k)
        <4>1. ASSUME NEW k \in Matches(callbacks[o], d), Reached(stack, o, k)
              PROVE  FALSE
          <5>1. k >= Top.at
            BY <1>1, <1>3, <1>4, <2>3, <4>1, ReachedPop
          <5>2. Len(callbacks[o]) \in Nat
            <6>1. callbacks[o] \in Seq(Callback)
              BY <1>3 DEF Trackables
            <6>2. QED
              BY <6>1
          <5>3. QED
            BY <1>2, <1>6, <2>2, <2>3, <5>1, <5>2
        <4>2. QED
          BY <4>1
      <3>2. Remaining(stack, callbacks[o], o, d) = {}
        BY <3>1 DEF Remaining
      <3>3. owed[o][d] = 0
        BY <2>1, <3>2, FS_EmptySet DEF Owes
      <3>4. Matches(callbacks'[o], d) = {}
        BY <1>7, <2>3 DEF Matches
      <3>5. Remaining(stack', callbacks'[o], o, d) = {}
        BY <3>4 DEF Remaining
      <3>6. Cardinality({}) = 0 /\ 0 <= MaxRegistrations
        BY FS_EmptySet, BoundAssumption
      <3>7. QED
        BY <3>3, <3>4, <3>5, <3>6 DEF Owes, Count
    <2>4. CASE o # t
      <3>1. \A k : Reached(Caller, o, k) <=> Reached(stack, o, k)
        BY <1>1, <1>3, <1>4, <2>4, ReachedPop
      <3>2. Remaining(stack', callbacks[o], o, d) = Remaining(stack, callbacks[o], o, d)
        BY <1>8, <2>2, <3>1 DEF Remaining, SameReach
      <3>3. QED
        BY <1>7, <2>1, <2>4, <3>2 DEF Owes
    <2>5. QED
      BY <2>3, <2>4
  <1>10. QED
    BY <1>2, <1>9 DEF OwedInv

\* A function of the library that is no notification returns or goes on.
LEMMA ReturnSame ==
    ASSUME BaseInv, UserCallbackReturns \/ InvalidateResume \/ FunctorDestroyed \/ RepDeleted
    PROVE  /\ SameReach(stack, stack')
           /\ SameData(callbacks, callbacks', clearing)
           /\ owed' = owed
  <1>1. /\ stack \in Seq(Frame) /\ callbacks \in [Trackables -> Seq(Callback)]
        /\ Typed(stack)
    BY DEF BaseInv, TypeInv
  <1>2. stack # <<>> /\ Top.op \in {"user", "invalidate", "destroy", "delete"}
    BY DEF UserCallbackReturns, InvalidateResume, FunctorDestroyed, RepDeleted, TopIs
  <1>3. /\ Caller \in Seq(Frame)
        /\ Len(stack) \in DOMAIN stack /\ Top = stack[Len(stack)]
    BY <1>1, <1>2, TopFacts
  <1>4. Top.op # "user" => Top.of \in Rep
    BY <1>1, <1>2, <1>3 DEF Typed
  <1>5. SameReach(stack, Caller)
    BY <1>1, <1>2, SamePop
  <1>6. ASSUME DropNotifier(callbacks), Top.op \in {"invalidate", "destroy"}
        PROVE  SameData(callbacks, callbacks', clearing)
    <2>1. \A o \in Object : callbacks'[o] = callbacks[o]
      BY <1>2, <1>6, DropFacts
    <2>2. QED
      BY <2>1, SameLists
  <1>7. CASE UserCallbackReturns
    <2>1. stack' = Caller /\ callbacks' = callbacks /\ owed' = owed
      BY <1>7 DEF UserCallbackReturns
    <2>2. QED
      BY <1>5, <2>1, SameLists
  <1>8. CASE InvalidateResume
    <2>1. owed' = owed /\ Top.op = "invalidate"
      BY <1>8 DEF InvalidateResume, TopIs
    <2>2. CASE pointer[Len(stack)] # Null /\ functor[Top.of] = "held"
      <3>1. PICK r \in Rep : r = Top.of
        BY <1>4, <2>1
      <3>2. callbacks' = Unbind(r) /\ stack' = Append(Caller, Call("destroy", r))
        BY <1>8, <2>2, <3>1 DEF InvalidateResume
      <3>3. Call("destroy", r) \in Frame /\ Call("destroy", r).op # "notify"
        BY FrameFacts
      <3>4. SameReach(Caller, stack')
        BY <1>3, <3>2, <3>3, SamePush
      <3>5. SameData(callbacks, callbacks', clearing)
        BY <2>2, <3>1, <3>2, SameUnbind
      <3>6. SameReach(stack, stack')
        BY <1>5, <3>4, SameTrans
      <3>7. QED
        BY <2>1, <3>5, <3>6
    <2>3. CASE ~(pointer[Len(stack)] # Null /\ functor[Top.of] = "held")
      <3>1. DropNotifier(callbacks) /\ stack' = Caller
        BY <1>8, <2>3 DEF InvalidateResume
      <3>2. QED
        BY <1>5, <1>6, <2>1, <3>1
    <2>4. QED
      BY <2>2, <2>3
  <1>9. CASE FunctorDestroyed
    <2>1. /\ owed' = owed /\ stack' = Caller /\ Top.op = "destroy"
          /\ DropNotifier(callbacks)
      BY <1>9 DEF FunctorDestroyed, TopIs
    <2>2. QED
      BY <1>5, <1>6, <2>1
  <1>10. CASE RepDeleted
    <2>1. /\ owed' = owed /\ stack' = Caller /\ Top.op = "delete"
          /\ callbacks' = [callbacks EXCEPT ![Top.of] = <<>>]
      BY <1>10 DEF RepDeleted, TopIs
    <2>2. \A o \in Object : callbacks'[o] = callbacks[o]
      BY <1>1, <1>4, <2>1, ClientAssumption DEF Trackables
    <2>3. SameData(callbacks, callbacks', clearing)
      BY <2>2, SameLists
    <2>4. QED
      BY <1>5, <2>1, <2>3
  <1>11. QED
    BY <1>7, <1>8, <1>9, <1>10

\* Users register a callback once with an object, until it is removed.
OnceEach == MaxRegistrations <= 1

LEMMA NextOwes ==
    ASSUME WellUsed, OnceEach, BaseInv, [Next]_vars,
           OwedInv(stack, callbacks, owed)
    PROVE  OwedInv(stack', callbacks', owed')
  <1>1. BaseInv'
    BY NextBase
  <1>2. /\ callbacks \in [Trackables -> Seq(Callback)]
        /\ callbacks' \in [Trackables -> Seq(Callback)]
        /\ Walks(stack, clearing)
    BY <1>1 DEF BaseInv, TypeInv
  <1>3. ASSUME SameReach(stack, stack'), SameData(callbacks, callbacks', clearing), owed' = owed
        PROVE  OwedInv(stack', callbacks', owed')
    BY <1>2, <1>3, OwedKept
  <1>4. ASSUME NEW o \in Object, NEW d \in Data, AddCallback(o, d)
        PROVE  OwedInv(stack', callbacks', owed')
    BY <1>4, AddCallbackOwes
  <1>5. ASSUME NEW o \in Object, NEW d \in Data, RemoveCallback(o, d)
        PROVE  OwedInv(stack', callbacks', owed')
    BY <1>1, <1>5, RemoveCallbackOwes DEF OnceEach
  <1>6. CASE UserOperation
    BY <1>3, <1>4, <1>5, <1>6, OperationSame
  <1>7. CASE Finished \/ UNCHANGED vars
    BY <1>7 DEF Finished, vars
  <1>8. CASE NotifySkip
    BY <1>8, NotifySkipOwes
  <1>9. CASE NotifyCall
    BY <1>9, NotifyCallOwes
  <1>10. CASE NotifyEnd
    BY <1>10, NotifyEndOwes
  <1>11. CASE UserCallbackReturns \/ InvalidateResume \/ FunctorDestroyed \/ RepDeleted
    BY <1>3, <1>11, ReturnSame
  <1>12. QED
    BY <1>6, <1>7, <1>8, <1>9, <1>10, <1>11 DEF Next

LEMMA InitOwes ==
    ASSUME Init
    PROVE  OwedInv(stack, callbacks, owed)
  <1>1. ASSUME NEW o \in Object, NEW d \in Data
        PROVE  Owes(stack, callbacks, o, d, owed[o][d])
    <2>1. callbacks[o] = <<>> /\ owed[o][d] = 0
      BY DEF Init, Trackables
    <2>2. Matches(<<>>, d) = {}
      BY DEF Matches
    <2>3. Remaining(stack, <<>>, o, d) = {}
      BY <2>2 DEF Remaining
    <2>4. Cardinality({}) = 0 /\ 0 <= MaxRegistrations
      BY FS_EmptySet, BoundAssumption
    <2>5. QED
      BY <2>1, <2>2, <2>3, <2>4 DEF Owes, Count
  <1>2. QED
    BY <1>1 DEF OwedInv

LEMMA OwedInvariant ==
    ASSUME WellUsed, OnceEach
    PROVE  Spec => [](BaseInv /\ OwedInv(stack, callbacks, owed))
  <1>1. Init => BaseInv /\ OwedInv(stack, callbacks, owed)
    BY InitBase, InitOwes
  <1>2. BaseInv /\ OwedInv(stack, callbacks, owed) /\ [Next]_vars =>
            (BaseInv /\ OwedInv(stack, callbacks, owed))'
    BY NextBase, NextOwes
  <1>3. QED
    BY <1>1, <1>2, PTL DEF Spec

\* Every callback that a user installed is called once, in the notification of
\* its object, unless it is removed first, whatever the callbacks do to the
\* list they are in (trackable.cc:102-155).
THEOREM CallbacksCalledOnce ==
    WellUsed /\ OnceEach => (Spec => []CallsMatchRegistrations)
  <1>1. OwedInv(stack, callbacks, owed) => CallsMatchRegistrations
    <2>1. ASSUME NEW o \in Object, NEW d \in Data,
                 Owes(stack, callbacks, o, d, owed[o][d]),
                 NEW walks, walks = {i \in Frames("notify") : stack[i].of = o}
          PROVE  owed[o][d] = Cardinality({k \in Matches(callbacks[o], d) :
                                            \A i \in walks : k >= stack[i].at})
      <3>1. \A i : i \in walks <=> i \in DOMAIN stack /\ Notifies(stack, i, o)
        BY <2>1 DEF Frames, Notifies
      <3>2. Remaining(stack, callbacks[o], o, d) =
                {k \in Matches(callbacks[o], d) : \A i \in walks : k >= stack[i].at}
        BY <3>1 DEF Remaining, Reached
      <3>3. QED
        BY <2>1, <3>2 DEF Owes
    <2>2. QED
      BY <2>1 DEF OwedInv, CallsMatchRegistrations
  <1>2. ASSUME WellUsed, OnceEach PROVE Spec => []CallsMatchRegistrations
    <2>1. Spec => [](BaseInv /\ OwedInv(stack, callbacks, owed))
      BY <1>2, OwedInvariant
    <2>2. QED
      BY <1>1, <2>1, PTL
  <1>3. QED
    BY <1>2

\* Every variable has a value of its type, and no more is owed to a user than
\* was registered.
THEOREM TrackableTypes == WellUsed /\ OnceEach => (Spec => []TypeOK)
  <1>1. BaseInv /\ OwedInv(stack, callbacks, owed) => TypeOK
    <2>1. SUFFICES ASSUME BaseInv, OwedInv(stack, callbacks, owed)
                   PROVE  TypeOK
      OBVIOUS
    <2>2. TypeInv
      BY <2>1 DEF BaseInv
    <2>3. ASSUME NEW o \in Object, NEW d \in Data
          PROVE  owed[o][d] \in 0 .. MaxRegistrations
      <3>1. Owes(stack, callbacks, o, d, owed[o][d])
        BY <2>1 DEF OwedInv
      <3>2. callbacks[o] \in Seq(Callback)
        BY <2>2 DEF TypeInv, Trackables
      <3>3. IsFiniteSet(Matches(callbacks[o], d)) /\ Count(callbacks[o], d) \in Nat
        BY <3>2, MatchesFacts
      <3>4. Remaining(stack, callbacks[o], o, d) \in SUBSET Matches(callbacks[o], d)
        BY DEF Remaining
      <3>5. /\ IsFiniteSet(Remaining(stack, callbacks[o], o, d))
            /\ Cardinality(Remaining(stack, callbacks[o], o, d)) <= Count(callbacks[o], d)
        BY <3>3, <3>4, FS_Subset DEF Count
      <3>6. Cardinality(Remaining(stack, callbacks[o], o, d)) \in Nat
        BY <3>5, FS_CardinalityType
      <3>7. QED
        BY <3>1, <3>3, <3>5, <3>6, BoundAssumption DEF Owes
    <2>4. owed \in [Object -> [Data -> 0 .. MaxRegistrations]]
      BY <2>2, <2>3 DEF TypeInv
    <2>5. QED
      BY <2>2, <2>4 DEF TypeInv, TypeOK
  <1>2. ASSUME WellUsed, OnceEach PROVE Spec => []TypeOK
    <2>1. Spec => [](BaseInv /\ OwedInv(stack, callbacks, owed))
      BY <1>2, OwedInvariant
    <2>2. QED
      BY <1>1, <2>1, PTL
  <1>3. QED
    BY <1>2

=============================================================================
