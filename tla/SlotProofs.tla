------------------------------ MODULE SlotProofs ------------------------------
(***************************************************************************)
(* Proofs about module SlotBase, for every number of slots, objects and    *)
(* connections, and every size of the heap.                                *)
(***************************************************************************)
EXTENDS SlotBase, SelectionProofs, WellFoundedInduction

-----------------------------------------------------------------------------
(***************************************************************************)
(* Induction over the natural numbers, in the form that does without       *)
(* operators as parameters; and functions that it defines.                 *)
(***************************************************************************)
\* Every nonempty set of natural numbers has a least element.
LEMMA LeastOf ==
    ASSUME NEW T \in SUBSET Nat, T # {}
    PROVE  \E n \in T : \A m \in T : n <= m
  <1> DEFINE R == OpToRel(<, Nat)
  <1>1. IsWellFoundedOn(R, Nat)
    BY NatLessThanWellFounded
  <1>2. R = {ss \in Nat \X Nat : ss[1] < ss[2]}
    BY DEF OpToRel
  <1> HIDE DEF R
  <1>3. PICK n \in T : \A m \in T : ~ (<<m, n>> \in R)
    BY <1>1, WFMin
  <1>4. ASSUME NEW m \in T
        PROVE  n <= m
    <2>1. m \in Nat /\ n \in Nat /\ <<m, n>> \notin R
      BY <1>3
    <2>2. ~ (m < n)
      BY <2>1, <1>2
    <2> QED
      BY <2>1, <2>2
  <1> QED
    BY <1>4

\* A set that has 0, and with a number the next, has all of them.
LEMMA AllNumbers ==
    ASSUME NEW S \in SUBSET Nat, 0 \in S, \A n \in S : n + 1 \in S
    PROVE  \A n \in Nat : n \in S
  <1> SUFFICES ASSUME Nat \ S # {}
               PROVE  FALSE
    OBVIOUS
  <1>1. PICK n \in Nat \ S : \A m \in Nat \ S : n <= m
    BY LeastOf
  <1>2. n # 0 /\ n - 1 \in Nat
    OBVIOUS
  <1>3. n - 1 \in S
    BY <1>1, <1>2
  <1> QED
    BY <1>1, <1>2, <1>3

\* The first n + 1 iterates of F, from s on.
Iterates(S, s, F, n) ==
    {g \in [0 .. n -> S] : g[0] = s /\ \A k \in 0 .. n - 1 : g[k + 1] = F[g[k]]}

LEMMA IteratesExist ==
    ASSUME NEW S, NEW s \in S, NEW F \in [S -> S]
    PROVE  \A n \in Nat : Iterates(S, s, F, n) # {}
  <1> DEFINE P == {n \in Nat : Iterates(S, s, F, n) # {}}
  <1>1. 0 \in P
    <2>1. [i \in 0 .. 0 |-> s] \in Iterates(S, s, F, 0)
      BY DEF Iterates
    <2> QED
      BY <2>1
  <1>2. ASSUME NEW n \in P
        PROVE  n + 1 \in P
    <2>1. PICK g : g \in Iterates(S, s, F, n)
      BY <1>2
    <2> DEFINE f == [i \in 0 .. n + 1 |-> IF i = n + 1 THEN F[g[n]] ELSE g[i]]
    <2>2. f \in Iterates(S, s, F, n + 1)
      BY <2>1 DEF Iterates
    <2> QED
      BY <2>2
  <1>3. P \in SUBSET Nat
    OBVIOUS
  <1> HIDE DEF P
  <1>4. \A n \in Nat : n \in P
    BY <1>1, <1>2, <1>3, AllNumbers
  <1> QED
    BY <1>4 DEF P

LEMMA IteratesAgree ==
    ASSUME NEW S, NEW s \in S, NEW F \in [S -> S], NEW n \in Nat, NEW m \in Nat, n <= m,
           NEW f \in Iterates(S, s, F, n), NEW g \in Iterates(S, s, F, m)
    PROVE  \A k \in 0 .. n : f[k] = g[k]
  <1> DEFINE P == {k \in Nat : k \in 0 .. n => f[k] = g[k]}
  <1>1. 0 \in P
    BY DEF Iterates
  <1>2. ASSUME NEW k \in P
        PROVE  k + 1 \in P
    BY DEF Iterates
  <1>3. P \in SUBSET Nat
    OBVIOUS
  <1> HIDE DEF P
  <1>4. \A k \in Nat : k \in P
    BY <1>1, <1>2, <1>3, AllNumbers
  <1> QED
    BY <1>4 DEF P

\* A function that is defined by its value for 0, and for n + 1 by that for n,
\* exists.
LEMMA Recursion ==
    ASSUME NEW S, NEW s \in S, NEW F \in [S -> S]
    PROVE  \E g \in [Nat -> S] : g[0] = s /\ \A n \in Nat : g[n + 1] = F[g[n]]
  <1> DEFINE a(n) == CHOOSE f \in Iterates(S, s, F, n) : TRUE
             g == [n \in Nat |-> a(n)[n]]
  <1>1. \A n \in Nat : a(n) \in Iterates(S, s, F, n)
    BY IteratesExist
  <1>2. \A n \in Nat : g[n] \in S
    BY <1>1 DEF Iterates
  <1>3. g[0] = s
    BY <1>1 DEF Iterates
  <1>4. ASSUME NEW n \in Nat
        PROVE  g[n + 1] = F[g[n]]
    <2>1. a(n) \in Iterates(S, s, F, n) /\ a(n + 1) \in Iterates(S, s, F, n + 1)
      BY <1>1
    <2> HIDE DEF a
    <2>2. a(n)[n] = a(n + 1)[n]
      BY <2>1, IteratesAgree
    <2>3. a(n + 1)[n + 1] = F[a(n + 1)[n]]
      BY <2>1 DEF Iterates
    <2> QED
      BY <2>2, <2>3
  <1> QED
    BY <1>2, <1>3, <1>4

-----------------------------------------------------------------------------
(***************************************************************************)
(* The parts of the invariant, of any heap h: the functions of the library *)
(* are called in heaps that are not reachable by a step.                   *)
(***************************************************************************)
\* The callbacks of an object are those of the reps whose functor refers to it.
Watching(h) ==
    \A o \in Object :
        /\ IsInjective(h.watch[o])
        /\ ToSet(h.watch[o]) = {r \in Rep : h.functor[r] = o}

\* Every rep has one slot, but those in U, which have none yet.
Owned(h, U) ==
    /\ \A s, t \in Holder : h.rep[s] # Null /\ h.rep[s] = h.rep[t] => s = t
    /\ \A s \in Holder : h.rep[s] # Null =>
          h.functor[h.rep[s]] # "free" /\ h.rep[s] \notin U
    /\ \A r \in Rep : h.functor[r] = "free" \/ r \in U \/ \E s \in Holder : h.rep[s] = r
    /\ \A s \in Slot : h.rep[s] # Null => s \in h.alive
    /\ \A s \in Rep : h.rep[s] # Null => h.functor[s] = "inner" \/ s \in U
    /\ \A r \in U : r \in Rep /\ h.functor[r] # "free"

\* The functor of q contains the slot that has r, or refers to it.
Edge(h, q, r) ==
    \/ h.functor[q] = "inner" /\ h.rep[q] = r
    \/ h.functor[q] \in Slot /\ h.rep[h.functor[q]] = r

Acyclic(h) ==
    \A S \in SUBSET Rep : S # {} => \E r \in S : \A q \in S : ~Edge(h, q, r)

\* What functors refer to exists, and is not in a list.
Refers(h) ==
    \A r \in Rep : h.functor[r] \in Slot => h.functor[r] \in h.alive \ h.listed

Parents(h) ==
    \A r \in Rep : h.parent[r] # Null =>
        /\ h.functor[r] # "free"
        /\ h.parent[r] \in Rep => Edge(h, h.parent[r], r)
        /\ h.parent[r] \in Slot => h.rep[h.parent[r]] = r /\ h.parent[r] \in h.listed

\* A rep that can be called has a functor, and refers to nothing that is gone,
\* but to the objects in D.
Callable(h, D) ==
    \A r \in h.call : h.functor[r] \notin (h.dead \ D) \cup {"gone", "free"}

\* The slot in the functor of a rep that can be called can be called, and has
\* the rep for a parent; but not for the reps in P.
Nested(h, P) ==
    \A r \in h.call \ P : h.functor[r] = "inner" /\ h.rep[r] # Null =>
        h.rep[r] \in h.call /\ h.parent[h.rep[r]] = r

\* The list that has a slot for an element is its parent, but for the slots in X.
Told(h, X) == \A s \in h.listed \ X : h.rep[s] # Null /\ h.parent[h.rep[s]] = s

Inv(h, U, P, D) ==
    /\ h \in Heap /\ ~h.misused
    /\ Watching(h) /\ Owned(h, U) /\ Acyclic(h) /\ Refers(h) /\ Parents(h)
    /\ Callable(h, D) /\ Nested(h, P)

\* Connections point to slots with a rep, and are registered there.
Conns(h) ==
    /\ \A c \in Conn : h.conn[c] # Null => h.rep[h.conn[c]] # Null
    /\ \A c \in Conn, r \in Rep :
          c \in h.told[r] <=> h.conn[c] # Null /\ h.rep[h.conn[c]] = r

-----------------------------------------------------------------------------
(***************************************************************************)
(* The fields of a heap after the functions that call no others.           *)
(***************************************************************************)
LEMMA Sorts ==
    /\ Rep \subseteq Int /\ Null \notin Rep /\ Null \notin Slot
    /\ Rep \cap Slot = {} /\ Rep \subseteq Holder /\ Slot \subseteq Holder
    /\ \A s \in Holder : s \in Rep \/ s \in Slot
    /\ \A x \in Slot \cup Object : x \notin {"inner", "gone", "free"}
    /\ \A x \in Slot : x \notin Object
    /\ MaxCalls \in Nat
  BY HeapAssumption DEF Rep, Null, Holder, MaxCalls

LEMMA HeapFields ==
    ASSUME NEW h \in Heap
    PROVE  /\ h.rep \in [Holder -> Rep \cup {Null}]
           /\ h.blocked \in SUBSET Holder
           /\ h.alive \in SUBSET Slot
           /\ h.call \in SUBSET Rep
           /\ h.functor \in [Rep -> Object \cup Slot \cup {"inner", "gone", "free"}]
           /\ h.parent \in [Rep -> Holder \cup {Null}]
           /\ h.watch \in [Object -> Seq(Rep)]
           /\ h.told \in [Rep -> SUBSET Conn]
           /\ h.conn \in [Conn -> Slot \cup {Null}]
           /\ h.dead \in SUBSET Object
           /\ h.listed \in SUBSET Slot
           /\ h.misused \in BOOLEAN /\ h.defers \in BOOLEAN /\ h.garbage \in BOOLEAN
  BY DEF Heap

LEMMA MisuseFields ==
    ASSUME NEW h \in Heap
    PROVE  Misuse(h) \in Heap
  BY DEF Heap, Misuse

\* What Emptied, and below Freed, make of a heap.
AsEmptied(h, s, g) ==
    /\ g \in Heap
    /\ g.rep = [h.rep EXCEPT ![s] = Null]
    /\ g.alive = h.alive /\ g.call = h.call /\ g.functor = h.functor
    /\ g.parent = h.parent /\ g.watch = h.watch /\ g.told = h.told
    /\ g.conn = h.conn /\ g.dead = h.dead /\ g.listed = h.listed
    /\ g.misused = h.misused /\ g.defers = h.defers /\ g.garbage = h.garbage

LEMMA EmptiedFields ==
    ASSUME NEW h \in Heap, NEW s \in Holder, NEW g, g = Emptied(h, s)
    PROVE  AsEmptied(h, s, g)
  <1> USE Sorts
  <1>1. g \in Heap
    BY DEF Heap, Emptied
  <1>2. /\ g.rep = [h.rep EXCEPT ![s] = Null]
        /\ g.alive = h.alive /\ g.call = h.call /\ g.functor = h.functor
        /\ g.parent = h.parent /\ g.watch = h.watch /\ g.told = h.told
        /\ g.conn = h.conn /\ g.dead = h.dead /\ g.listed = h.listed
        /\ g.misused = h.misused /\ g.defers = h.defers /\ g.garbage = h.garbage
    BY <1>1 DEF Heap, Emptied
  <1> QED
    BY ONLY <1>1, <1>2 DEF AsEmptied

LEMMA NotifyFields ==
    ASSUME NEW h \in Heap, NEW r \in Rep, NEW g, g = NotifyConnections(h, r)
    PROVE  /\ g \in Heap
           /\ g.told = [h.told EXCEPT ![r] = {}]
           /\ g.conn = [c \in Conn |-> IF c \in h.told[r] THEN Null ELSE h.conn[c]]
           /\ g.rep = h.rep /\ g.blocked = h.blocked
           /\ g.alive = h.alive /\ g.call = h.call /\ g.functor = h.functor
           /\ g.parent = h.parent /\ g.watch = h.watch
           /\ g.dead = h.dead /\ g.listed = h.listed
           /\ g.misused = h.misused /\ g.defers = h.defers /\ g.garbage = h.garbage
  <1> USE Sorts
  <1>1. g \in Heap
    BY DEF Heap, NotifyConnections
  <1> QED
    BY <1>1 DEF Heap, NotifyConnections

AsFreed(h, r, g) ==
    /\ g \in Heap
    /\ g.functor = [h.functor EXCEPT ![r] = "free"]
    /\ g.parent = [h.parent EXCEPT ![r] = Null]
    /\ g.told = [h.told EXCEPT ![r] = {}]
    /\ g.conn = [c \in Conn |-> IF c \in h.told[r] THEN Null ELSE h.conn[c]]
    /\ g.blocked = h.blocked \ {r}
    /\ g.rep = h.rep /\ g.alive = h.alive /\ g.call = h.call
    /\ g.watch = h.watch /\ g.dead = h.dead /\ g.listed = h.listed
    /\ g.misused = h.misused /\ g.defers = h.defers /\ g.garbage = h.garbage

LEMMA FreedFields ==
    ASSUME NEW h \in Heap, NEW r \in Rep, NEW g, g = Freed(h, r)
    PROVE  AsFreed(h, r, g)
  <1> USE Sorts
  <1>1. PICK n : n = NotifyConnections(h, r)
    OBVIOUS
  <1>2. g = [n EXCEPT !.functor[r] = "free", !.parent[r] = Null, !.blocked = @ \ {r}]
    BY <1>1 DEF Freed
  <1>3. /\ n \in Heap
        /\ n.told = [h.told EXCEPT ![r] = {}]
        /\ n.conn = [c \in Conn |-> IF c \in h.told[r] THEN Null ELSE h.conn[c]]
        /\ n.rep = h.rep /\ n.blocked = h.blocked
        /\ n.alive = h.alive /\ n.call = h.call /\ n.functor = h.functor
        /\ n.parent = h.parent /\ n.watch = h.watch
        /\ n.dead = h.dead /\ n.listed = h.listed
        /\ n.misused = h.misused /\ n.defers = h.defers /\ n.garbage = h.garbage
    BY ONLY <1>1, h \in Heap, r \in Rep, NotifyFields
  <1>a. /\ [n.functor EXCEPT ![r] = "free"] \in
               [Rep -> Object \cup Slot \cup {"inner", "gone", "free"}]
        /\ [n.parent EXCEPT ![r] = Null] \in [Rep -> Holder \cup {Null}]
        /\ n.blocked \ {r} \in SUBSET Holder
    BY <1>3, HeapFields
  <1>4. g \in Heap
    BY ONLY <1>2, <1>3, <1>a DEF Heap
  <1>5. /\ g.functor = [n.functor EXCEPT ![r] = "free"]
        /\ g.parent = [n.parent EXCEPT ![r] = Null]
        /\ g.told = n.told /\ g.conn = n.conn /\ g.blocked = n.blocked \ {r}
        /\ g.rep = n.rep /\ g.alive = n.alive /\ g.call = n.call
        /\ g.watch = n.watch /\ g.dead = n.dead /\ g.listed = n.listed
        /\ g.misused = n.misused /\ g.defers = n.defers /\ g.garbage = n.garbage
    BY ONLY <1>2, <1>3 DEF Heap
  <1> QED
    BY ONLY <1>3, <1>4, <1>5 DEF AsFreed

\* remove_callback() of a rep.
LEMMA WithoutCallback ==
    ASSUME NEW w \in Seq(Rep), NEW r \in Rep,
           NEW o, o = InOrder(w, {i \in DOMAIN w : w[i] # r})
    PROVE  /\ o \in Seq(Rep)
           /\ ToSet(o) = ToSet(w) \ {r}
           /\ IsInjective(w) => IsInjective(o)
  <1>0. PICK P : P = {i \in DOMAIN w : w[i] # r}
    OBVIOUS
  <1>1. \A i : i \in P <=> i \in DOMAIN w /\ w[i] # r
    BY <1>0
  <1>a. o = InOrder(w, P)
    BY <1>0
  <1>2. PICK n \in Nat : n = Len(w) /\ DOMAIN w = 1 .. n
    BY LenProperties
  <1>3. P \in SUBSET Nat /\ IsFiniteSet(P) /\ P \subseteq DOMAIN w
    <2>1. P \subseteq 1 .. n
      BY <1>1, <1>2
    <2>2. IsFiniteSet(1 .. n)
      BY FS_Interval
    <2>3. IsFiniteSet(P)
      BY <2>1, <2>2, FS_Subset
    <2>4. P \in SUBSET Nat
      BY <2>1
    <2> QED
      BY <2>1, <2>3, <2>4, <1>2
  <1>4. /\ DOMAIN o = 1 .. Cardinality(P) /\ Cardinality(P) \in Nat
        /\ \A k \in DOMAIN o : Nth(P, k) \in P /\ o[k] = w[Nth(P, k)]
        /\ \A i \in P : \E k \in DOMAIN o : Nth(P, k) = i
        /\ \A k, l \in DOMAIN o : k < l => Nth(P, k) < Nth(P, l)
    BY ONLY <1>a, <1>3, InOrderFacts
  <1>5. o = [k \in 1 .. Cardinality(P) |-> o[k]]
    BY <1>a DEF InOrder
  <1>6. \A k \in DOMAIN o : o[k] \in Rep
    <2>1. \A i \in DOMAIN w : w[i] \in Rep
      BY LenProperties
    <2> QED
      BY ONLY <2>1, <1>3, <1>4
  <1>7. o \in Seq(Rep)
    BY <1>4, <1>5, <1>6, SeqOfFunction
  <1>8. ToSet(o) = {w[i] : i \in P}
    <2>1. ToSet(o) = {o[k] : k \in DOMAIN o}
      BY DEF ToSet
    <2> QED
      BY ONLY <2>1, <1>4
  <1>9. ToSet(o) = ToSet(w) \ {r}
    BY ONLY <1>1, <1>8 DEF ToSet
  <1>10. ASSUME IsInjective(w)
         PROVE  IsInjective(o)
    <2> SUFFICES ASSUME NEW k \in DOMAIN o, NEW l \in DOMAIN o, o[k] = o[l]
                 PROVE  k = l
      BY DEF IsInjective
    <2>1. Nth(P, k) = Nth(P, l)
      BY ONLY <1>10, <1>3, <1>4, o[k] = o[l], k \in DOMAIN o, l \in DOMAIN o DEF IsInjective
    <2>2. k \in Nat /\ l \in Nat /\ Nth(P, k) \in Nat
      <3>1. Nth(P, k) \in P /\ P \subseteq Nat
        BY ONLY <1>3, <1>4, k \in DOMAIN o
      <3>2. k \in 1 .. Cardinality(P) /\ l \in 1 .. Cardinality(P) /\ Cardinality(P) \in Nat
        BY ONLY <1>4, k \in DOMAIN o, l \in DOMAIN o
      <3>3. k \in Nat /\ l \in Nat
        BY ONLY <3>2
      <3> QED
        BY ONLY <3>1, <3>3
    <2>3. ~(k < l) /\ ~(l < k)
      BY ONLY <2>1, <2>2, <1>4, k \in DOMAIN o, l \in DOMAIN o
    <2> QED
      BY ONLY <2>2, <2>3
  <1> QED
    BY <1>7, <1>9, <1>10

\* add_destroy_notify_callback() of a rep.
LEMMA WithCallback ==
    ASSUME NEW w \in Seq(Rep), NEW r \in Rep, NEW o, o = Append(w, r)
    PROVE  /\ o \in Seq(Rep)
           /\ ToSet(o) = ToSet(w) \cup {r}
           /\ IsInjective(w) /\ r \notin ToSet(w) => IsInjective(o)
  <1>1. PICK n \in Nat : n = Len(w) /\ DOMAIN w = 1 .. n
    BY LenProperties
  <1>2. /\ o \in Seq(Rep) /\ DOMAIN o = 1 .. n + 1
        /\ \A i \in 1 .. n : o[i] = w[i]
        /\ o[n + 1] = r
    BY <1>1, AppendProperties
  <1>3. ToSet(o) = ToSet(w) \cup {r}
    BY <1>1, <1>2 DEF ToSet
  <1>4. ASSUME IsInjective(w), r \notin ToSet(w)
        PROVE  IsInjective(o)
    <2>1. \A i \in 1 .. n : w[i] # r
      BY <1>1, <1>4 DEF ToSet
    <2>2. \A i, j \in 1 .. n : w[i] = w[j] => i = j
      BY <1>1, <1>4 DEF IsInjective
    <2> QED
      BY <1>2, <2>1, <2>2 DEF IsInjective
  <1> QED
    BY <1>2, <1>3, <1>4

LEMMA ReleaseFields ==
    ASSUME NEW h \in Heap, NEW s \in Holder, NEW r \in Rep, NEW g, g = ReleaseSlot(h, s, r)
    PROVE  /\ g \in Heap
           /\ \A q \in Rep : g.parent[q] =
                 IF h.parent[q] = r /\ h.rep[s] = q THEN Null ELSE h.parent[q]
           /\ g.rep = h.rep /\ g.alive = h.alive /\ g.call = h.call
           /\ g.functor = h.functor /\ g.watch = h.watch /\ g.told = h.told
           /\ g.conn = h.conn /\ g.dead = h.dead /\ g.listed = h.listed
           /\ g.misused = h.misused /\ g.defers = h.defers /\ g.garbage = h.garbage
  <1> USE Sorts
  <1>1. CASE h.rep[s] # Null /\ h.parent[h.rep[s]] = r
    <2>1. g = [h EXCEPT !.parent[h.rep[s]] = Null]
      BY <1>1 DEF ReleaseSlot
    <2>2. h.rep[s] \in Rep
      BY <1>1, HeapFields
    <2>3. [h.parent EXCEPT ![h.rep[s]] = Null] \in [Rep -> Holder \cup {Null}]
      BY <2>2, HeapFields
    <2>4. g \in Heap
      BY ONLY <2>1, <2>3, h \in Heap DEF Heap
    <2>5. g.parent = [h.parent EXCEPT ![h.rep[s]] = Null]
      BY ONLY <2>1, h \in Heap DEF Heap
    <2>6. \A q \in Rep : g.parent[q] =
              IF h.parent[q] = r /\ h.rep[s] = q THEN Null ELSE h.parent[q]
      BY <1>1, <2>2, <2>5, HeapFields
    <2> QED
      BY ONLY <2>1, <2>4, <2>6, h \in Heap DEF Heap
  <1>2. CASE ~(h.rep[s] # Null /\ h.parent[h.rep[s]] = r)
    <2>1. g = h
      BY <1>2 DEF ReleaseSlot
    <2> QED
      BY <1>2, <2>1
  <1> QED
    BY <1>1, <1>2

LEMMA AdoptFields ==
    ASSUME NEW h \in Heap, NEW s \in Holder, NEW r \in Rep, NEW g, g = AdoptSlot(h, s, r)
    PROVE  /\ g \in Heap
           /\ \A q \in Rep : g.parent[q] =
                 IF h.parent[q] = Null /\ h.rep[s] = q THEN r ELSE h.parent[q]
           /\ g.rep = h.rep /\ g.alive = h.alive /\ g.call = h.call
           /\ g.functor = h.functor /\ g.watch = h.watch /\ g.told = h.told
           /\ g.conn = h.conn /\ g.dead = h.dead /\ g.listed = h.listed
           /\ g.misused = h.misused /\ g.defers = h.defers /\ g.garbage = h.garbage
  <1> USE Sorts
  <1>1. CASE h.rep[s] # Null /\ h.parent[h.rep[s]] = Null
    <2>1. g = [h EXCEPT !.parent[h.rep[s]] = r]
      BY <1>1 DEF AdoptSlot
    <2>2. h.rep[s] \in Rep
      BY <1>1, HeapFields
    <2>3. [h.parent EXCEPT ![h.rep[s]] = r] \in [Rep -> Holder \cup {Null}]
      BY <2>2, HeapFields
    <2>4. g \in Heap
      BY ONLY <2>1, <2>3, h \in Heap DEF Heap
    <2>5. g.parent = [h.parent EXCEPT ![h.rep[s]] = r]
      BY ONLY <2>1, h \in Heap DEF Heap
    <2>6. \A q \in Rep : g.parent[q] =
              IF h.parent[q] = Null /\ h.rep[s] = q THEN r ELSE h.parent[q]
      BY <1>1, <2>2, <2>5, HeapFields
    <2> QED
      BY ONLY <2>1, <2>4, <2>6, h \in Heap DEF Heap
  <1>2. CASE ~(h.rep[s] # Null /\ h.parent[h.rep[s]] = Null)
    <2>1. g = h
      BY <1>2 DEF AdoptSlot
    <2> QED
      BY <1>2, <2>1
  <1> QED
    BY <1>1, <1>2

\* The reps in C whose functor refers to the object o.
Referring(h, C, o) == {r \in C : h.functor[r] = o}

UnbindRel(h, r, g) ==
    /\ g \in Heap
    /\ \A q \in Rep : h.functor[r] \in Slot \cup {"inner"} => g.parent[q] =
          IF h.parent[q] = r /\ Edge(h, r, q) THEN Null ELSE h.parent[q]
    /\ h.functor[r] \in Object => g.parent = h.parent
    /\ \A o \in Object :
          /\ ToSet(g.watch[o]) = ToSet(h.watch[o]) \ Referring(h, {r}, o)
          /\ IsInjective(h.watch[o]) => IsInjective(g.watch[o])
    /\ g.rep = h.rep /\ g.alive = h.alive /\ g.call = h.call
    /\ g.functor = h.functor /\ g.told = h.told
    /\ g.conn = h.conn /\ g.dead = h.dead /\ g.listed = h.listed
    /\ g.misused = h.misused /\ g.defers = h.defers /\ g.garbage = h.garbage

\* visit_each_trackable(slot_do_unbind(r)): what the functor contains or refers
\* to has nothing to do with r any more.
LEMMA UnbindFields ==
    ASSUME NEW h \in Heap, NEW r \in Rep, NEW g, g = Unbind(h, r)
    PROVE  UnbindRel(h, r, g)
  <1> USE Sorts
  <1>1. CASE h.functor[r] \in Object
    <2>1. PICK f \in Object : f = h.functor[r]
      BY <1>1
    <2>2. PICK w : w = InOrder(h.watch[f], {i \in DOMAIN h.watch[f] : h.watch[f][i] # r})
      OBVIOUS
    <2>3. g = [h EXCEPT !.watch[f] = w]
      BY <2>1, <2>2 DEF Unbind
    <2>4. h.watch[f] \in Seq(Rep)
      BY HeapFields
    <2>5. /\ w \in Seq(Rep)
          /\ ToSet(w) = ToSet(h.watch[f]) \ {r}
          /\ IsInjective(h.watch[f]) => IsInjective(w)
      BY ONLY <2>2, <2>4, r \in Rep, WithoutCallback
    <2>6. [h.watch EXCEPT ![f] = w] \in [Object -> Seq(Rep)]
      BY <2>5, HeapFields
    <2>7. g \in Heap
      BY ONLY <2>3, <2>6, h \in Heap DEF Heap
    <2>8. /\ g.watch = [h.watch EXCEPT ![f] = w]
          /\ g.parent = h.parent
          /\ g.rep = h.rep /\ g.alive = h.alive /\ g.call = h.call
          /\ g.functor = h.functor /\ g.told = h.told
          /\ g.conn = h.conn /\ g.dead = h.dead /\ g.listed = h.listed
          /\ g.misused = h.misused /\ g.defers = h.defers /\ g.garbage = h.garbage
      BY ONLY <2>3, h \in Heap DEF Heap
    <2>9. ASSUME NEW o \in Object
          PROVE  /\ ToSet(g.watch[o]) = ToSet(h.watch[o]) \ Referring(h, {r}, o)
                 /\ IsInjective(h.watch[o]) => IsInjective(g.watch[o])
      <3>1. CASE o = f
        <4>1. g.watch[o] = w
          BY <3>1, <2>8, HeapFields
        <4>2. Referring(h, {r}, o) = {r}
          BY <3>1, <2>1 DEF Referring
        <4> QED
          BY ONLY <4>1, <4>2, <3>1, <2>5
      <3>2. CASE o # f
        <4>1. g.watch[o] = h.watch[o]
          BY <3>2, <2>8, HeapFields
        <4>2. Referring(h, {r}, o) = {}
          BY <3>2, <2>1 DEF Referring
        <4> QED
          BY ONLY <4>1, <4>2
      <3> QED
        BY <3>1, <3>2
    <2>10. h.functor[r] \notin Slot \cup {"inner"}
      BY <1>1
    <2> QED
      BY ONLY <2>7, <2>8, <2>9, <2>10 DEF UnbindRel
  <1>2. CASE h.functor[r] \notin Object
    <2>1. PICK s \in Holder : s = IF h.functor[r] \in Slot THEN h.functor[r] ELSE r
      OBVIOUS
    <2>2. g = ReleaseSlot(h, s, r)
      BY <1>2, <2>1 DEF Unbind
    <2>3. /\ g \in Heap
          /\ \A q \in Rep : g.parent[q] =
                 IF h.parent[q] = r /\ h.rep[s] = q THEN Null ELSE h.parent[q]
          /\ g.rep = h.rep /\ g.alive = h.alive /\ g.call = h.call
          /\ g.functor = h.functor /\ g.watch = h.watch /\ g.told = h.told
          /\ g.conn = h.conn /\ g.dead = h.dead /\ g.listed = h.listed
          /\ g.misused = h.misused /\ g.defers = h.defers /\ g.garbage = h.garbage
      BY ONLY <2>2, ReleaseFields, h \in Heap, r \in Rep, s \in Holder
    <2>4. ASSUME NEW q \in Rep, h.functor[r] \in Slot \cup {"inner"}
          PROVE  h.rep[s] = q <=> Edge(h, r, q)
      BY <2>1, <2>4 DEF Edge
    <2>5. ASSUME NEW o \in Object
          PROVE  Referring(h, {r}, o) = {}
      BY <1>2 DEF Referring
    <2> QED
      BY ONLY <2>3, <2>4, <2>5, <1>2 DEF UnbindRel
  <1> QED
    BY <1>1, <1>2

UnboundRel(h, r, g) ==
    /\ g \in Heap
    /\ g.call = h.call \ {r}
    /\ g.functor = [h.functor EXCEPT ![r] = "gone"]
    /\ \A q \in Rep : g.parent[q] =
          IF h.parent[q] = r /\ Edge(h, r, q) THEN Null ELSE h.parent[q]
    /\ \A o \in Object :
          /\ ToSet(g.watch[o]) = ToSet(h.watch[o]) \ Referring(h, {r}, o)
          /\ IsInjective(h.watch[o]) => IsInjective(g.watch[o])
    /\ g.rep = h.rep /\ g.alive = h.alive /\ g.told = h.told
    /\ g.conn = h.conn /\ g.dead = h.dead /\ g.listed = h.listed
    /\ g.misused = h.misused /\ g.defers = h.defers /\ g.garbage = h.garbage

LEMMA UnboundFields ==
    ASSUME NEW h \in Heap, NEW r \in Rep, h.functor[r] \notin {"gone", "free"},
           NEW g, g = Unbound(h, r)
    PROVE  UnboundRel(h, r, g)
  <1> USE Sorts
  <1>1. PICK u : u = Unbind(h, r)
    OBVIOUS
  <1>2. g = [u EXCEPT !.call = @ \ {r}, !.functor[r] = "gone"]
    BY <1>1 DEF Unbound
  <1>3. UnbindRel(h, r, u)
    BY <1>1, UnbindFields
  <1>a. u \in Heap
    BY <1>3 DEF UnbindRel
  <1>4. /\ u.call \ {r} \in SUBSET Rep
        /\ [u.functor EXCEPT ![r] = "gone"] \in
               [Rep -> Object \cup Slot \cup {"inner", "gone", "free"}]
    BY ONLY <1>a, HeapFields
  <1>5. g \in Heap
    BY ONLY <1>2, <1>a, <1>4 DEF Heap
  <1>6. /\ g.call = u.call \ {r}
        /\ g.functor = [u.functor EXCEPT ![r] = "gone"]
        /\ g.parent = u.parent /\ g.watch = u.watch
        /\ g.rep = u.rep /\ g.alive = u.alive /\ g.told = u.told
        /\ g.conn = u.conn /\ g.dead = u.dead /\ g.listed = u.listed
        /\ g.misused = u.misused /\ g.defers = u.defers /\ g.garbage = u.garbage
    BY ONLY <1>2, <1>a DEF Heap
  <1>7. ASSUME h.functor[r] \in Object
        PROVE  \A q \in Rep : ~Edge(h, r, q)
    BY <1>7 DEF Edge
  <1>8. h.functor[r] \in Object \cup Slot \cup {"inner"}
    BY HeapFields
  <1>9. \A q \in Rep : g.parent[q] =
            IF h.parent[q] = r /\ Edge(h, r, q) THEN Null ELSE h.parent[q]
    BY ONLY <1>3, <1>6, <1>7, <1>8 DEF UnbindRel
  <1> QED
    BY ONLY <1>3, <1>5, <1>6, <1>9 DEF UnbindRel, UnboundRel

-----------------------------------------------------------------------------
(***************************************************************************)
(* destroy() and the deletion of reps.                                     *)
(***************************************************************************)
LEMMA DestroyTyped ==
    ASSUME NEW D \in [Heap -> [Rep -> Heap]], NEW h \in Heap, NEW r \in Rep
    PROVE  DestroyUsing(D, h, r) \in Heap
  <1>1. CASE h.functor[r] = "free"
    BY <1>1, MisuseFields DEF DestroyUsing
  <1>2. CASE h.functor[r] = "gone"
    BY <1>2 DEF DestroyUsing, Heap
  <1>3. CASE h.functor[r] \notin {"free", "gone"} /\ h.rep[r] = Null
    <2>1. PICK g : g = Unbound(h, r)
      OBVIOUS
    <2>2. g \in Heap
      BY <1>3, <2>1, UnboundFields DEF UnboundRel
    <2> QED
      BY <1>3, <2>1, <2>2 DEF DestroyUsing
  <1>4. CASE h.functor[r] \notin {"free", "gone"} /\ h.rep[r] # Null
    <2>1. PICK u : u = Unbound(h, r)
      OBVIOUS
    <2>2. u \in Heap
      BY <1>4, <2>1, UnboundFields DEF UnboundRel
    <2>3. PICK i : i = h.rep[r]
      OBVIOUS
    <2>4. i \in Rep
      BY <1>4, <2>3, HeapFields, Sorts
    <2>5. PICK d : d = D[u][i]
      OBVIOUS
    <2>6. d \in Heap
      BY <2>2, <2>4, <2>5
    <2>7. PICK f : f = Freed(d, i)
      OBVIOUS
    <2>8. f \in Heap
      BY <2>4, <2>6, <2>7, FreedFields DEF AsFreed
    <2>9. Emptied(f, r) \in Heap
      BY <2>8, EmptiedFields, Sorts DEF AsEmptied
    <2> QED
      BY <1>4, <2>1, <2>3, <2>5, <2>7, <2>9 DEF DestroyUsing
  <1> QED
    BY <1>1, <1>2, <1>3, <1>4

\* A function on heaps that calls itself, for every depth of the calls.
LEMMA DestroyUnfolds ==
    /\ \A n \in Nat : DestroyWithin[n] \in [Heap -> [Rep -> Heap]]
    /\ \A n \in Nat, h \in Heap, r \in Rep :
          DestroyWithin[n + 1][h][r] = DestroyUsing(DestroyWithin[n], h, r)
    /\ \A h \in Heap, r \in Rep : DestroyWithin[0][h][r] = Misuse(h)
  <1> DEFINE S == [Heap -> [Rep -> Heap]]
             s0 == [h \in Heap |-> [r \in Rep |-> Misuse(h)]]
             F == [D \in S |-> [h \in Heap |-> [r \in Rep |-> DestroyUsing(D, h, r)]]]
  <1>1. s0 \in S
    BY MisuseFields
  <1>2. F \in [S -> S]
    BY DestroyTyped
  <1>3. \E g \in [Nat -> S] : g[0] = s0 /\ \A n \in Nat : g[n + 1] = F[g[n]]
    <2> HIDE DEF S, s0, F
    <2> QED
      BY <1>1, <1>2, Recursion
  <1>4. PICK g \in [Nat -> S] : g[0] = s0 /\ \A n \in Nat : g[n + 1] = F[g[n]]
    BY <1>3
  <1>5. g = [n \in Nat |-> [h \in Heap |-> [r \in Rep |->
              IF n = 0 THEN Misuse(h) ELSE DestroyUsing(g[n - 1], h, r)]]]
    <2>1. ASSUME NEW n \in Nat
          PROVE  g[n] = [h \in Heap |-> [r \in Rep |->
                    IF n = 0 THEN Misuse(h) ELSE DestroyUsing(g[n - 1], h, r)]]
      <3>1. CASE n = 0
        BY <1>4, <3>1
      <3>2. CASE n # 0
        <4>1. n - 1 \in Nat /\ (n - 1) + 1 = n
          BY <3>2
        <4>2. g[n] = F[g[n - 1]]
          BY <1>4, <4>1
        <4>3. g[n - 1] \in S
          BY <1>4, <4>1
        <4> QED
          BY <3>2, <4>2, <4>3
      <3> QED
        BY <3>1, <3>2
    <2> QED
      BY <2>1
  <1>6. DestroyWithin = [n \in Nat |-> [h \in Heap |-> [r \in Rep |->
              IF n = 0 THEN Misuse(h) ELSE DestroyUsing(DestroyWithin[n - 1], h, r)]]]
    <2> HIDE DEF S, s0, F
    <2> QED
      BY <1>5 DEF DestroyWithin
  <1> HIDE DEF s0, F
  <1>7. \A n \in Nat : DestroyWithin[n] = [h \in Heap |-> [r \in Rep |->
              IF n = 0 THEN Misuse(h) ELSE DestroyUsing(DestroyWithin[n - 1], h, r)]]
    BY <1>6
  <1>8. ASSUME NEW n \in Nat
        PROVE  DestroyWithin[n + 1] = [h \in Heap |-> [r \in Rep |->
                   DestroyUsing(DestroyWithin[n], h, r)]]
    <2>1. n + 1 \in Nat /\ n + 1 # 0 /\ (n + 1) - 1 = n
      OBVIOUS
    <2> QED
      BY <2>1, <1>7
  <1> DEFINE P == {n \in Nat : DestroyWithin[n] \in S}
  <1>9. 0 \in P
    <2>1. DestroyWithin[0] = [h \in Heap |-> [r \in Rep |->
              IF 0 = 0 THEN Misuse(h) ELSE DestroyUsing(DestroyWithin[0 - 1], h, r)]]
      BY <1>7
    <2>2. DestroyWithin[0] = [h \in Heap |-> [r \in Rep |-> Misuse(h)]]
      BY <2>1
    <2> QED
      BY <2>2, MisuseFields
  <1>10. ASSUME NEW n \in P
         PROVE  n + 1 \in P
    <2>1. PICK D \in S : D = DestroyWithin[n]
      OBVIOUS
    <2>2. DestroyWithin[n + 1] = [h \in Heap |-> [r \in Rep |-> DestroyUsing(D, h, r)]]
      BY <1>8, <2>1
    <2>3. \A h \in Heap, r \in Rep : DestroyUsing(D, h, r) \in Heap
      BY DestroyTyped
    <2>4. DestroyWithin[n + 1] \in S
      BY ONLY <2>2, <2>3
    <2> QED
      BY <2>4
  <1>11. P \in SUBSET Nat
    OBVIOUS
  <1> HIDE DEF P
  <1>12. \A n \in Nat : n \in P
    BY <1>9, <1>10, <1>11, AllNumbers
  <1>13. \A n \in Nat : DestroyWithin[n] \in S
    BY <1>12 DEF P
  <1>14. ASSUME NEW n \in Nat, NEW h \in Heap, NEW r \in Rep
         PROVE  DestroyWithin[n + 1][h][r] = DestroyUsing(DestroyWithin[n], h, r)
    <2>1. PICK D, E : D = DestroyWithin[n] /\ E = DestroyWithin[n + 1]
      OBVIOUS
    <2>2. E = [e \in Heap |-> [q \in Rep |-> DestroyUsing(D, e, q)]]
      BY <1>8, <2>1
    <2>3. E[h][r] = DestroyUsing(D, h, r)
      BY ONLY <2>2, h \in Heap, r \in Rep
    <2> QED
      BY <2>1, <2>3
  <1>15. ASSUME NEW h \in Heap, NEW r \in Rep
         PROVE  DestroyWithin[0][h][r] = Misuse(h)
    <2>1. PICK E : E = DestroyWithin[0]
      OBVIOUS
    <2>2. E = [e \in Heap |-> [q \in Rep |->
              IF 0 = 0 THEN Misuse(e) ELSE DestroyUsing(DestroyWithin[0 - 1], e, q)]]
      BY <1>7, <2>1
    <2>3. E[h][r] = Misuse(h)
      BY ONLY <2>2, h \in Heap, r \in Rep
    <2> QED
      BY <2>1, <2>3
  <1> QED
    BY <1>13, <1>14, <1>15

\* The functors of the reps in C are gone, and of these the reps in K are free.
Erased(h, C, K, g) ==
    /\ g \in Heap
    /\ \A q \in Rep : g.functor[q] =
          IF q \in K THEN "free" ELSE IF q \in C THEN "gone" ELSE h.functor[q]
    /\ \A s \in Holder : g.rep[s] =
          IF s \in C /\ h.functor[s] = "inner" THEN Null ELSE h.rep[s]
    /\ g.call = h.call \ C
    /\ \A q \in Rep : g.parent[q] =
          IF q \in K \/ (h.parent[q] \in C /\ Edge(h, h.parent[q], q))
          THEN Null ELSE h.parent[q]
    /\ \A o \in Object :
          /\ ToSet(g.watch[o]) = ToSet(h.watch[o]) \ Referring(h, C, o)
          /\ IsInjective(h.watch[o]) => IsInjective(g.watch[o])
    /\ \A q \in Rep : g.told[q] = IF q \in K THEN {} ELSE h.told[q]
    /\ \A c \in Conn : g.conn[c] =
          IF \E q \in K : c \in h.told[q] THEN Null ELSE h.conn[c]
    /\ g.alive = h.alive /\ g.dead = h.dead /\ g.listed = h.listed
    /\ g.misused = h.misused /\ g.defers = h.defers

\* C has r, and the reps of the slots that are nested in its functor.
Chain(h, r, C) ==
    /\ C \in SUBSET Rep /\ r \in C
    /\ \A q \in C : h.functor[q] = "inner" /\ h.rep[q] # Null => h.rep[q] \in C
    /\ \A q \in C \ {r} : \E c \in C : h.functor[c] = "inner" /\ h.rep[c] = q

\* No slot has a rep that is free; the holders of reps are slots, and functors.
Occupied(h) ==
    /\ \A s \in Holder : h.rep[s] # Null => h.functor[h.rep[s]] # "free"
    /\ \A q \in Rep : h.rep[q] # Null => h.functor[q] \in {"inner", "gone"}

\* The reps that have a functor.
Live(h) == {r \in Rep : h.functor[r] \notin {"gone", "free"}}

LEMMA RepsFinite ==
    ASSUME NEW S \in SUBSET Rep
    PROVE  /\ IsFiniteSet(S) /\ Cardinality(S) \in Nat
           /\ Cardinality(S) < MaxCalls
           /\ \A r \in S : Cardinality(S \ {r}) < Cardinality(S)
           /\ \A T \in SUBSET S : Cardinality(T) <= Cardinality(S)
  <1>1. IsFiniteSet(Rep) /\ Cardinality(Rep) = MaxReps /\ MaxReps \in Nat
    BY HeapAssumption, FS_Interval DEF Rep
  <1>2. IsFiniteSet(S) /\ Cardinality(S) \in Nat /\ Cardinality(S) <= MaxReps
    BY <1>1, FS_Subset, FS_CardinalityType
  <1>3. ASSUME NEW r \in S
        PROVE  Cardinality(S \ {r}) < Cardinality(S)
    <2>1. Cardinality(S \ {r}) = Cardinality(S) - 1
      BY <1>2, FS_RemoveElement
    <2> QED
      BY <2>1, <1>2
  <1>4. ASSUME NEW T \in SUBSET S
        PROVE  Cardinality(T) <= Cardinality(S)
    BY <1>2, FS_Subset
  <1> QED
    BY <1>1, <1>2, <1>3, <1>4 DEF MaxCalls

\* destroy() of a rep without a functor, or whose functor contains no slot.
LEMMA DestroyLeaf ==
    ASSUME NEW h \in Heap, NEW r \in Rep, NEW D, NEW g, g = DestroyUsing(D, h, r),
           h.functor[r] # "free", h.functor[r] = "gone" \/ h.rep[r] = Null
    PROVE  Chain(h, r, {r}) /\ Erased(h, {r}, {}, g)
  <1>1. CASE h.functor[r] = "gone"
    <2>1. g = [h EXCEPT !.call = @ \ {r}]
      BY <1>1 DEF DestroyUsing
    <2>2. g \in Heap
      BY ONLY <2>1, h \in Heap DEF Heap
    <2>3. /\ g.call = h.call \ {r}
          /\ g.functor = h.functor /\ g.rep = h.rep /\ g.parent = h.parent
          /\ g.watch = h.watch /\ g.told = h.told /\ g.conn = h.conn
          /\ g.alive = h.alive /\ g.dead = h.dead /\ g.listed = h.listed
          /\ g.misused = h.misused /\ g.defers = h.defers
      BY ONLY <2>1, h \in Heap DEF Heap
    <2>4. /\ \A q : ~Edge(h, r, q)
          /\ \A o \in Object : Referring(h, {r}, o) = {}
      BY <1>1, Sorts DEF Edge, Referring
    <2>5. \A q \in Rep : g.functor[q] = IF q \in {r} THEN "gone" ELSE h.functor[q]
      BY <1>1, <2>3
    <2>6. \A q \in Rep : h.parent[q] \in {r} => ~Edge(h, h.parent[q], q)
      BY <2>4
    <2> QED
      BY <1>1, <2>2, <2>3, <2>4, <2>5, <2>6 DEF Erased, Chain
  <1>2. CASE h.functor[r] # "gone" /\ h.rep[r] = Null
    <2>1. g = Unbound(h, r)
      BY <1>2 DEF DestroyUsing
    <2>2. UnboundRel(h, r, g)
      BY <1>2, <2>1, UnboundFields
    <2>3. \A q \in Rep : g.functor[q] = IF q \in {r} THEN "gone" ELSE h.functor[q]
      BY <2>2, HeapFields DEF UnboundRel
    <2>4. \A q \in Rep : g.parent[q] =
              IF h.parent[q] \in {r} /\ Edge(h, h.parent[q], q) THEN Null ELSE h.parent[q]
      BY <2>2 DEF UnboundRel
    <2>5. \A s \in Holder : g.rep[s] =
              IF s \in {r} /\ h.functor[s] = "inner" THEN Null ELSE h.rep[s]
      BY <1>2, <2>2 DEF UnboundRel
    <2>6. Chain(h, r, {r})
      BY <1>2 DEF Chain
    <2> QED
      BY <2>2, <2>3, <2>4, <2>5, <2>6 DEF UnboundRel, Erased
  <1> QED
    BY <1>1, <1>2

\* The slot in the functor of r has the rep i. If destroy() of i does what it
\* should, so does that of r.
LEMMA DestroyNested ==
    ASSUME NEW h \in Heap, NEW r \in Rep, Acyclic(h), Occupied(h),
           h.functor[r] \notin {"gone", "free"},
           NEW i \in Rep, i = h.rep[r],
           NEW u, u = Unbound(h, r), NEW d, NEW C, Chain(u, i, C), Erased(u, C, C \ {i}, d)
    PROVE  /\ r \notin C
           /\ Chain(h, r, C \cup {r})
           /\ Erased(h, C \cup {r}, C, Emptied(Freed(d, i), r))
  <1> USE Sorts
  <1>1. UnboundRel(h, r, u)
    BY UnboundFields
  <1>2. /\ u \in Heap /\ u.rep = h.rep
        /\ \A q \in Rep : u.functor[q] = IF q = r THEN "gone" ELSE h.functor[q]
    BY <1>1, HeapFields DEF UnboundRel
  <1>3. h.functor[r] = "inner"
    BY DEF Occupied
  <1>4. i \in C /\ C \in SUBSET Rep
    BY DEF Chain
  <1>5. r \notin C
    <2>1. SUFFICES ASSUME r \in C
                   PROVE  FALSE
      OBVIOUS
    <2>2. PICK q \in C : \A c \in C : ~Edge(h, c, q)
      BY <1>4 DEF Acyclic
    <2>3. CASE q = i
      BY <2>1, <2>2, <2>3, <1>3 DEF Edge
    <2>4. CASE q # i
      <3>1. PICK c \in C : u.functor[c] = "inner" /\ u.rep[c] = q
        BY <2>4 DEF Chain
      <3>2. Edge(h, c, q)
        BY <3>1, <1>2, <1>4 DEF Edge
      <3> QED
        BY <3>2, <2>2
    <2> QED
      BY <2>3, <2>4
  <1>6. \A c \in C : u.functor[c] = h.functor[c]
    BY <1>2, <1>4, <1>5
  <1>7. Chain(h, r, C \cup {r})
    <2>1. \A q \in C \cup {r} :
              h.functor[q] = "inner" /\ h.rep[q] # Null => h.rep[q] \in C \cup {r}
      BY <1>2, <1>4, <1>6 DEF Chain
    <2>2. ASSUME NEW q \in (C \cup {r}) \ {r}
          PROVE  \E c \in C \cup {r} : h.functor[c] = "inner" /\ h.rep[c] = q
      <3>1. CASE q = i
        BY <3>1, <1>3
      <3>2. CASE q # i
        <4>1. \E c \in C : u.functor[c] = "inner" /\ u.rep[c] = q
          BY <2>2, <3>2 DEF Chain
        <4> QED
          BY <4>1, <1>2, <1>6
      <3> QED
        BY <3>1, <3>2
    <2> QED
      BY <1>4, <2>1, <2>2 DEF Chain
  <1>8. PICK f, g : f = Freed(d, i) /\ g = Emptied(f, r)
    OBVIOUS
  <1>9. d \in Heap
    BY DEF Erased
  <1>10. /\ f \in Heap
         /\ f.functor = [d.functor EXCEPT ![i] = "free"]
         /\ f.parent = [d.parent EXCEPT ![i] = Null]
         /\ f.told = [d.told EXCEPT ![i] = {}]
         /\ f.conn = [c \in Conn |-> IF c \in d.told[i] THEN Null ELSE d.conn[c]]
         /\ f.rep = d.rep /\ f.alive = d.alive /\ f.call = d.call
         /\ f.watch = d.watch /\ f.dead = d.dead /\ f.listed = d.listed
         /\ f.misused = d.misused /\ f.defers = d.defers
    <2>1. AsFreed(d, i, f)
      BY ONLY <1>8, <1>9, i \in Rep, FreedFields
    <2> QED
      BY ONLY <2>1 DEF AsFreed
  <1>11. /\ g \in Heap
         /\ g.rep = [f.rep EXCEPT ![r] = Null]
         /\ g.alive = f.alive /\ g.call = f.call /\ g.functor = f.functor
         /\ g.parent = f.parent /\ g.watch = f.watch /\ g.told = f.told
         /\ g.conn = f.conn /\ g.dead = f.dead /\ g.listed = f.listed
         /\ g.misused = f.misused /\ g.defers = f.defers
    <2>1. r \in Holder
      BY ONLY r \in Rep, Sorts
    <2>2. AsEmptied(f, r, g)
      BY ONLY <1>8, <1>10, <2>1, EmptiedFields
    <2> QED
      BY ONLY <2>2 DEF AsEmptied
  <1>12. \A q \in Rep : g.functor[q] =
             IF q \in C THEN "free" ELSE IF q \in C \cup {r} THEN "gone" ELSE h.functor[q]
    <2>1. \A q \in Rep : g.functor[q] = IF q = i THEN "free" ELSE d.functor[q]
      BY <1>9, <1>10, <1>11, HeapFields
    <2>2. \A q \in Rep : d.functor[q] =
              IF q \in C \ {i} THEN "free" ELSE IF q \in C THEN "gone" ELSE u.functor[q]
      BY DEF Erased
    <2> QED
      BY ONLY <2>1, <2>2, <1>2, <1>4
  <1>13. \A s \in Holder : g.rep[s] =
             IF s \in C \cup {r} /\ h.functor[s] = "inner" THEN Null ELSE h.rep[s]
    <2>1. \A s \in Holder : g.rep[s] = IF s = r THEN Null ELSE d.rep[s]
      BY <1>9, <1>10, <1>11, HeapFields
    <2>2. \A s \in Holder : d.rep[s] =
              IF s \in C /\ u.functor[s] = "inner" THEN Null ELSE u.rep[s]
      BY DEF Erased
    <2> QED
      BY ONLY <2>1, <2>2, <1>2, <1>3, <1>6
  <1>14. g.call = h.call \ (C \cup {r})
    <2>1. g.call = u.call \ C /\ u.call = h.call \ {r}
      BY <1>1, <1>10, <1>11 DEF Erased, UnboundRel
    <2> QED
      BY ONLY <2>1
  <1>15. ASSUME NEW q \in Rep
         PROVE  g.parent[q] =
                    IF q \in C \/ (h.parent[q] \in C \cup {r} /\ Edge(h, h.parent[q], q))
                    THEN Null ELSE h.parent[q]
    <2>1. g.parent[q] = IF q = i THEN Null ELSE d.parent[q]
      BY <1>9, <1>10, <1>11, HeapFields
    <2>2. d.parent[q] = IF q \in C \ {i} \/ (u.parent[q] \in C /\ Edge(u, u.parent[q], q))
                        THEN Null ELSE u.parent[q]
      BY DEF Erased
    <2>3. u.parent[q] = IF h.parent[q] = r /\ Edge(h, r, q) THEN Null ELSE h.parent[q]
      BY <1>1 DEF UnboundRel
    <2>4. \A c \in C : Edge(u, c, q) <=> Edge(h, c, q)
      BY <1>2, <1>6 DEF Edge
    <2>5. Null \notin C
      BY <1>4
    <2> QED
      BY ONLY <2>1, <2>2, <2>3, <2>4, <2>5, <1>4
  <1>16. ASSUME NEW o \in Object
         PROVE  /\ ToSet(g.watch[o]) = ToSet(h.watch[o]) \ Referring(h, C \cup {r}, o)
                /\ IsInjective(h.watch[o]) => IsInjective(g.watch[o])
    <2>1. /\ g.watch = d.watch
          /\ ToSet(d.watch[o]) = ToSet(u.watch[o]) \ Referring(u, C, o)
          /\ IsInjective(u.watch[o]) => IsInjective(d.watch[o])
      BY <1>10, <1>11 DEF Erased
    <2>2. /\ ToSet(u.watch[o]) = ToSet(h.watch[o]) \ Referring(h, {r}, o)
          /\ IsInjective(h.watch[o]) => IsInjective(u.watch[o])
      BY <1>1 DEF UnboundRel
    <2>3. Referring(h, C \cup {r}, o) = Referring(h, {r}, o) \cup Referring(u, C, o)
      BY <1>6 DEF Referring
    <2> QED
      BY ONLY <2>1, <2>2, <2>3
  <1>17. u.told = h.told /\ u.conn = h.conn
    BY <1>1 DEF UnboundRel
  <1>18. \A q \in Rep : d.told[q] = IF q \in C \ {i} THEN {} ELSE h.told[q]
    BY <1>17 DEF Erased
  <1>19. \A q \in Rep : g.told[q] = IF q \in C THEN {} ELSE h.told[q]
    <2>1. \A q \in Rep : g.told[q] = IF q = i THEN {} ELSE d.told[q]
      BY <1>9, <1>10, <1>11, HeapFields
    <2> QED
      BY ONLY <2>1, <1>18, <1>4
  <1>20. ASSUME NEW c \in Conn
         PROVE  g.conn[c] = IF \E q \in C : c \in h.told[q] THEN Null ELSE h.conn[c]
    <2>1. g.conn[c] = IF c \in d.told[i] THEN Null ELSE d.conn[c]
      BY <1>10, <1>11
    <2>2. d.conn[c] = IF \E q \in C \ {i} : c \in h.told[q] THEN Null ELSE h.conn[c]
      BY <1>17 DEF Erased
    <2>3. d.told[i] = h.told[i]
      BY <1>18
    <2> QED
      BY ONLY <2>1, <2>2, <2>3, <1>4
  <1>21. /\ g.alive = h.alive /\ g.dead = h.dead /\ g.listed = h.listed
         /\ g.misused = h.misused /\ g.defers = h.defers
    BY <1>1, <1>10, <1>11 DEF Erased, UnboundRel
  <1>22. Erased(h, C \cup {r}, C, g)
    BY ONLY <1>11, <1>12, <1>13, <1>14, <1>15, <1>16, <1>19, <1>20, <1>21 DEF Erased
  <1> QED
    BY <1>5, <1>7, <1>8, <1>22

\* destroy() of r destroys the functors of r and of the slots that are nested
\* in it, and deletes the reps of these: MaxCalls are enough.
LEMMA DestroyErases ==
    ASSUME NEW h \in Heap, NEW r \in Rep, Acyclic(h), Occupied(h), h.functor[r] # "free"
    PROVE  \E C \in SUBSET Rep : Chain(h, r, C) /\ Erased(h, C, C \ {r}, Destroy(h, r))
  <1> DEFINE Works(n, g, q) ==
                 Acyclic(g) /\ Occupied(g) /\ g.functor[q] # "free" /\ Cardinality(Live(g)) < n
                     => \E C \in SUBSET Rep :
                           Chain(g, q, C) /\ Erased(g, C, C \ {q}, DestroyWithin[n][g][q])
             P == {n \in Nat : \A g \in Heap, q \in Rep : Works(n, g, q)}
  <1>0. \A g : Live(g) \in SUBSET Rep
    BY DEF Live
  <1>1. 0 \in P
    <2>1. \A g : ~(Cardinality(Live(g)) < 0)
      BY <1>0, RepsFinite
    <2> QED
      BY <2>1
  <1>2. ASSUME NEW n \in P
        PROVE  n + 1 \in P
    <2> HIDE DEF P, Works
    <2>b. n \in Nat /\ \A g \in Heap, q \in Rep : Works(n, g, q)
      BY ONLY <1>2, n \in P DEF P
    <2>a. SUFFICES \A g \in Heap, q \in Rep : Works(n + 1, g, q)
      BY ONLY <2>a, <2>b DEF P
    <2> USE DEF Works
    <2>1. SUFFICES ASSUME NEW g \in Heap, NEW q \in Rep, Acyclic(g), Occupied(g),
                          g.functor[q] # "free", Cardinality(Live(g)) < n + 1
                   PROVE  \E C \in SUBSET Rep :
                             Chain(g, q, C) /\ Erased(g, C, C \ {q}, DestroyWithin[n + 1][g][q])
      OBVIOUS
    <2>2. DestroyWithin[n + 1][g][q] = DestroyUsing(DestroyWithin[n], g, q)
      BY <2>b, DestroyUnfolds
    <2>3. CASE g.functor[q] = "gone" \/ g.rep[q] = Null
      <3>1. {q} \ {q} = {} /\ {q} \in SUBSET Rep
        OBVIOUS
      <3>2. PICK d : d = DestroyWithin[n + 1][g][q]
        OBVIOUS
      <3>3. Chain(g, q, {q}) /\ Erased(g, {q}, {}, d)
        BY ONLY <3>2, <2>1, <2>2, <2>3, DestroyLeaf, g \in Heap, q \in Rep
      <3> QED
        BY ONLY <3>1, <3>2, <3>3
    <2>4. CASE g.functor[q] # "gone" /\ g.rep[q] # Null
      <3>0. g.rep[q] \in Rep
        BY <2>4, HeapFields, Sorts
      <3>1. PICK i \in Rep : i = g.rep[q]
        BY <3>0
      <3>2. PICK u : u = Unbound(g, q)
        OBVIOUS
      <3>3. UnboundRel(g, q, u)
        BY ONLY <2>1, <2>4, <3>2, g \in Heap, q \in Rep, UnboundFields
      <3>4. /\ u \in Heap /\ u.rep = g.rep
            /\ \A p \in Rep : u.functor[p] = IF p = q THEN "gone" ELSE g.functor[p]
        BY <3>3, HeapFields DEF UnboundRel
      <3>5. \A p, s \in Rep : Edge(u, p, s) => Edge(g, p, s)
        BY <3>4, Sorts DEF Edge
      <3>6. Acyclic(u)
        BY ONLY <3>5, <2>1 DEF Acyclic
      <3>7. Occupied(u)
        <4>1. \A s \in Holder : g.rep[s] # Null => g.rep[s] \in Rep
          BY HeapFields
        <4> QED
          BY ONLY <4>1, <2>1, <3>4 DEF Occupied
      <3>8. Cardinality(Live(u)) < n
        <4>1. Live(u) = Live(g) \ {q} /\ q \in Live(g)
          BY <2>1, <2>4, <3>4 DEF Live
        <4>2. Cardinality(Live(u)) < Cardinality(Live(g))
          BY <4>1, <1>0, RepsFinite
        <4>3. Cardinality(Live(u)) \in Nat /\ Cardinality(Live(g)) \in Nat
          BY <1>0, RepsFinite
        <4> QED
          BY ONLY <4>2, <4>3, <2>1, <2>b
      <3>9. u.functor[i] # "free"
        <4>1. q \in Holder /\ i # Null
          BY Sorts
        <4> QED
          BY <4>1, <3>1, <3>4, <2>1 DEF Occupied
      <3>10. PICK d : d = DestroyWithin[n][u][i]
        OBVIOUS
      <3>11. PICK C \in SUBSET Rep : Chain(u, i, C) /\ Erased(u, C, C \ {i}, d)
        BY <2>b, <3>4, <3>6, <3>7, <3>8, <3>9, <3>10
      <3>12. DestroyWithin[n + 1][g][q] = Emptied(Freed(d, i), q)
        BY <2>1, <2>2, <2>4, <3>1, <3>2, <3>10 DEF DestroyUsing
      <3>13. PICK e : e = Emptied(Freed(d, i), q)
        OBVIOUS
      <3>14. q \notin C /\ Chain(g, q, C \cup {q}) /\ Erased(g, C \cup {q}, C, e)
        BY ONLY <2>1, <2>4, <3>1, <3>2, <3>11, <3>13, g \in Heap, q \in Rep, i \in Rep, DestroyNested
      <3>15. (C \cup {q}) \ {q} = C /\ C \cup {q} \in SUBSET Rep
        BY <3>14
      <3> QED
        BY ONLY <3>12, <3>13, <3>14, <3>15
    <2> QED
      BY <2>1, <2>3, <2>4
  <1>3. P \in SUBSET Nat
    OBVIOUS
  <1> HIDE DEF P
  <1>4. \A n \in Nat : n \in P
    BY <1>1, <1>2, <1>3, AllNumbers
  <1>5. MaxCalls \in P /\ Cardinality(Live(h)) < MaxCalls
    BY <1>0, <1>4, Sorts, RepsFinite
  <1>6. Works(MaxCalls, h, r)
    BY ONLY <1>5, h \in Heap, r \in Rep DEF P
  <1> QED
    BY <1>5, <1>6 DEF Destroy

-----------------------------------------------------------------------------
(***************************************************************************)
(* What destroy() and the deletion of a rep keep of the invariant.         *)
(***************************************************************************)
\* The rep of a slot has been deleted.
LEMMA FreedErased ==
    ASSUME NEW h \in Heap, NEW r \in Rep, NEW C \in SUBSET Rep, r \in C,
           NEW d, Erased(h, C, C \ {r}, d), NEW g, g = Freed(d, r)
    PROVE  Erased(h, C, C, g)
  <1>1. d \in Heap
    BY DEF Erased
  <1>2. /\ g \in Heap
        /\ g.functor = [d.functor EXCEPT ![r] = "free"]
        /\ g.parent = [d.parent EXCEPT ![r] = Null]
        /\ g.told = [d.told EXCEPT ![r] = {}]
        /\ g.conn = [c \in Conn |-> IF c \in d.told[r] THEN Null ELSE d.conn[c]]
        /\ g.blocked = d.blocked \ {r}
        /\ g.rep = d.rep /\ g.alive = d.alive /\ g.call = d.call
        /\ g.watch = d.watch /\ g.dead = d.dead /\ g.listed = d.listed
        /\ g.misused = d.misused /\ g.defers = d.defers /\ g.garbage = d.garbage
    <2>1. AsFreed(d, r, g)
      BY ONLY <1>1, r \in Rep, g = Freed(d, r), FreedFields
    <2> QED
      BY ONLY <2>1 DEF AsFreed
  <1>3. /\ \A q \in Rep : g.functor[q] = IF q = r THEN "free" ELSE d.functor[q]
        /\ \A q \in Rep : g.parent[q] = IF q = r THEN Null ELSE d.parent[q]
        /\ \A q \in Rep : g.told[q] = IF q = r THEN {} ELSE d.told[q]
        /\ \A c \in Conn : g.conn[c] = IF c \in d.told[r] THEN Null ELSE d.conn[c]
    BY <1>1, <1>2, HeapFields
  <1>4. d.told[r] = h.told[r]
    BY DEF Erased
  <1>5. ASSUME NEW c \in Conn
        PROVE  g.conn[c] = IF \E q \in C : c \in h.told[q] THEN Null ELSE h.conn[c]
    <2>1. d.conn[c] = IF \E q \in C \ {r} : c \in h.told[q] THEN Null ELSE h.conn[c]
      BY DEF Erased
    <2> QED
      BY ONLY <2>1, <1>3, <1>4, r \in C, c \in Conn
  <1>6. /\ \A q \in Rep : g.functor[q] =
              IF q \in C THEN "free" ELSE IF q \in C THEN "gone" ELSE h.functor[q]
        /\ \A q \in Rep : g.parent[q] =
              IF q \in C \/ (h.parent[q] \in C /\ Edge(h, h.parent[q], q))
              THEN Null ELSE h.parent[q]
        /\ \A q \in Rep : g.told[q] = IF q \in C THEN {} ELSE h.told[q]
    BY <1>3 DEF Erased
  <1> QED
    BY <1>2, <1>5, <1>6 DEF Erased

LEMMA DeleteErases ==
    ASSUME NEW h \in Heap, NEW r \in Rep, Acyclic(h), Occupied(h), h.functor[r] # "free"
    PROVE  \E C \in SUBSET Rep : Chain(h, r, C) /\ Erased(h, C, C, DeleteRep(h, r))
  <1>1. PICK d, g : d = Destroy(h, r) /\ g = DeleteRep(h, r)
    OBVIOUS
  <1>2. PICK C \in SUBSET Rep : Chain(h, r, C) /\ Erased(h, C, C \ {r}, d)
    BY <1>1, DestroyErases
  <1>3. r \in C /\ g = Freed(d, r)
    BY <1>1, <1>2 DEF Chain, DeleteRep
  <1>4. Erased(h, C, C, g)
    BY <1>2, <1>3, FreedErased
  <1> QED
    BY <1>1, <1>2, <1>4

LEMMA OwnedOccupied ==
    ASSUME NEW h \in Heap, NEW U, Owned(h, U), \A q \in U : h.rep[q] # Null => h.functor[q] = "inner"
    PROVE  Occupied(h)
  BY Sorts DEF Owned, Occupied

\* Owned, but the slot that has r has not been told that it is deleted.
OwnedBut(h, U, r) ==
    /\ \A s, t \in Holder : h.rep[s] # Null /\ h.rep[s] = h.rep[t] => s = t
    /\ \A s \in Holder : h.rep[s] \notin {Null, r} =>
          h.functor[h.rep[s]] # "free" /\ h.rep[s] \notin U
    /\ \A q \in Rep : h.functor[q] = "free" \/ q \in U \/ \E s \in Holder : h.rep[s] = q
    /\ \A s \in Slot : h.rep[s] # Null => s \in h.alive
    /\ \A s \in Rep : h.rep[s] # Null => h.functor[s] = "inner" \/ s \in U
    /\ \A q \in U : q \in Rep /\ h.functor[q] # "free"

\* In a chain only r is not nested in another rep of the chain.
LEMMA ChainTop ==
    ASSUME NEW h \in Heap, NEW r \in Rep, NEW C, Chain(h, r, C), Acyclic(h)
    PROVE  \A c \in C : ~Edge(h, c, r)
  <1>1. C \in SUBSET Rep /\ C # {}
    BY DEF Chain
  <1>2. PICK q \in C : \A c \in C : ~Edge(h, c, q)
    BY <1>1 DEF Acyclic
  <1>3. q = r
    <2>1. SUFFICES ASSUME q # r
                   PROVE  FALSE
      OBVIOUS
    <2>2. PICK c \in C : h.functor[c] = "inner" /\ h.rep[c] = q
      BY <2>1 DEF Chain
    <2> QED
      BY <2>2, <1>2 DEF Edge
  <1> QED
    BY <1>2, <1>3

Erasing(h, U, P, D, r, C, K, g) ==
    /\ Inv(h, U, P, D)
    /\ r \in Rep /\ r \notin U /\ h.functor[r] # "free"
    /\ Chain(h, r, C) /\ K \in {C, C \ {r}} /\ Erased(h, C, K, g)
    /\ \A q \in h.call \ P : ~(h.functor[q] = "inner" /\ h.rep[q] = r)

EraseRel(h, U, r, C, K, g) ==
    /\ h \in Heap /\ g \in Heap /\ r \in Rep /\ r \in C /\ C \in SUBSET Rep
    /\ K \in SUBSET C /\ C \ {r} \subseteq K
    /\ C \cap U = {}
    /\ \A c \in C : ~Edge(h, c, r)
    /\ \A q \in Rep \ C : g.functor[q] = h.functor[q] /\ g.rep[q] = h.rep[q]
    /\ \A s \in Slot : g.rep[s] = h.rep[s]
    /\ \A q \in C \ {r}, s \in Holder : h.rep[s] = q => s \in C /\ g.rep[s] = Null
    /\ \A q, t \in Rep : Edge(g, q, t) <=> q \notin C /\ Edge(h, q, t)
    /\ \A q \in Rep : g.parent[q] # Null =>
          g.parent[q] = h.parent[q] /\ q \notin K
          /\ (h.parent[q] \in C => ~Edge(h, h.parent[q], q))

LEMMA EraseFacts ==
    ASSUME NEW h, NEW U, NEW P, NEW D, NEW r, NEW C, NEW K, NEW g,
           Erasing(h, U, P, D, r, C, K, g)
    PROVE  EraseRel(h, U, r, C, K, g)
  <1>1. /\ h \in Heap /\ r \in Rep /\ Acyclic(h) /\ Owned(h, U)
        /\ r \notin U /\ Chain(h, r, C) /\ K \in {C, C \ {r}} /\ Erased(h, C, K, g)
    BY DEF Erasing, Inv
  <1>2. g \in Heap
    BY <1>1 DEF Erased
  <1>3. r \in C /\ C \in SUBSET Rep /\ K \in SUBSET C /\ C \ {r} \subseteq K
    BY <1>1 DEF Chain
  <1>4. \A c \in C : ~Edge(h, c, r)
    BY ONLY <1>1, ChainTop
  <1>5. \A q \in C \ {r} : \E c \in C : h.functor[c] = "inner" /\ h.rep[c] = q
    BY <1>1 DEF Chain
  <1>6. C \cap U = {}
    <2>1. ASSUME NEW q \in C \ {r}
          PROVE  q \notin U
      <3>1. PICK c \in C : h.rep[c] = q
        BY <1>5
      <3>2. c \in Holder /\ q # Null
        BY <1>3, Sorts
      <3> QED
        BY <3>1, <3>2, <1>1 DEF Owned
    <2> QED
      BY <1>1, <2>1
  <1>7. \A q \in Rep : g.functor[q] =
            IF q \in K THEN "free" ELSE IF q \in C THEN "gone" ELSE h.functor[q]
    BY <1>1 DEF Erased
  <1>8. \A s \in Holder : g.rep[s] =
            IF s \in C /\ h.functor[s] = "inner" THEN Null ELSE h.rep[s]
    BY <1>1 DEF Erased
  <1>9. \A q \in Rep \ C : g.functor[q] = h.functor[q] /\ g.rep[q] = h.rep[q]
    BY <1>3, <1>7, <1>8, Sorts
  <1>10. \A s \in Slot : g.rep[s] = h.rep[s]
    BY <1>3, <1>8, Sorts
  <1>11. ASSUME NEW q \in C \ {r}, NEW s \in Holder, h.rep[s] = q
         PROVE  s \in C /\ g.rep[s] = Null
    <2>1. PICK c \in C : h.functor[c] = "inner" /\ h.rep[c] = q
      BY <1>5
    <2>2. c \in Holder /\ q # Null
      BY <1>3, Sorts
    <2>3. s = c
      BY <1>1, <1>11, <2>1, <2>2 DEF Owned
    <2> QED
      BY <2>1, <2>3, <1>8
  <1>12. ASSUME NEW q \in Rep, NEW t \in Rep
         PROVE  Edge(g, q, t) <=> q \notin C /\ Edge(h, q, t)
    <2>1. CASE q \in C
      <3>1. g.functor[q] \in {"free", "gone"}
        BY <2>1, <1>7
      <3> QED
        BY <2>1, <3>1, Sorts DEF Edge
    <2>2. CASE q \notin C
      BY <2>2, <1>9, <1>10 DEF Edge
    <2> QED
      BY <2>1, <2>2
  <1>13. ASSUME NEW q \in Rep, g.parent[q] # Null
         PROVE  /\ g.parent[q] = h.parent[q] /\ q \notin K
                /\ h.parent[q] \in C => ~Edge(h, h.parent[q], q)
    BY <1>1, <1>13 DEF Erased
  <1> QED
    BY ONLY <1>1, <1>2, <1>3, <1>4, <1>6, <1>9, <1>10, <1>11, <1>12, <1>13 DEF EraseRel

LEMMA EraseKeeps ==
    ASSUME NEW h, NEW U, NEW P, NEW D, NEW r, NEW C, NEW K, NEW g,
           Erasing(h, U, P, D, r, C, K, g)
    PROVE  /\ g \in Heap /\ ~g.misused
           /\ Watching(g) /\ Acyclic(g) /\ Refers(g) /\ Parents(g)
           /\ Callable(g, D) /\ Nested(g, P)
           /\ OwnedBut(g, U, r) /\ (r \notin K => Owned(g, U))
  <1> USE Sorts
  <1>1. EraseRel(h, U, r, C, K, g)
    BY EraseFacts
  <1>2. /\ Watching(h) /\ Acyclic(h) /\ Refers(h) /\ Parents(h) /\ ~h.misused
        /\ Callable(h, D) /\ Nested(h, P) /\ Owned(h, U)
        /\ Erased(h, C, K, g) /\ h \in Heap /\ g \in Heap
        /\ r \in Rep /\ r \notin U /\ h.functor[r] # "free"
        /\ \A q \in h.call \ P : ~(h.functor[q] = "inner" /\ h.rep[q] = r)
    BY <1>1 DEF Erasing, Inv, EraseRel
  <1>3. \A q \in Rep : g.functor[q] =
            IF q \in K THEN "free" ELSE IF q \in C THEN "gone" ELSE h.functor[q]
    BY <1>2 DEF Erased
  <1>4. g.call = h.call \ C /\ g.alive = h.alive /\ g.dead = h.dead
        /\ g.listed = h.listed /\ g.misused = h.misused
    BY <1>2 DEF Erased
  <1>5. C \in SUBSET Rep /\ K \in SUBSET C
    BY <1>1 DEF EraseRel
  <1>6. Watching(g)
    <2>1. ASSUME NEW o \in Object
          PROVE  /\ IsInjective(g.watch[o])
                 /\ ToSet(g.watch[o]) = {q \in Rep : g.functor[q] = o}
      <3>1. /\ ToSet(g.watch[o]) = ToSet(h.watch[o]) \ Referring(h, C, o)
            /\ IsInjective(h.watch[o]) => IsInjective(g.watch[o])
        BY <1>2 DEF Erased
      <3>2. /\ IsInjective(h.watch[o])
            /\ ToSet(h.watch[o]) = {q \in Rep : h.functor[q] = o}
        BY <1>2 DEF Watching
      <3>3. {q \in Rep : g.functor[q] = o} = {q \in Rep : h.functor[q] = o} \ Referring(h, C, o)
        <4>1. o \notin {"free", "gone"}
          OBVIOUS
        <4> QED
          BY ONLY <4>1, <1>3, <1>5 DEF Referring
      <3> QED
        BY ONLY <3>1, <3>2, <3>3
    <2> QED
      BY <2>1 DEF Watching
  <1>7. Acyclic(g)
    <2>1. \A q, t \in Rep : Edge(g, q, t) => Edge(h, q, t)
      BY <1>1 DEF EraseRel
    <2> QED
      BY ONLY <2>1, <1>2 DEF Acyclic
  <1>8. Refers(g)
    <2>1. ASSUME NEW q \in Rep, g.functor[q] \in Slot
          PROVE  g.functor[q] = h.functor[q]
      BY <2>1, <1>3
    <2> QED
      BY <2>1, <1>2, <1>4 DEF Refers
  <1>9. Parents(g)
    <2>1. ASSUME NEW q \in Rep, g.parent[q] # Null
          PROVE  /\ g.functor[q] # "free"
                 /\ g.parent[q] \in Rep => Edge(g, g.parent[q], q)
                 /\ g.parent[q] \in Slot => g.rep[g.parent[q]] = q /\ g.parent[q] \in g.listed
      <3>1. /\ g.parent[q] = h.parent[q] /\ q \notin K
            /\ h.parent[q] \in C => ~Edge(h, h.parent[q], q)
        BY <1>1, <2>1 DEF EraseRel
      <3>2. /\ h.functor[q] # "free"
            /\ h.parent[q] \in Rep => Edge(h, h.parent[q], q)
            /\ h.parent[q] \in Slot => h.rep[h.parent[q]] = q /\ h.parent[q] \in h.listed
        BY <1>2, <2>1, <3>1 DEF Parents
      <3>3. g.functor[q] # "free"
        BY <3>1, <3>2, <1>3
      <3>4. ASSUME g.parent[q] \in Rep
            PROVE  Edge(g, g.parent[q], q)
        BY <3>1, <3>2, <3>4, <1>1 DEF EraseRel
      <3>5. ASSUME g.parent[q] \in Slot
            PROVE  g.rep[g.parent[q]] = q
        BY <3>1, <3>2, <3>5, <1>1 DEF EraseRel
      <3> QED
        BY <3>1, <3>2, <3>3, <3>4, <3>5, <1>4
    <2> QED
      BY <2>1 DEF Parents
  <1>10. Callable(g, D)
    <2>1. \A q \in g.call : q \in h.call /\ g.functor[q] = h.functor[q]
      <3>1. h.call \subseteq Rep
        BY <1>2, HeapFields
      <3> QED
        BY ONLY <3>1, <1>3, <1>4, <1>5
    <2> QED
      BY <2>1, <1>2, <1>4 DEF Callable
  <1>11. Nested(g, P)
    <2>1. SUFFICES ASSUME NEW q \in g.call \ P, g.functor[q] = "inner", g.rep[q] # Null
                   PROVE  g.rep[q] \in g.call /\ g.parent[g.rep[q]] = q
      BY DEF Nested
    <2>2. q \in Rep /\ q \notin C /\ q \in h.call
      BY <1>2, <1>4, HeapFields
    <2>3. h.functor[q] = "inner" /\ g.rep[q] = h.rep[q]
      BY <2>1, <2>2, <1>1 DEF EraseRel
    <2>4. PICK t \in Rep : t = h.rep[q]
      <3>1. q \in Holder
        BY <2>2, Sorts
      <3>2. h.rep[q] \in Rep \cup {Null}
        BY <1>2, <3>1, HeapFields
      <3>3. h.rep[q] # Null
        BY ONLY <2>1, <2>3
      <3>4. h.rep[q] \in Rep
        BY ONLY <3>2, <3>3
      <3> QED
        BY <3>4
    <2>5. t \in h.call /\ h.parent[t] = q
      BY <2>1, <2>2, <2>3, <2>4, <1>2 DEF Nested
    <2>6. t # r
      BY <2>1, <2>2, <2>3, <2>4, <1>2
    <2>7. t \notin C
      <3>1. q \in Holder
        BY <2>2
      <3> QED
        BY <3>1, <2>2, <2>4, <2>6, <1>1 DEF EraseRel
    <2>8. g.parent[t] = h.parent[t]
      BY <2>2, <2>5, <2>7, <1>2, <1>5 DEF Erased
    <2> QED
      BY <2>3, <2>4, <2>5, <2>7, <2>8, <1>4
  <1>12. OwnedBut(g, U, r) /\ (r \notin K => Owned(g, U))
    <2>1. \A s \in Holder : g.rep[s] = Null \/ g.rep[s] = h.rep[s]
      BY <1>2 DEF Erased
    <2>2. \A s, t \in Holder : g.rep[s] # Null /\ g.rep[s] = g.rep[t] => s = t
      BY <2>1, <1>2 DEF Owned
    <2>3. ASSUME NEW s \in Holder, g.rep[s] # Null
          PROVE  /\ g.rep[s] \in K => g.rep[s] = r
                 /\ g.rep[s] \notin K => g.functor[g.rep[s]] # "free"
                 /\ g.rep[s] \notin U
      <3>1. PICK t \in Rep : t = g.rep[s] /\ t = h.rep[s]
        BY <2>1, <2>3, <1>2, HeapFields
      <3>2. t \in C => t = r
        BY <2>3, <3>1, <1>1 DEF EraseRel
      <3>3. h.functor[t] # "free" /\ t \notin U
        BY <3>1, <1>2 DEF Owned
      <3> QED
        BY <3>1, <3>2, <3>3, <1>3, <1>5
    <2>4. ASSUME NEW q \in Rep, g.functor[q] # "free", q \notin U
          PROVE  \E s \in Holder : g.rep[s] = q
      <3>1. h.functor[q] # "free" /\ q \notin K
        <4>1. q \notin C \/ q = r \/ q \in K
          BY <1>1 DEF EraseRel
        <4> QED
          BY <4>1, <2>4, <1>2, <1>3
      <3>2. PICK s \in Holder : h.rep[s] = q
        BY <2>4, <3>1, <1>2 DEF Owned
      <3>3. ASSUME s \in C, h.functor[s] = "inner"
            PROVE  FALSE
        <4>1. q \in C
          BY <3>2, <3>3, <1>2 DEF Erasing, Chain
        <4>2. q = r
          BY <4>1, <3>1, <1>1 DEF EraseRel
        <4>3. Edge(h, s, r)
          BY <3>2, <3>3, <4>2 DEF Edge
        <4> QED
          BY <4>3, <3>3, <1>1 DEF EraseRel
      <3>4. g.rep[s] = q
        BY <3>2, <3>3, <1>2 DEF Erased
      <3> QED
        BY <3>4
    <2>5. \A s \in Slot : g.rep[s] # Null => s \in g.alive
      BY <1>1, <1>2, <1>4 DEF Owned, EraseRel
    <2>6. ASSUME NEW s \in Rep, g.rep[s] # Null
          PROVE  g.functor[s] = "inner" \/ s \in U
      <3>1. h.rep[s] # Null /\ g.rep[s] = h.rep[s] /\ ~(s \in C /\ h.functor[s] = "inner")
        BY <2>6, <1>2 DEF Erased
      <3>2. h.functor[s] = "inner" \/ s \in U
        BY <3>1, <1>2 DEF Owned
      <3>3. s \in C => s \notin U
        BY <1>1 DEF EraseRel
      <3>4. CASE s \notin C
        BY <3>2, <3>4, <1>3, <1>5
      <3> QED
        BY <3>1, <3>2, <3>3, <3>4
    <2>7. ASSUME NEW q \in U
          PROVE  q \in Rep /\ g.functor[q] # "free"
      <3>1. q \in Rep /\ h.functor[q] # "free"
        BY <1>2 DEF Owned
      <3>2. q \notin C
        BY <1>1 DEF EraseRel
      <3> QED
        BY <3>1, <3>2, <1>3, <1>5
    <2>8. OwnedBut(g, U, r)
      <3>1. \A s \in Holder : g.rep[s] \notin {Null, r} =>
                g.functor[g.rep[s]] # "free" /\ g.rep[s] \notin U
        BY <2>3
      <3>2. \A q \in Rep : g.functor[q] = "free" \/ q \in U \/ \E s \in Holder : g.rep[s] = q
        BY <2>4
      <3> QED
        BY ONLY <2>2, <3>1, <3>2, <2>5, <2>6, <2>7 DEF OwnedBut
    <2>9. ASSUME r \notin K
          PROVE  Owned(g, U)
      <3>1. \A s \in Holder : g.rep[s] # Null =>
                g.functor[g.rep[s]] # "free" /\ g.rep[s] \notin U
        BY <2>3, <2>9
      <3>2. \A q \in Rep : g.functor[q] = "free" \/ q \in U \/ \E s \in Holder : g.rep[s] = q
        BY <2>4
      <3> QED
        BY ONLY <2>2, <3>1, <3>2, <2>5, <2>6, <2>7 DEF Owned
    <2> QED
      BY <2>8, <2>9
  <1> QED
    BY <1>2, <1>4, <1>6, <1>7, <1>8, <1>9, <1>10, <1>11, <1>12

LEMMA EraseLists ==
    ASSUME NEW h, NEW U, NEW P, NEW D, NEW r, NEW C, NEW K, NEW g, NEW X,
           Erasing(h, U, P, D, r, C, K, g), Told(h, X),
           \A s \in h.listed \ X : r \in K => h.rep[s] # r
    PROVE  Told(g, X)
  <1> USE Sorts
  <1>1. EraseRel(h, U, r, C, K, g)
    BY EraseFacts
  <1>2. h \in Heap /\ Erased(h, C, K, g) /\ Owned(h, U)
    BY DEF Erasing, Inv
  <1>3. SUFFICES ASSUME NEW s \in g.listed \ X
                 PROVE  g.rep[s] # Null /\ g.parent[g.rep[s]] = s
    BY DEF Told
  <1>4. s \in h.listed /\ s \in Slot
    BY <1>2, HeapFields DEF Erased
  <1>5. h.rep[s] # Null /\ h.parent[h.rep[s]] = s
    BY <1>3, <1>4 DEF Told
  <1>6. PICK t : t = h.rep[s]
    OBVIOUS
  <1>7. t \in Rep /\ g.rep[s] = t
    BY <1>1, <1>2, <1>4, <1>5, <1>6, HeapFields DEF EraseRel
  <1>8. t \notin C \/ t = r
    <2>1. s \notin C
      BY <1>1, <1>4 DEF EraseRel
    <2> QED
      BY <2>1, <1>1, <1>4, <1>6, <1>7 DEF EraseRel
  <1>9. t \notin K
    <2>1. K \subseteq C
      BY <1>1 DEF EraseRel
    <2>2. r \in K => t # r
      BY <1>3, <1>4, <1>6
    <2> QED
      BY <2>1, <2>2, <1>8
  <1>10. s \notin C
    BY <1>1, <1>4 DEF EraseRel
  <1>11. g.parent[t] = s
    BY <1>2, <1>5, <1>6, <1>7, <1>9, <1>10 DEF Erased
  <1> QED
    BY <1>5, <1>6, <1>7, <1>11

LEMMA EraseConns ==
    ASSUME NEW h \in Heap, NEW C, NEW K \in SUBSET Rep, NEW g, Erased(h, C, K, g), C \in SUBSET Rep,
           Conns(h)
    PROVE  Conns(g)
  <1> USE Sorts
  <1>1. \A s \in Slot : g.rep[s] = h.rep[s]
    BY DEF Erased
  <1>2. \A c \in Conn : g.conn[c] = IF \E q \in K : c \in h.told[q] THEN Null ELSE h.conn[c]
    BY DEF Erased
  <1>3. \A q \in Rep : g.told[q] = IF q \in K THEN {} ELSE h.told[q]
    BY DEF Erased
  <1>4. \A c \in Conn : h.conn[c] \in Slot \cup {Null}
    BY HeapFields
  <1>5. /\ \A c \in Conn : h.conn[c] # Null => h.rep[h.conn[c]] # Null
        /\ \A c \in Conn, q \in Rep :
              c \in h.told[q] <=> h.conn[c] # Null /\ h.rep[h.conn[c]] = q
    BY DEF Conns
  <1>6. \A c \in Conn : g.conn[c] # Null => g.rep[g.conn[c]] # Null
    BY ONLY <1>1, <1>2, <1>4, <1>5
  <1>7. ASSUME NEW c \in Conn, NEW q \in Rep
        PROVE  c \in g.told[q] <=> g.conn[c] # Null /\ g.rep[g.conn[c]] = q
    <2>1. c \in h.told[q] <=> h.conn[c] # Null /\ h.rep[h.conn[c]] = q
      BY <1>5
    <2>2. CASE \E p \in K : c \in h.told[p]
      <3>1. PICK p \in K : c \in h.told[p]
        BY <2>2
      <3>2. h.rep[h.conn[c]] = p
        BY <3>1, <1>5
      <3>3. g.conn[c] = Null
        BY <1>2, <2>2
      <3>4. c \notin g.told[q]
        BY <3>1, <3>2, <2>1, <1>3
      <3> QED
        BY <3>3, <3>4
    <2>3. CASE ~ \E p \in K : c \in h.told[p]
      <3>1. g.conn[c] = h.conn[c]
        BY <1>2, <2>3
      <3>2. c \in g.told[q] <=> c \in h.told[q]
        BY <1>3, <2>3
      <3>3. h.conn[c] # Null => g.rep[h.conn[c]] = h.rep[h.conn[c]]
        BY <1>1, <1>4
      <3> QED
        BY ONLY <3>1, <3>2, <3>3, <2>1
    <2> QED
      BY <2>2, <2>3
  <1> QED
    BY <1>6, <1>7 DEF Conns

\* The slot at s, whose rep is deleted, or that has none, is left without a rep;
\* it may end, and leave its list, with that.
Emptying(h, U, P, D, s, r, g) ==
    /\ h \in Heap /\ ~h.misused /\ Watching(h) /\ Acyclic(h) /\ Refers(h) /\ Parents(h)
    /\ Callable(h, D) /\ Nested(h, P) /\ Told(h, {s}) /\ s \in Slot /\ g \in Heap
    /\ \/ Owned(h, U) /\ h.rep[s] = Null
       \/ OwnedBut(h, U, r) /\ h.rep[s] = r /\ h.functor[r] = "free" /\ h.told[r] = {}
    /\ g.rep = [h.rep EXCEPT ![s] = Null]
    /\ g.alive \in {h.alive, h.alive \ {s}} /\ g.listed \in {h.listed, h.listed \ {s}}
    /\ g.alive = h.alive \/ \A q \in Rep : h.functor[q] # s
    /\ g.call = h.call /\ g.functor = h.functor /\ g.parent = h.parent
    /\ g.watch = h.watch /\ g.told = h.told /\ g.conn = h.conn /\ g.dead = h.dead
    /\ g.misused = h.misused

LEMMA SlotEmptied ==
    ASSUME NEW h, NEW U, NEW P, NEW D, NEW s, NEW r, NEW g, Emptying(h, U, P, D, s, r, g)
    PROVE  Inv(g, U, P, D) /\ Told(g, {s}) /\ (Conns(h) => Conns(g))
  <1> USE DEF Emptying
  <1> USE Sorts
  <1>1. \A t \in Holder : g.rep[t] = IF t = s THEN Null ELSE h.rep[t]
    BY HeapFields
  <1>2. \A q \in Rep : h.rep[s] = q => h.functor[q] = "free"
    OBVIOUS
  <1>3. \A q, t \in Rep : Edge(g, q, t) => Edge(h, q, t)
    BY <1>1 DEF Edge
  <1>4. \A q, t \in Rep : h.functor[t] # "free" /\ Edge(h, q, t) => Edge(g, q, t)
    BY <1>1, <1>2 DEF Edge
  <1>5. Watching(g)
    BY DEF Watching
  <1>6. Acyclic(g)
    BY ONLY <1>3, Emptying(h, U, P, D, s, r, g) DEF Acyclic, Emptying
  <1>7. Refers(g)
    BY DEF Refers
  <1>8. Parents(g)
    <2>1. ASSUME NEW q \in Rep, g.parent[q] # Null
          PROVE  /\ g.functor[q] # "free"
                 /\ g.parent[q] \in Rep => Edge(g, g.parent[q], q)
                 /\ g.parent[q] \in Slot => g.rep[g.parent[q]] = q /\ g.parent[q] \in g.listed
      <3>1. /\ h.functor[q] # "free"
            /\ h.parent[q] \in Rep => Edge(h, h.parent[q], q)
            /\ h.parent[q] \in Slot => h.rep[h.parent[q]] = q /\ h.parent[q] \in h.listed
        BY <2>1 DEF Parents
      <3>2. h.parent[q] # s
        BY <3>1, <1>2
      <3>3. h.parent[q] \in Slot => g.rep[h.parent[q]] = q
        BY <3>1, <3>2, <1>1
      <3> QED
        BY <3>1, <3>2, <3>3, <1>4
    <2> QED
      BY <2>1 DEF Parents
  <1>9. Callable(g, D)
    BY DEF Callable
  <1>10. Nested(g, P)
    <2>1. ASSUME NEW q \in g.call
          PROVE  g.rep[q] = h.rep[q]
      BY <1>1, HeapFields
    <2> QED
      BY <2>1 DEF Nested
  <1>11. Owned(g, U)
    <2>1. \A t, u \in Holder : g.rep[t] # Null /\ g.rep[t] = g.rep[u] => t = u
      BY <1>1 DEF Owned, OwnedBut
    <2>2. \A t \in Holder : g.rep[t] # Null =>
              g.functor[g.rep[t]] # "free" /\ g.rep[t] \notin U
      BY <1>1 DEF Owned, OwnedBut
    <2>3. \A q \in Rep : g.functor[q] = "free" \/ q \in U \/ \E t \in Holder : g.rep[t] = q
      BY <1>1 DEF Owned, OwnedBut
    <2>4. \A t \in Slot : g.rep[t] # Null => t \in g.alive
      BY <1>1 DEF Owned, OwnedBut
    <2>5. \A t \in Rep : g.rep[t] # Null => g.functor[t] = "inner" \/ t \in U
      BY <1>1 DEF Owned, OwnedBut
    <2>6. \A q \in U : q \in Rep /\ g.functor[q] # "free"
      BY DEF Owned, OwnedBut
    <2> QED
      BY ONLY <2>1, <2>2, <2>3, <2>4, <2>5, <2>6 DEF Owned
  <1>12. Told(g, {s})
    <2>1. ASSUME NEW t \in g.listed \ {s}
          PROVE  g.rep[t] # Null /\ g.parent[g.rep[t]] = t
      <3>1. t \in h.listed \ {s} /\ t \in Slot
        BY HeapFields
      <3> QED
        BY <3>1, <1>1 DEF Told
    <2> QED
      BY <2>1 DEF Told
  <1>13. ASSUME Conns(h)
         PROVE  Conns(g)
    <2>1. ASSUME NEW c \in Conn, h.conn[c] = s
          PROVE  FALSE
      <3>1. h.rep[s] # Null
        BY <1>13, <2>1 DEF Conns
      <3>2. h.rep[s] = r /\ h.told[r] = {} /\ r \in Rep
        BY <3>1, HeapFields
      <3>3. c \in h.told[r]
        BY <1>13, <2>1, <3>2 DEF Conns
      <3> QED
        BY <3>2, <3>3
    <2>2. \A c \in Conn : h.conn[c] # Null => g.rep[h.conn[c]] = h.rep[h.conn[c]]
      BY <2>1, <1>1, HeapFields
    <2>3. /\ \A c \in Conn : h.conn[c] # Null => h.rep[h.conn[c]] # Null
          /\ \A c \in Conn, q \in Rep :
                c \in h.told[q] <=> h.conn[c] # Null /\ h.rep[h.conn[c]] = q
      BY <1>13 DEF Conns
    <2> QED
      BY ONLY <2>2, <2>3, Emptying(h, U, P, D, s, r, g) DEF Conns, Emptying
  <1>14. Inv(g, U, P, D)
    BY ONLY <1>5, <1>6, <1>7, <1>8, <1>9, <1>10, <1>11,
            Emptying(h, U, P, D, s, r, g) DEF Inv, Emptying
  <1> QED
    BY <1>12, <1>13, <1>14

\* What the end of slots does to a heap: nothing is added to it.
Shrinks(h, g) ==
    /\ h \in Heap /\ g \in Heap
    /\ g.alive \subseteq h.alive /\ g.call \subseteq h.call
    /\ g.listed \subseteq h.listed /\ g.dead = h.dead
    /\ \A q \in Rep : /\ g.functor[q] \in {h.functor[q], "gone", "free"}
                      /\ h.functor[q] = "free" => g.functor[q] = "free"
                      /\ h.functor[q] # "free" /\ g.functor[q] = "free" => g.parent[q] = Null
                      /\ g.parent[q] \in {h.parent[q], Null}
    /\ \A s \in Holder : g.rep[s] \in {h.rep[s], Null}

LEMMA ShrinksOn ==
    ASSUME NEW h, NEW k, NEW g, Shrinks(h, k), Shrinks(k, g)
    PROVE  Shrinks(h, g)
  <1>1. h \in Heap /\ g \in Heap
    BY DEF Shrinks
  <1>2. /\ g.alive \subseteq h.alive /\ g.call \subseteq h.call
        /\ g.listed \subseteq h.listed /\ g.dead = h.dead
    BY DEF Shrinks
  <1>3. ASSUME NEW q \in Rep
        PROVE  /\ g.functor[q] \in {h.functor[q], "gone", "free"}
               /\ h.functor[q] = "free" => g.functor[q] = "free"
               /\ h.functor[q] # "free" /\ g.functor[q] = "free" => g.parent[q] = Null
               /\ g.parent[q] \in {h.parent[q], Null}
    <2>1. /\ k.functor[q] \in {h.functor[q], "gone", "free"}
          /\ h.functor[q] = "free" => k.functor[q] = "free"
          /\ h.functor[q] # "free" /\ k.functor[q] = "free" => k.parent[q] = Null
          /\ k.parent[q] \in {h.parent[q], Null}
      BY DEF Shrinks
    <2>2. /\ g.functor[q] \in {k.functor[q], "gone", "free"}
          /\ k.functor[q] = "free" => g.functor[q] = "free"
          /\ k.functor[q] # "free" /\ g.functor[q] = "free" => g.parent[q] = Null
          /\ g.parent[q] \in {k.parent[q], Null}
      BY DEF Shrinks
    <2> QED
      BY ONLY <2>1, <2>2
  <1>4. ASSUME NEW s \in Holder
        PROVE  g.rep[s] \in {h.rep[s], Null}
    <2>1. k.rep[s] \in {h.rep[s], Null} /\ g.rep[s] \in {k.rep[s], Null}
      BY DEF Shrinks
    <2> QED
      BY ONLY <2>1
  <1> QED
    BY ONLY <1>1, <1>2, <1>3, <1>4 DEF Shrinks

LEMMA EraseShrinks ==
    ASSUME NEW h, NEW U, NEW P, NEW D, NEW r, NEW C, NEW K, NEW g,
           Erasing(h, U, P, D, r, C, K, g)
    PROVE  Shrinks(h, g)
  <1>1. EraseRel(h, U, r, C, K, g)
    BY EraseFacts
  <1>2. h \in Heap /\ g \in Heap /\ Erased(h, C, K, g) /\ Owned(h, U) /\ h.functor[r] # "free"
    BY <1>1 DEF Erasing, Inv, EraseRel
  <1>3. C \in SUBSET Rep /\ K \in SUBSET C
    BY <1>1 DEF EraseRel
  <1>4. ASSUME NEW q \in C
        PROVE  h.functor[q] # "free"
    <2>1. CASE q = r
      BY <2>1, <1>2
    <2>2. CASE q # r
      <3>1. PICK c \in C : h.functor[c] = "inner" /\ h.rep[c] = q
        BY <2>2 DEF Erasing, Chain
      <3>2. c \in Holder /\ q # Null
        BY <1>3, Sorts
      <3> QED
        BY <3>1, <3>2, <1>2 DEF Owned
    <2> QED
      BY <2>1, <2>2
  <1>5. ASSUME NEW q \in Rep
        PROVE  /\ g.functor[q] \in {h.functor[q], "gone", "free"}
               /\ h.functor[q] = "free" => g.functor[q] = "free"
               /\ h.functor[q] # "free" /\ g.functor[q] = "free" => g.parent[q] = Null
               /\ g.parent[q] \in {h.parent[q], Null}
    <2>1. g.functor[q] =
              IF q \in K THEN "free" ELSE IF q \in C THEN "gone" ELSE h.functor[q]
      BY <1>2 DEF Erased
    <2>2. /\ g.parent[q] \in {h.parent[q], Null}
          /\ q \in K => g.parent[q] = Null
      BY <1>2 DEF Erased
    <2> QED
      BY <2>1, <2>2, <1>4
  <1>6. \A s \in Holder : g.rep[s] \in {h.rep[s], Null}
    BY <1>2 DEF Erased
  <1>7. /\ g.alive \subseteq h.alive /\ g.call \subseteq h.call
        /\ g.listed \subseteq h.listed /\ g.dead = h.dead
    BY <1>2 DEF Erased
  <1> QED
    BY <1>2, <1>5, <1>6, <1>7 DEF Shrinks

\* Of the reps that have no slot yet, the functors are complete.
Complete(h, U) == \A q \in U : h.rep[q] # Null => h.functor[q] = "inner"

\* No rep that can be called contains the slot that has r, but for those in P.
Unheld(h, P, r) == \A q \in h.call \ P : ~(h.functor[q] = "inner" /\ h.rep[q] = r)

LEMMA DestroyKeeps ==
    ASSUME NEW h, NEW U, NEW P, NEW D, NEW X, NEW r \in Rep, NEW g,
           Inv(h, U, P, D), Told(h, X), Complete(h, U), Unheld(h, P, r),
           r \notin U, h.functor[r] # "free", g = Destroy(h, r)
    PROVE  /\ Inv(g, U, P, D) /\ Told(g, X) /\ (Conns(h) => Conns(g))
           /\ Shrinks(h, g) /\ r \notin g.call /\ g.functor[r] = "gone"
  <1>1. h \in Heap /\ Acyclic(h) /\ Owned(h, U)
    BY DEF Inv
  <1>2. Occupied(h)
    BY <1>1, OwnedOccupied DEF Complete
  <1>3. PICK C \in SUBSET Rep : Chain(h, r, C) /\ Erased(h, C, C \ {r}, g)
    BY <1>1, <1>2, DestroyErases
  <1>4. PICK K \in SUBSET Rep : K = C \ {r}
    OBVIOUS
  <1>5. Erasing(h, U, P, D, r, C, K, g)
    BY <1>3, <1>4 DEF Erasing, Unheld
  <1>6. Inv(g, U, P, D)
    BY <1>4, <1>5, EraseKeeps DEF Inv
  <1>7. Told(g, X)
    BY <1>4, <1>5, EraseLists
  <1>8. Conns(h) => Conns(g)
    BY <1>1, <1>3, <1>4, EraseConns
  <1>9. Shrinks(h, g)
    BY <1>5, EraseShrinks
  <1>10. r \notin g.call /\ g.functor[r] = "gone"
    BY <1>3, <1>4 DEF Erased, Chain
  <1> QED
    BY <1>6, <1>7, <1>8, <1>9, <1>10

\* The rep of a slot is deleted.
Deleted(h, U, P, D, s, r, g) ==
    /\ g \in Heap /\ ~g.misused /\ Watching(g) /\ Acyclic(g) /\ Refers(g)
    /\ Parents(g) /\ Callable(g, D) /\ Nested(g, P) /\ Told(g, {s})
    /\ OwnedBut(g, U, r) /\ g.rep[s] = r /\ g.functor[r] = "free" /\ g.told[r] = {}
    /\ (Conns(h) => Conns(g)) /\ Shrinks(h, g) /\ r \notin g.call
    /\ g.alive = h.alive /\ g.listed = h.listed
    /\ \A q \in U : g.functor[q] = h.functor[q] /\ g.rep[q] = h.rep[q]
    /\ \A q \in h.call \ g.call : ~Edge(h, q, r)
    /\ \A q \in Rep : Edge(h, q, r) => g.functor[q] = h.functor[q]

LEMMA ErasedDeleted ==
    ASSUME NEW h, NEW U, NEW P, NEW D, NEW s \in Slot, NEW r \in Rep, NEW g,
           Inv(h, U, P, D), Told(h, {s}), h.rep[s] = r,
           NEW C \in SUBSET Rep, Chain(h, r, C), Erased(h, C, C, g)
    PROVE  Deleted(h, U, P, D, s, r, g)
  <1>1. h \in Heap /\ Acyclic(h) /\ Owned(h, U)
    BY DEF Inv
  <1>3. h.functor[r] # "free" /\ r \notin U
    BY <1>1, Sorts DEF Owned
  <1>4. Chain(h, r, C) /\ Erased(h, C, C, g)
    OBVIOUS
  <1>5. Unheld(h, P, r)
    <2>1. ASSUME NEW q \in h.call, h.rep[q] = r
          PROVE  FALSE
      <3>1. q \in Rep /\ q \in Holder /\ s \in Holder
        BY <1>1, HeapFields, Sorts
      <3>2. q = s
        <4>1. \A t, u \in Holder : h.rep[t] # Null /\ h.rep[t] = h.rep[u] => t = u
          BY <1>1 DEF Owned
        <4>2. h.rep[q] # Null
          BY <2>1, Sorts
        <4> QED
          BY ONLY <2>1, <3>1, <4>1, <4>2, h.rep[s] = r
      <3> QED
        BY <3>1, <3>2, Sorts
    <2> QED
      BY <2>1 DEF Unheld
  <1>6. Erasing(h, U, P, D, r, C, C, g)
    BY <1>3, <1>4, <1>5 DEF Erasing, Unheld
  <1>7. EraseRel(h, U, r, C, C, g)
    BY <1>6, EraseFacts
  <1>8. /\ g \in Heap /\ ~g.misused /\ Watching(g) /\ Acyclic(g) /\ Refers(g)
        /\ Parents(g) /\ Callable(g, D) /\ Nested(g, P) /\ OwnedBut(g, U, r)
    BY <1>6, EraseKeeps
  <1>9. Told(g, {s})
    <2>1. \A t \in h.listed \ {s} : h.rep[t] # r
      <3>1. h.listed \subseteq Holder /\ s \in Holder
        BY <1>1, HeapFields, Sorts
      <3> QED
        BY <3>1, <1>1, Sorts DEF Owned
    <2> QED
      BY <2>1, <1>6, EraseLists
  <1>10. Conns(h) => Conns(g)
    BY <1>1, <1>4, EraseConns
  <1>11. Shrinks(h, g)
    BY <1>6, EraseShrinks
  <1>12. r \in C
    BY <1>4 DEF Chain
  <1>13. g.rep[s] = r
    BY <1>7 DEF EraseRel
  <1>14. /\ g.functor[r] = "free" /\ g.told[r] = {} /\ r \notin g.call
         /\ g.alive = h.alive /\ g.listed = h.listed /\ g.call = h.call \ C
    BY <1>4, <1>12 DEF Erased
  <1>15. ASSUME NEW q \in U
         PROVE  g.functor[q] = h.functor[q] /\ g.rep[q] = h.rep[q]
    <2>1. q \in Rep /\ q \notin C
      BY <1>1, <1>7 DEF Owned, EraseRel
    <2> QED
      BY <2>1, <1>7 DEF EraseRel
  <1>16. \A q \in C : ~Edge(h, q, r)
    BY <1>7 DEF EraseRel
  <1>17. \A q \in Rep \ C : g.functor[q] = h.functor[q]
    BY <1>7 DEF EraseRel
  <1>18. \A q \in h.call \ g.call : ~Edge(h, q, r)
    BY <1>14, <1>16
  <1>19. \A q \in Rep : Edge(h, q, r) => g.functor[q] = h.functor[q]
    BY <1>16, <1>17
  <1> QED
    BY ONLY <1>8, <1>9, <1>10, <1>11, <1>13, <1>14, <1>15, <1>18, <1>19 DEF Deleted

LEMMA DeleteKeeps ==
    ASSUME NEW h, NEW U, NEW P, NEW D, NEW s \in Slot, NEW r \in Rep, NEW g,
           Inv(h, U, P, D), Told(h, {s}), Complete(h, U), h.rep[s] = r,
           g = DeleteRep(h, r)
    PROVE  Deleted(h, U, P, D, s, r, g)
  <1>1. h \in Heap /\ Acyclic(h) /\ Owned(h, U)
    BY DEF Inv
  <1>2. Occupied(h)
    BY <1>1, OwnedOccupied DEF Complete
  <1>3. h.functor[r] # "free"
    BY <1>1, Sorts DEF Owned
  <1>4. PICK C \in SUBSET Rep : Chain(h, r, C) /\ Erased(h, C, C, g)
    BY <1>1, <1>2, <1>3, DeleteErases
  <1> QED
    BY <1>4, ErasedDeleted

LEMMA DestroySlotKeeps ==
    ASSUME NEW h, NEW U, NEW P, NEW D, NEW s \in Slot, NEW g,
           Inv(h, U, P, D), Told(h, {s}), Complete(h, U),
           \A q \in Rep : h.functor[q] # s, g = DestroySlot(h, s)
    PROVE  /\ Inv(g, U, P, D) /\ Told(g, {}) /\ (Conns(h) => Conns(g))
           /\ Shrinks(h, g) /\ g.rep[s] = Null
           /\ h.rep[s] # Null => h.rep[s] \notin g.call /\ g.functor[h.rep[s]] = "free"
  <1> USE Sorts
  <1>1. h \in Heap /\ Owned(h, U)
    BY DEF Inv
  <1>2. PICK e : e = IF h.rep[s] = Null THEN h ELSE DeleteRep(h, h.rep[s])
    OBVIOUS
  <1>3. PICK m : m = Emptied(e, s)
    OBVIOUS
  <1>4. g = [m EXCEPT !.alive = @ \ {s}, !.listed = @ \ {s}]
    BY <1>2, <1>3 DEF DestroySlot
  <1>5. ASSUME h.rep[s] # Null
        PROVE  h.rep[s] \in Rep
    BY <1>1, <1>5, HeapFields
  <1>6. /\ e \in Heap /\ ~e.misused /\ Watching(e) /\ Acyclic(e) /\ Refers(e)
        /\ Parents(e) /\ Callable(e, D) /\ Nested(e, P) /\ Told(e, {s})
        /\ (Conns(h) => Conns(e)) /\ Shrinks(h, e)
        /\ e.alive = h.alive /\ e.listed = h.listed
        /\ \/ Owned(e, U) /\ e.rep[s] = Null /\ h.rep[s] = Null
           \/ OwnedBut(e, U, h.rep[s]) /\ e.rep[s] = h.rep[s] /\ e.functor[h.rep[s]] = "free"
              /\ e.told[h.rep[s]] = {} /\ h.rep[s] \notin e.call
    <2>1. CASE h.rep[s] = Null
      <3>1. e = h
        BY <1>2, <2>1
      <3>2. Shrinks(h, h)
        BY <1>1 DEF Shrinks
      <3>3. Owned(e, U) /\ e.rep[s] = Null /\ h.rep[s] = Null
        BY <1>1, <2>1, <3>1
      <3> QED
        BY ONLY <3>1, <3>2, <3>3, <1>1, Inv(h, U, P, D), Told(h, {s}) DEF Inv
    <2>2. CASE h.rep[s] # Null
      <3>1. PICK r \in Rep : r = h.rep[s]
        BY <1>5, <2>2
      <3>2. e = DeleteRep(h, r)
        BY <1>2, <2>2, <3>1
      <3>3. Deleted(h, U, P, D, s, r, e)
        BY ONLY <3>1, <3>2, s \in Slot, r \in Rep, Inv(h, U, P, D), Told(h, {s}),
                Complete(h, U), DeleteKeeps
      <3> QED
        BY ONLY <3>1, <3>3 DEF Deleted
    <2> QED
      BY <2>1, <2>2
  <1>7. /\ m \in Heap
        /\ m.rep = [e.rep EXCEPT ![s] = Null]
        /\ m.alive = e.alive /\ m.call = e.call /\ m.functor = e.functor
        /\ m.parent = e.parent /\ m.watch = e.watch /\ m.told = e.told
        /\ m.conn = e.conn /\ m.dead = e.dead /\ m.listed = e.listed
        /\ m.misused = e.misused
    <2>1. e \in Heap /\ s \in Holder
      BY <1>6
    <2>2. AsEmptied(e, s, m)
      BY ONLY <1>3, <2>1, EmptiedFields
    <2> QED
      BY ONLY <2>2 DEF AsEmptied
  <1>8. m.alive \ {s} \in SUBSET Slot /\ m.listed \ {s} \in SUBSET Slot
    BY <1>7, HeapFields
  <1>9. g \in Heap
    BY ONLY <1>4, <1>7, <1>8 DEF Heap
  <1>10. /\ g.rep = [e.rep EXCEPT ![s] = Null]
         /\ g.alive = e.alive \ {s} /\ g.listed = e.listed \ {s}
         /\ g.call = e.call /\ g.functor = e.functor
         /\ g.parent = e.parent /\ g.watch = e.watch /\ g.told = e.told
         /\ g.conn = e.conn /\ g.dead = e.dead /\ g.misused = e.misused
    BY ONLY <1>4, <1>7 DEF Heap
  <1>11. PICK r : /\ r = h.rep[s]
                  /\ \/ Owned(e, U) /\ e.rep[s] = Null /\ h.rep[s] = Null
                     \/ OwnedBut(e, U, r) /\ e.rep[s] = r /\ e.functor[r] = "free"
                        /\ e.told[r] = {} /\ r \notin e.call
    BY <1>6
  <1>12. \A q \in Rep : e.functor[q] # s
    BY <1>6 DEF Shrinks
  <1>13. g.alive \in {e.alive, e.alive \ {s}} /\ g.listed \in {e.listed, e.listed \ {s}}
    BY <1>10
  <1>14. Inv(g, U, P, D) /\ Told(g, {s}) /\ (Conns(e) => Conns(g))
    <2>1. Emptying(e, U, P, D, s, r, g)
      BY ONLY <1>6, <1>9, <1>10, <1>11, <1>12, <1>13, s \in Slot DEF Emptying
    <2> QED
      BY <2>1, SlotEmptied
  <1>15. Told(g, {})
    BY <1>10, <1>14 DEF Told
  <1>16. Shrinks(e, g)
    <2>1. \A t \in Holder : g.rep[t] \in {e.rep[t], Null}
      BY <1>6, <1>10, HeapFields
    <2>2. \A q \in Rep : e.functor[q] = g.functor[q] /\ e.parent[q] = g.parent[q]
      BY <1>10
    <2> QED
      BY ONLY <2>1, <2>2, <1>6, <1>9, <1>10 DEF Shrinks
  <1>17. Shrinks(h, g)
    BY <1>6, <1>16, ShrinksOn
  <1>18. g.rep[s] = Null
    BY <1>6, <1>10, HeapFields
  <1>19. h.rep[s] # Null => h.rep[s] \notin g.call /\ g.functor[h.rep[s]] = "free"
    BY <1>10, <1>11
  <1> QED
    BY <1>6, <1>14, <1>15, <1>17, <1>18, <1>19

-----------------------------------------------------------------------------
(***************************************************************************)
(* disconnect().                                                           *)
(***************************************************************************)
LEMMA DestroyInHeap ==
    ASSUME NEW h \in Heap
    PROVE  /\ \A r \in Rep : Destroy(h, r) \in Heap /\ DeleteRep(h, r) \in Heap
                             /\ DestroyedIfThere(h, r) \in Heap
           /\ \A s \in Slot : DestroySlot(h, s) \in Heap
  <1>1. ASSUME NEW r \in Rep
        PROVE  Destroy(h, r) \in Heap
    BY DestroyUnfolds, Sorts DEF Destroy
  <1>2. ASSUME NEW r \in Rep
        PROVE  DeleteRep(h, r) \in Heap
    <2>1. PICK d : d = Destroy(h, r)
      OBVIOUS
    <2>2. d \in Heap /\ DeleteRep(h, r) = Freed(d, r)
      BY <1>1, <2>1 DEF DeleteRep
    <2> QED
      BY <2>2, FreedFields DEF AsFreed
  <1>3. ASSUME NEW r \in Rep
        PROVE  DestroyedIfThere(h, r) \in Heap
    BY <1>1 DEF DestroyedIfThere
  <1>4. ASSUME NEW s \in Slot
        PROVE  DestroySlot(h, s) \in Heap
    <2>1. PICK e, m : /\ e = IF h.rep[s] = Null THEN h ELSE DeleteRep(h, h.rep[s])
                      /\ m = Emptied(e, s)
      OBVIOUS
    <2>a. PICK g : g = [m EXCEPT !.alive = @ \ {s}, !.listed = @ \ {s}]
      OBVIOUS
    <2>2. h.rep[s] \in Rep \cup {Null}
      BY HeapFields, Sorts
    <2>3. e \in Heap
      BY <2>1, <2>2, <1>2
    <2>4. m \in Heap
      BY <2>1, <2>3, EmptiedFields, Sorts DEF AsEmptied
    <2>5. m.alive \ {s} \in SUBSET Slot /\ m.listed \ {s} \in SUBSET Slot
      BY <2>4, HeapFields
    <2>6. g \in Heap
      BY ONLY <2>a, <2>4, <2>5 DEF Heap
    <2> QED
      BY <2>1, <2>a, <2>6 DEF DestroySlot
  <1> QED
    BY <1>1, <1>2, <1>3, <1>4

LEMMA InvalidFields ==
    ASSUME NEW h \in Heap, NEW r \in Rep, NEW g, g = Invalid(h, r)
    PROVE  /\ g \in Heap
           /\ g.call = h.call \ {r}
           /\ \A q \in Rep : g.parent[q] = IF q = r THEN Null ELSE h.parent[q]
           /\ g.rep = h.rep /\ g.alive = h.alive /\ g.functor = h.functor
           /\ g.watch = h.watch /\ g.told = h.told /\ g.conn = h.conn /\ g.dead = h.dead
           /\ g.listed = h.listed /\ g.misused = h.misused
  <1>1. g = [h EXCEPT !.call = @ \ {r}, !.parent[r] = Null]
    BY DEF Invalid
  <1>2. /\ h.call \ {r} \in SUBSET Rep
        /\ [h.parent EXCEPT ![r] = Null] \in [Rep -> Holder \cup {Null}]
    BY HeapFields
  <1>3. g \in Heap
    BY ONLY <1>1, <1>2, h \in Heap DEF Heap
  <1>4. /\ g.call = h.call \ {r} /\ g.parent = [h.parent EXCEPT ![r] = Null]
        /\ g.rep = h.rep /\ g.alive = h.alive /\ g.functor = h.functor
        /\ g.watch = h.watch /\ g.told = h.told /\ g.conn = h.conn /\ g.dead = h.dead
        /\ g.listed = h.listed /\ g.misused = h.misused
    BY ONLY <1>1, h \in Heap DEF Heap
  <1>5. \A q \in Rep : g.parent[q] = IF q = r THEN Null ELSE h.parent[q]
    BY <1>4, HeapFields
  <1> QED
    BY <1>3, <1>4, <1>5

\* A list forgets the slot at p before it is notified of it.
Unlisted(h, p) == [h EXCEPT !.listed = @ \ {p}]

LEMMA UnlistedFields ==
    ASSUME NEW h \in Heap, NEW p, NEW g, g = Unlisted(h, p)
    PROVE  /\ g \in Heap
           /\ g.listed = h.listed \ {p}
           /\ g.call = h.call /\ g.parent = h.parent
           /\ g.rep = h.rep /\ g.alive = h.alive /\ g.functor = h.functor
           /\ g.watch = h.watch /\ g.told = h.told /\ g.conn = h.conn /\ g.dead = h.dead
           /\ g.misused = h.misused
  <1>1. g = [h EXCEPT !.listed = @ \ {p}]
    BY DEF Unlisted
  <1>2. h.listed \ {p} \in SUBSET Slot
    BY HeapFields
  <1>3. g \in Heap
    BY ONLY <1>1, <1>2, h \in Heap DEF Heap
  <1> QED
    BY ONLY <1>1, <1>3, h \in Heap DEF Heap

LEMMA DisconnectTyped ==
    ASSUME NEW D \in [Heap -> [Rep -> Heap]], NEW h \in Heap, NEW r \in Rep
    PROVE  DisconnectUsing(D, h, r) \in Heap
  <1>1. PICK p, i : p = h.parent[r] /\ i = Invalid(h, r)
    OBVIOUS
  <1>2. i \in Heap /\ p \in Rep \cup Slot \cup {Null}
    <2>1. i \in Heap
      BY <1>1, InvalidFields
    <2>2. h.parent[r] \in Holder \cup {Null}
      BY HeapFields
    <2> QED
      BY <1>1, <2>1, <2>2, Sorts
  <1>3. CASE p = Null
    BY <1>1, <1>2, <1>3 DEF DisconnectUsing
  <1>4. CASE p \in Rep
    <2>1. PICK k : k = D[i][p]
      OBVIOUS
    <2>2. k \in Heap
      BY <1>2, <1>4, <2>1
    <2>3. DisconnectUsing(D, h, r) = DestroyedIfThere(k, p)
      BY <1>1, <1>4, <2>1, Sorts DEF DisconnectUsing
    <2> QED
      BY <1>4, <2>2, <2>3, DestroyInHeap
  <1>5. CASE p \in Slot /\ h.defers
    <2>1. DisconnectUsing(D, h, r) = Unlisted(i, p)
      BY <1>1, <1>5, Sorts DEF DisconnectUsing, Unlisted
    <2> QED
      BY <2>1, <1>2, UnlistedFields
  <1>6. CASE p \in Slot /\ ~h.defers
    <2>1. DisconnectUsing(D, h, r) = DestroySlot(i, p)
      BY <1>1, <1>6, Sorts DEF DisconnectUsing
    <2> QED
      BY <1>6, <2>1, <1>2, DestroyInHeap
  <1> QED
    BY <1>2, <1>3, <1>4, <1>5, <1>6

LEMMA DisconnectUnfolds ==
    /\ \A n \in Nat : DisconnectWithin[n] \in [Heap -> [Rep -> Heap]]
    /\ \A n \in Nat, h \in Heap, r \in Rep :
          DisconnectWithin[n + 1][h][r] = DisconnectUsing(DisconnectWithin[n], h, r)
  <1> DEFINE S == [Heap -> [Rep -> Heap]]
             s0 == [h \in Heap |-> [r \in Rep |-> Misuse(h)]]
             F == [D \in S |-> [h \in Heap |-> [r \in Rep |-> DisconnectUsing(D, h, r)]]]
  <1>1. s0 \in S
    BY MisuseFields
  <1>2. F \in [S -> S]
    BY DisconnectTyped
  <1>3. \E g \in [Nat -> S] : g[0] = s0 /\ \A n \in Nat : g[n + 1] = F[g[n]]
    <2> HIDE DEF S, s0, F
    <2> QED
      BY <1>1, <1>2, Recursion
  <1>4. PICK g \in [Nat -> S] : g[0] = s0 /\ \A n \in Nat : g[n + 1] = F[g[n]]
    BY <1>3
  <1>5. g = [n \in Nat |-> [h \in Heap |-> [r \in Rep |->
              IF n = 0 THEN Misuse(h) ELSE DisconnectUsing(g[n - 1], h, r)]]]
    <2>1. ASSUME NEW n \in Nat
          PROVE  g[n] = [h \in Heap |-> [r \in Rep |->
                    IF n = 0 THEN Misuse(h) ELSE DisconnectUsing(g[n - 1], h, r)]]
      <3>1. CASE n = 0
        BY <1>4, <3>1
      <3>2. CASE n # 0
        <4>1. n - 1 \in Nat /\ (n - 1) + 1 = n
          BY <3>2
        <4>2. g[n] = F[g[n - 1]]
          BY <1>4, <4>1
        <4>3. g[n - 1] \in S
          BY <1>4, <4>1
        <4> QED
          BY <3>2, <4>2, <4>3
      <3> QED
        BY <3>1, <3>2
    <2> QED
      BY <2>1
  <1>6. DisconnectWithin = [n \in Nat |-> [h \in Heap |-> [r \in Rep |->
              IF n = 0 THEN Misuse(h) ELSE DisconnectUsing(DisconnectWithin[n - 1], h, r)]]]
    <2> HIDE DEF S, s0, F
    <2> QED
      BY <1>5 DEF DisconnectWithin
  <1> HIDE DEF s0, F
  <1>7. \A n \in Nat : DisconnectWithin[n] = [h \in Heap |-> [r \in Rep |->
              IF n = 0 THEN Misuse(h) ELSE DisconnectUsing(DisconnectWithin[n - 1], h, r)]]
    BY <1>6
  <1>8. ASSUME NEW n \in Nat
        PROVE  DisconnectWithin[n + 1] = [h \in Heap |-> [r \in Rep |->
                   DisconnectUsing(DisconnectWithin[n], h, r)]]
    <2>1. n + 1 \in Nat /\ n + 1 # 0 /\ (n + 1) - 1 = n
      OBVIOUS
    <2> QED
      BY <2>1, <1>7
  <1> DEFINE P == {n \in Nat : DisconnectWithin[n] \in S}
  <1>9. 0 \in P
    <2>1. DisconnectWithin[0] = [h \in Heap |-> [r \in Rep |->
              IF 0 = 0 THEN Misuse(h) ELSE DisconnectUsing(DisconnectWithin[0 - 1], h, r)]]
      BY <1>7
    <2>2. DisconnectWithin[0] = [h \in Heap |-> [r \in Rep |-> Misuse(h)]]
      BY <2>1
    <2> QED
      BY <2>2, MisuseFields
  <1>10. ASSUME NEW n \in P
         PROVE  n + 1 \in P
    <2>1. PICK D \in S : D = DisconnectWithin[n]
      OBVIOUS
    <2>2. DisconnectWithin[n + 1] = [h \in Heap |-> [r \in Rep |-> DisconnectUsing(D, h, r)]]
      BY <1>8, <2>1
    <2>3. \A h \in Heap, r \in Rep : DisconnectUsing(D, h, r) \in Heap
      BY DisconnectTyped
    <2>4. DisconnectWithin[n + 1] \in S
      BY ONLY <2>2, <2>3
    <2> QED
      BY <2>4
  <1>11. P \in SUBSET Nat
    OBVIOUS
  <1> HIDE DEF P
  <1>12. \A n \in Nat : n \in P
    BY <1>9, <1>10, <1>11, AllNumbers
  <1>13. \A n \in Nat : DisconnectWithin[n] \in S
    BY <1>12 DEF P
  <1>14. ASSUME NEW n \in Nat, NEW h \in Heap, NEW r \in Rep
         PROVE  DisconnectWithin[n + 1][h][r] = DisconnectUsing(DisconnectWithin[n], h, r)
    <2>1. PICK D, E : D = DisconnectWithin[n] /\ E = DisconnectWithin[n + 1]
      OBVIOUS
    <2>2. E = [e \in Heap |-> [q \in Rep |-> DisconnectUsing(D, e, q)]]
      BY <1>8, <2>1
    <2>3. E[h][r] = DisconnectUsing(D, h, r)
      BY ONLY <2>2, h \in Heap, r \in Rep
    <2> QED
      BY <2>1, <2>3
  <1> QED
    BY <1>13, <1>14

\* disconnect() of r is called in h; of all reps only r may contain a slot that
\* has been disconnected already.
Connected(h, P, D, r) ==
    /\ Inv(h, {}, P, D) /\ Told(h, {}) /\ P \subseteq {r}
    /\ r \in Rep /\ h.functor[r] # "free"

\* What disconnect() of r makes of h.
Disconnected(h, D, r, g) ==
    /\ Inv(g, {}, {}, D) /\ Told(g, {}) /\ (Conns(h) => Conns(g)) /\ Shrinks(h, g)
    /\ r \notin g.call /\ g.parent[r] = Null

\* The reps that are nested in others, or are in a list.
Nestlings(h) == {q \in Rep : h.parent[q] # Null}

\* Of the reps that can be called, only the parent may still contain the slot
\* that disconnect() of r has made invalid.
InvalidRel(h, D, r, p, i) ==
    /\ p \in Rep \cup Slot \cup {Null}
    /\ Inv(i, {}, {p} \cap Rep, D) /\ Told(i, {p}) /\ (p \notin Slot => Told(i, {}))
    /\ (Conns(h) => Conns(i)) /\ Shrinks(h, i)
    /\ r \notin i.call /\ i.parent[r] = Null
    /\ p \in Rep => i.functor[p] # "free" /\ Nestlings(i) = Nestlings(h) \ {r} /\ r \in Nestlings(h)
    /\ p \in Slot => p \in i.listed /\ \A q \in Rep : i.parent[q] # p
    /\ \A q \in Rep : i.functor[q] # p \/ p \notin Slot

LEMMA InvalidKeeps ==
    ASSUME NEW h, NEW P, NEW D, NEW r, Connected(h, P, D, r),
           NEW p, p = h.parent[r], NEW i, i = Invalid(h, r)
    PROVE  InvalidRel(h, D, r, p, i)
  <1> USE Sorts
  <1>1. /\ h \in Heap /\ ~h.misused /\ Watching(h) /\ Owned(h, {}) /\ Acyclic(h)
        /\ Refers(h) /\ Parents(h) /\ Callable(h, D) /\ Nested(h, P) /\ Told(h, {})
        /\ P \subseteq {r} /\ r \in Rep /\ h.functor[r] # "free"
    BY DEF Connected, Inv
  <1>2. /\ i \in Heap
        /\ i.call = h.call \ {r}
        /\ \A q \in Rep : i.parent[q] = IF q = r THEN Null ELSE h.parent[q]
        /\ i.rep = h.rep /\ i.alive = h.alive /\ i.functor = h.functor
        /\ i.watch = h.watch /\ i.told = h.told /\ i.conn = h.conn /\ i.dead = h.dead
        /\ i.listed = h.listed /\ i.misused = h.misused
    BY <1>1, InvalidFields
  <1>3. p \in Rep \cup Slot \cup {Null}
    <2>1. h.parent[r] \in Holder \cup {Null}
      BY <1>1, HeapFields
    <2> QED
      BY <2>1
  <1>4. \A s, t \in Holder : h.rep[s] # Null /\ h.rep[s] = h.rep[t] => s = t
    BY <1>1 DEF Owned
  <1>5. p \in Rep => Edge(h, p, r)
    BY <1>1 DEF Parents
  <1>6. p \in Slot => h.rep[p] = r /\ p \in h.listed
    BY <1>1 DEF Parents
  <1>7. \A q, t : Edge(i, q, t) <=> Edge(h, q, t)
    BY <1>2 DEF Edge
  <1>8. Watching(i)
    BY <1>1, <1>2 DEF Watching
  <1>9. Owned(i, {})
    BY ONLY <1>1, <1>2 DEF Owned
  <1>10. Acyclic(i)
    BY ONLY <1>1, <1>7 DEF Acyclic
  <1>11. Refers(i)
    BY <1>1, <1>2 DEF Refers
  <1>12. Parents(i)
    BY <1>1, <1>2, <1>7 DEF Parents
  <1>13. Callable(i, D)
    BY <1>1, <1>2 DEF Callable
  <1>14. Nested(i, {p} \cap Rep)
    <2>1. SUFFICES ASSUME NEW q \in i.call \ ({p} \cap Rep), i.functor[q] = "inner", i.rep[q] # Null
                   PROVE  i.rep[q] \in i.call /\ i.parent[i.rep[q]] = q
      BY DEF Nested
    <2>2. q \in Rep /\ q # p /\ q # r /\ q \in h.call
      BY <1>2, HeapFields
    <2>3. h.rep[q] \in h.call /\ h.parent[h.rep[q]] = q
      BY <1>1, <1>2, <2>1, <2>2 DEF Nested
    <2>4. h.rep[q] # r
      BY <2>2, <2>3
    <2>5. h.rep[q] \in Rep
      BY <2>3, <1>1, HeapFields
    <2> QED
      BY <2>3, <2>4, <2>5, <1>2
  <1>15. Inv(i, {}, {p} \cap Rep, D)
    BY <1>1, <1>2, <1>8, <1>9, <1>10, <1>11, <1>12, <1>13, <1>14 DEF Inv
  <1>16. ASSUME NEW s \in i.listed, s # p
         PROVE  i.rep[s] # Null /\ i.parent[i.rep[s]] = s
    <2>1. h.rep[s] # Null /\ h.parent[h.rep[s]] = s /\ s \in Slot
      BY <1>1, <1>2, HeapFields DEF Told
    <2>2. h.rep[s] # r
      BY <2>1, <1>16
    <2>3. h.rep[s] \in Rep
      BY <2>1, <1>1, HeapFields
    <2> QED
      BY <2>1, <2>2, <2>3, <1>2
  <1>17. Told(i, {p})
    BY <1>16 DEF Told
  <1>18. p \notin Slot => Told(i, {})
    <2>1. i.listed \subseteq Slot
      BY <1>2, HeapFields
    <2> QED
      BY <2>1, <1>16 DEF Told
  <1>19. Conns(h) => Conns(i)
    BY <1>2 DEF Conns
  <1>20. Shrinks(h, i)
    <2>1. \A q \in Rep : i.parent[q] \in {h.parent[q], Null}
      BY <1>2
    <2> QED
      BY <2>1, <1>1, <1>2 DEF Shrinks
  <1>21. r \notin i.call /\ i.parent[r] = Null
    BY <1>1, <1>2
  <1>22. ASSUME p \in Rep
         PROVE  i.functor[p] # "free" /\ Nestlings(i) = Nestlings(h) \ {r} /\ r \in Nestlings(h)
    <2>1. i.functor[p] # "free"
      BY <1>2, <1>5, <1>22 DEF Edge
    <2>2. Nestlings(i) = Nestlings(h) \ {r}
      BY <1>2 DEF Nestlings
    <2>3. r \in Nestlings(h)
      BY <1>1, <1>22 DEF Nestlings
    <2> QED
      BY <2>1, <2>2, <2>3
  <1>23. ASSUME p \in Slot
         PROVE  /\ p \in i.listed
                /\ \A q \in Rep : i.parent[q] # p
                /\ \A q \in Rep : i.functor[q] # p
    <2>1. p \in i.listed
      BY <1>2, <1>6, <1>23
    <2>2. ASSUME NEW q \in Rep, i.parent[q] = p
          PROVE  FALSE
      <3>1. q # r /\ h.parent[q] = p
        BY <1>2, <1>23, <2>2
      <3>2. h.rep[p] = q
        BY <1>1, <1>23, <3>1 DEF Parents
      <3> QED
        BY <1>6, <1>23, <3>1, <3>2
    <2>3. \A q \in Rep : i.functor[q] # p
      BY <1>1, <1>2, <1>6, <1>23 DEF Refers
    <2> QED
      BY <2>1, <2>2, <2>3
  <1> QED
    BY ONLY <1>3, <1>15, <1>17, <1>18, <1>19, <1>20, <1>21, <1>22, <1>23 DEF InvalidRel

\* The rep of an outer slot is told of one that its functor contains.
LEMMA DestroyedKeeps ==
    ASSUME NEW k, NEW D, NEW p \in Rep, Inv(k, {}, {}, D), Told(k, {}), p \notin k.call,
           NEW g, g = DestroyedIfThere(k, p)
    PROVE  /\ Inv(g, {}, {}, D) /\ Told(g, {}) /\ (Conns(k) => Conns(g)) /\ Shrinks(k, g)
           /\ p \notin g.call /\ g.functor[p] \in {"gone", "free"}
  <1>1. CASE k.functor[p] = "free"
    <2>1. g = k
      BY <1>1 DEF DestroyedIfThere
    <2>2. Shrinks(k, k)
      BY DEF Shrinks, Inv
    <2> QED
      BY <1>1, <2>1, <2>2
  <1>2. CASE k.functor[p] # "free"
    <2>1. g = Destroy(k, p)
      BY <1>2 DEF DestroyedIfThere
    <2>2. Unheld(k, {}, p)
      <3>1. ASSUME NEW q \in k.call, k.functor[q] = "inner", k.rep[q] = p
            PROVE  FALSE
        BY <3>1, Sorts DEF Inv, Nested
      <3> QED
        BY <3>1 DEF Unheld
    <2>3. Complete(k, {})
      BY DEF Complete
    <2>4. /\ Inv(g, {}, {}, D) /\ Told(g, {}) /\ (Conns(k) => Conns(g))
          /\ Shrinks(k, g) /\ p \notin g.call /\ g.functor[p] = "gone"
      BY <1>2, <2>1, <2>2, <2>3, DestroyKeeps
    <2> QED
      BY <2>4
  <1> QED
    BY <1>1, <1>2

LEMMA UnlistedKeeps ==
    ASSUME NEW i, NEW D, NEW p \in Slot, Inv(i, {}, {}, D), Told(i, {p}),
           \A q \in Rep : i.parent[q] # p, NEW g, g = Unlisted(i, p)
    PROVE  /\ Inv(g, {}, {}, D) /\ Told(g, {}) /\ (Conns(i) => Conns(g)) /\ Shrinks(i, g)
           /\ g.call = i.call /\ g.parent = i.parent
  <1>1. /\ i \in Heap /\ ~i.misused /\ Watching(i) /\ Owned(i, {}) /\ Acyclic(i)
        /\ Refers(i) /\ Parents(i) /\ Callable(i, D) /\ Nested(i, {})
    BY DEF Inv
  <1>2. /\ g \in Heap
        /\ g.listed = i.listed \ {p}
        /\ g.call = i.call /\ g.parent = i.parent
        /\ g.rep = i.rep /\ g.alive = i.alive /\ g.functor = i.functor
        /\ g.watch = i.watch /\ g.told = i.told /\ g.conn = i.conn /\ g.dead = i.dead
        /\ g.misused = i.misused
    BY <1>1, UnlistedFields
  <1>3. \A q, t : Edge(g, q, t) <=> Edge(i, q, t)
    BY <1>2 DEF Edge
  <1>4. Acyclic(g)
    BY ONLY <1>1, <1>3 DEF Acyclic
  <1>5. Parents(g)
    BY <1>1, <1>2, <1>3 DEF Parents
  <1>6. /\ Watching(g) /\ Owned(g, {}) /\ Refers(g) /\ Callable(g, D) /\ Nested(g, {})
    BY <1>1, <1>2 DEF Watching, Owned, Refers, Callable, Nested
  <1>7. Told(g, {})
    BY <1>2 DEF Told
  <1>8. Conns(i) => Conns(g)
    BY <1>2 DEF Conns
  <1>9. Shrinks(i, g)
    BY <1>1, <1>2 DEF Shrinks
  <1> QED
    BY <1>1, <1>2, <1>4, <1>5, <1>6, <1>7, <1>8, <1>9 DEF Inv

\* W does what disconnect() should where fewer reps have parents than in h.
DisconnectsBelow(W, h, D) ==
    \A k \in Heap, q \in Rep :
        Connected(k, {q}, D, q) /\ Cardinality(Nestlings(k)) < Cardinality(Nestlings(h))
            => Disconnected(k, D, q, W[k][q])

\* One call of disconnect(), if those that it makes do what they should.
LEMMA DisconnectStep ==
    ASSUME NEW h, NEW P, NEW D, NEW r, Connected(h, P, D, r),
           NEW W, NEW g, g = DisconnectUsing(W, h, r), DisconnectsBelow(W, h, D)
    PROVE  Disconnected(h, D, r, g)
  <1> USE Sorts
  <1>1. PICK p, i : p = h.parent[r] /\ i = Invalid(h, r)
    OBVIOUS
  <1>2. InvalidRel(h, D, r, p, i)
    BY <1>1, InvalidKeeps
  <1>3. h \in Heap /\ r \in Rep /\ i \in Heap
    BY <1>2 DEF Connected, Inv, InvalidRel
  <1>4. /\ p \in Rep \cup Slot \cup {Null}
        /\ Inv(i, {}, {p} \cap Rep, D) /\ Told(i, {p}) /\ (p \notin Slot => Told(i, {}))
        /\ (Conns(h) => Conns(i)) /\ Shrinks(h, i)
        /\ r \notin i.call /\ i.parent[r] = Null
    BY <1>2 DEF InvalidRel
  <1>5. ASSUME NEW f, Inv(f, {}, {}, D), Told(f, {}), Conns(i) => Conns(f), Shrinks(i, f)
        PROVE  Disconnected(h, D, r, f)
    <2>1. Shrinks(h, f)
      BY <1>4, <1>5, ShrinksOn
    <2>2. r \notin f.call
      BY <1>4, <1>5 DEF Shrinks
    <2>3. f.parent[r] = Null
      BY <1>3, <1>4, <1>5 DEF Shrinks
    <2> QED
      BY <2>1, <2>2, <2>3, <1>4, <1>5 DEF Disconnected
  <1>6. CASE p = Null
    <2>1. g = i
      BY <1>1, <1>6 DEF DisconnectUsing
    <2>2. {p} \cap Rep = {} /\ p \notin Slot
      BY <1>6
    <2>3. Shrinks(i, i)
      BY <1>3 DEF Shrinks
    <2> QED
      BY <2>1, <2>2, <2>3, <1>4, <1>5
  <1>7. CASE p \in Rep
    <2>1. {p} \cap Rep = {p} /\ p \notin Slot
      BY <1>7
    <2>2. i.functor[p] # "free" /\ Nestlings(i) = Nestlings(h) \ {r} /\ r \in Nestlings(h)
      BY <1>2, <1>7 DEF InvalidRel
    <2>3. Connected(i, {p}, D, p)
      BY <1>4, <1>7, <2>1, <2>2 DEF Connected
    <2>4. Cardinality(Nestlings(i)) < Cardinality(Nestlings(h))
      <3>1. Nestlings(h) \in SUBSET Rep
        BY DEF Nestlings
      <3> QED
        BY <2>2, <3>1, RepsFinite
    <2>5. PICK k : k = W[i][p]
      OBVIOUS
    <2>6. Disconnected(i, D, p, k)
      BY <1>3, <1>7, <2>3, <2>4, <2>5 DEF DisconnectsBelow
    <2>7. g = DestroyedIfThere(k, p)
      BY <1>1, <1>7, <2>5 DEF DisconnectUsing
    <2>8. /\ Inv(k, {}, {}, D) /\ Told(k, {}) /\ (Conns(i) => Conns(k)) /\ Shrinks(i, k)
          /\ p \notin k.call
      BY <2>6 DEF Disconnected
    <2>9. /\ Inv(g, {}, {}, D) /\ Told(g, {}) /\ (Conns(k) => Conns(g)) /\ Shrinks(k, g)
      BY <1>7, <2>7, <2>8, DestroyedKeeps
    <2>10. Shrinks(i, g)
      BY <2>8, <2>9, ShrinksOn
    <2> QED
      BY <2>8, <2>9, <2>10, <1>5
  <1>8. CASE p \in Slot
    <2>1. {p} \cap Rep = {}
      BY <1>8
    <2>2. Inv(i, {}, {}, D) /\ Told(i, {p})
      BY <1>4, <2>1
    <2>3. /\ \A q \in Rep : i.parent[q] # p
          /\ \A q \in Rep : i.functor[q] # p
      BY <1>2, <1>8 DEF InvalidRel
    <2>4. CASE h.defers
      <3>1. g = Unlisted(i, p)
        BY <1>1, <1>8, <2>4 DEF DisconnectUsing, Unlisted
      <3>2. Inv(g, {}, {}, D) /\ Told(g, {}) /\ (Conns(i) => Conns(g)) /\ Shrinks(i, g)
        BY ONLY <3>1, <2>2, <2>3, <1>8, UnlistedKeeps
      <3> QED
        BY <3>2, <1>5
    <2>5. CASE ~h.defers
      <3>1. g = DestroySlot(i, p)
        BY <1>1, <1>8, <2>5 DEF DisconnectUsing
      <3>2. Complete(i, {})
        BY DEF Complete
      <3>3. Inv(g, {}, {}, D) /\ Told(g, {}) /\ (Conns(i) => Conns(g)) /\ Shrinks(i, g)
        BY ONLY <3>1, <3>2, <2>2, <2>3, <1>8, DestroySlotKeeps
      <3> QED
        BY <3>3, <1>5
    <2> QED
      BY <2>4, <2>5
  <1> QED
    BY <1>4, <1>6, <1>7, <1>8

\* disconnect() invalidates r and all that contain it: MaxCalls are enough.
LEMMA DisconnectKeeps ==
    ASSUME NEW h, NEW P, NEW D, NEW r, Connected(h, P, D, r), NEW g, g = Disconnect(h, r)
    PROVE  Disconnected(h, D, r, g)
  <1> DEFINE Works(n, k, q, Q) ==
                 Connected(k, Q, D, q) /\ Cardinality(Nestlings(k)) < n
                     => Disconnected(k, D, q, DisconnectWithin[n][k][q])
             N == {n \in Nat : \A k \in Heap, q \in Rep, Q \in SUBSET Rep : Works(n, k, q, Q)}
  <1>0. \A k : /\ Nestlings(k) \in SUBSET Rep
               /\ Cardinality(Nestlings(k)) \in Nat /\ Cardinality(Nestlings(k)) < MaxCalls
    BY RepsFinite DEF Nestlings
  <1>1. 0 \in N
    <2>1. \A k : ~(Cardinality(Nestlings(k)) < 0)
      BY <1>0
    <2> QED
      BY <2>1
  <1>2. ASSUME NEW n \in N
        PROVE  n + 1 \in N
    <2> HIDE DEF N, Works
    <2>1. n \in Nat /\ \A k \in Heap, q \in Rep, Q \in SUBSET Rep : Works(n, k, q, Q)
      BY ONLY <1>2, n \in N DEF N
    <2>2. SUFFICES \A k \in Heap, q \in Rep, Q \in SUBSET Rep : Works(n + 1, k, q, Q)
      BY ONLY <2>1, <2>2 DEF N
    <2>3. SUFFICES ASSUME NEW k \in Heap, NEW q \in Rep, NEW Q \in SUBSET Rep,
                          Connected(k, Q, D, q), Cardinality(Nestlings(k)) < n + 1
                   PROVE  Disconnected(k, D, q, DisconnectWithin[n + 1][k][q])
      BY ONLY <2>3 DEF Works
    <2>4. PICK W, f : W = DisconnectWithin[n] /\ f = DisconnectWithin[n + 1][k][q]
      OBVIOUS
    <2>5. f = DisconnectUsing(W, k, q)
      BY <2>1, <2>4, DisconnectUnfolds
    <2>6. ASSUME NEW m \in Heap, NEW t \in Rep, Connected(m, {t}, D, t),
                 Cardinality(Nestlings(m)) < Cardinality(Nestlings(k))
          PROVE  Disconnected(m, D, t, W[m][t])
      <3>1. Cardinality(Nestlings(m)) < n
        BY ONLY <1>0, <2>1, <2>3, <2>6
      <3>2. Works(n, m, t, {t})
        BY <2>1
      <3> QED
        BY ONLY <3>1, <3>2, <2>4, <2>6 DEF Works
    <2>7. DisconnectsBelow(W, k, D)
      BY <2>6 DEF DisconnectsBelow
    <2>8. Disconnected(k, D, q, f)
      BY ONLY <2>3, <2>5, <2>7, DisconnectStep
    <2> QED
      BY <2>4, <2>8
  <1>3. N \in SUBSET Nat
    OBVIOUS
  <1> HIDE DEF N
  <1>4. \A n \in Nat : n \in N
    BY <1>1, <1>2, <1>3, AllNumbers
  <1>5. MaxCalls \in N
    BY <1>4, Sorts
  <1>6. h \in Heap /\ r \in Rep /\ P \in SUBSET Rep
    BY DEF Connected, Inv
  <1>7. Works(MaxCalls, h, r, P)
    BY ONLY <1>5, <1>6 DEF N
  <1> QED
    BY <1>0, <1>7 DEF Disconnect

-----------------------------------------------------------------------------
(***************************************************************************)
(* The end of an object.                                                   *)
(***************************************************************************)
LEMMA InvalidatedTyped ==
    ASSUME NEW h \in Heap, NEW r \in Rep
    PROVE  Disconnect(h, r) \in Heap /\ Invalidated(h, r) \in Heap
  <1>1. Disconnect(h, r) \in Heap
    BY DisconnectUnfolds, Sorts DEF Disconnect
  <1> QED
    BY <1>1, DestroyInHeap DEF Invalidated

LEMMA FirstCallback ==
    ASSUME NEW h \in Heap, NEW o \in Object, h.watch[o] # <<>>
    PROVE  Head(h.watch[o]) \in Rep /\ Head(h.watch[o]) \in ToSet(h.watch[o])
  <1>1. PICK w : w = h.watch[o]
    OBVIOUS
  <1>2. w \in Seq(Rep) /\ w # <<>>
    BY <1>1, HeapFields
  <1>3. 1 \in DOMAIN w /\ Head(w) = w[1] /\ Head(w) \in Rep
    BY ONLY <1>2
  <1> QED
    BY ONLY <1>1, <1>3 DEF ToSet

LEMMA NotifyTyped ==
    ASSUME NEW D \in [Heap -> [Object -> Heap]], NEW h \in Heap, NEW r \in Object
    PROVE  NotifyUsing(D, h, r) \in Heap
  <1>1. CASE h.watch[r] = <<>>
    BY <1>1 DEF NotifyUsing
  <1>2. CASE h.watch[r] # <<>>
    <2>1. PICK q : q = Head(h.watch[r])
      OBVIOUS
    <2>2. q \in Rep
      BY <1>2, <2>1, FirstCallback
    <2>3. PICK k : k = Invalidated(h, q)
      OBVIOUS
    <2>4. k \in Heap
      BY <2>2, <2>3, InvalidatedTyped
    <2>5. NotifyUsing(D, h, r) = D[k][r]
      BY <1>2, <2>1, <2>3 DEF NotifyUsing
    <2> QED
      BY <2>4, <2>5
  <1> QED
    BY <1>1, <1>2

LEMMA NotifyUnfolds ==
    /\ \A n \in Nat : NotifyWithin[n] \in [Heap -> [Object -> Heap]]
    /\ \A n \in Nat, h \in Heap, r \in Object :
          NotifyWithin[n + 1][h][r] = NotifyUsing(NotifyWithin[n], h, r)
  <1> DEFINE S == [Heap -> [Object -> Heap]]
             s0 == [h \in Heap |-> [r \in Object |-> Misuse(h)]]
             F == [D \in S |-> [h \in Heap |-> [r \in Object |-> NotifyUsing(D, h, r)]]]
  <1>1. s0 \in S
    BY MisuseFields
  <1>2. F \in [S -> S]
    BY NotifyTyped
  <1>3. \E g \in [Nat -> S] : g[0] = s0 /\ \A n \in Nat : g[n + 1] = F[g[n]]
    <2> HIDE DEF S, s0, F
    <2> QED
      BY <1>1, <1>2, Recursion
  <1>4. PICK g \in [Nat -> S] : g[0] = s0 /\ \A n \in Nat : g[n + 1] = F[g[n]]
    BY <1>3
  <1>5. g = [n \in Nat |-> [h \in Heap |-> [r \in Object |->
              IF n = 0 THEN Misuse(h) ELSE NotifyUsing(g[n - 1], h, r)]]]
    <2>1. ASSUME NEW n \in Nat
          PROVE  g[n] = [h \in Heap |-> [r \in Object |->
                    IF n = 0 THEN Misuse(h) ELSE NotifyUsing(g[n - 1], h, r)]]
      <3>1. CASE n = 0
        BY <1>4, <3>1
      <3>2. CASE n # 0
        <4>1. n - 1 \in Nat /\ (n - 1) + 1 = n
          BY <3>2
        <4>2. g[n] = F[g[n - 1]]
          BY <1>4, <4>1
        <4>3. g[n - 1] \in S
          BY <1>4, <4>1
        <4> QED
          BY <3>2, <4>2, <4>3
      <3> QED
        BY <3>1, <3>2
    <2> QED
      BY <2>1
  <1>6. NotifyWithin = [n \in Nat |-> [h \in Heap |-> [r \in Object |->
              IF n = 0 THEN Misuse(h) ELSE NotifyUsing(NotifyWithin[n - 1], h, r)]]]
    <2> HIDE DEF S, s0, F
    <2> QED
      BY <1>5 DEF NotifyWithin
  <1> HIDE DEF s0, F
  <1>7. \A n \in Nat : NotifyWithin[n] = [h \in Heap |-> [r \in Object |->
              IF n = 0 THEN Misuse(h) ELSE NotifyUsing(NotifyWithin[n - 1], h, r)]]
    BY <1>6
  <1>8. ASSUME NEW n \in Nat
        PROVE  NotifyWithin[n + 1] = [h \in Heap |-> [r \in Object |->
                   NotifyUsing(NotifyWithin[n], h, r)]]
    <2>1. n + 1 \in Nat /\ n + 1 # 0 /\ (n + 1) - 1 = n
      OBVIOUS
    <2> QED
      BY <2>1, <1>7
  <1> DEFINE P == {n \in Nat : NotifyWithin[n] \in S}
  <1>9. 0 \in P
    <2>1. NotifyWithin[0] = [h \in Heap |-> [r \in Object |->
              IF 0 = 0 THEN Misuse(h) ELSE NotifyUsing(NotifyWithin[0 - 1], h, r)]]
      BY <1>7
    <2>2. NotifyWithin[0] = [h \in Heap |-> [r \in Object |-> Misuse(h)]]
      BY <2>1
    <2> QED
      BY <2>2, MisuseFields
  <1>10. ASSUME NEW n \in P
         PROVE  n + 1 \in P
    <2>1. PICK D \in S : D = NotifyWithin[n]
      OBVIOUS
    <2>2. NotifyWithin[n + 1] = [h \in Heap |-> [r \in Object |-> NotifyUsing(D, h, r)]]
      BY <1>8, <2>1
    <2>3. \A h \in Heap, r \in Object : NotifyUsing(D, h, r) \in Heap
      BY NotifyTyped
    <2>4. NotifyWithin[n + 1] \in S
      BY ONLY <2>2, <2>3
    <2> QED
      BY <2>4
  <1>11. P \in SUBSET Nat
    OBVIOUS
  <1> HIDE DEF P
  <1>12. \A n \in Nat : n \in P
    BY <1>9, <1>10, <1>11, AllNumbers
  <1>13. \A n \in Nat : NotifyWithin[n] \in S
    BY <1>12 DEF P
  <1>14. ASSUME NEW n \in Nat, NEW h \in Heap, NEW r \in Object
         PROVE  NotifyWithin[n + 1][h][r] = NotifyUsing(NotifyWithin[n], h, r)
    <2>1. PICK D, E : D = NotifyWithin[n] /\ E = NotifyWithin[n + 1]
      OBVIOUS
    <2>2. E = [e \in Heap |-> [q \in Object |-> NotifyUsing(D, e, q)]]
      BY <1>8, <2>1
    <2>3. E[h][r] = NotifyUsing(D, h, r)
      BY ONLY <2>2, h \in Heap, r \in Object
    <2> QED
      BY <2>1, <2>3
  <1> QED
    BY <1>13, <1>14

\* The object o ends in h: the functors that refer to it are still there.
Ending(h, o) == Inv(h, {}, {}, {o}) /\ Told(h, {})

\* What the notification of all that refers to an object makes of h.
AllNotified(h, g) ==
    Inv(g, {}, {}, {}) /\ Told(g, {}) /\ (Conns(h) => Conns(g)) /\ Shrinks(h, g)

NotifiesBelow(W, h, o) ==
    \A k \in Heap :
        Ending(k, o) /\ Cardinality(Referring(k, Rep, o)) < Cardinality(Referring(h, Rep, o))
            => AllNotified(k, W[k][o])

LEMMA NotifyStep ==
    ASSUME NEW h, NEW o \in Object, Ending(h, o), NEW W, NEW g, g = NotifyUsing(W, h, o),
           NotifiesBelow(W, h, o)
    PROVE  AllNotified(h, g)
  <1> USE Sorts
  <1>1. h \in Heap /\ Watching(h)
    BY DEF Ending, Inv
  <1>2. CASE h.watch[o] = <<>>
    <2>1. g = h
      BY <1>2 DEF NotifyUsing
    <2>2. \A q \in Rep : h.functor[q] # o
      <3>1. ToSet(h.watch[o]) = {q \in Rep : h.functor[q] = o}
        BY <1>1 DEF Watching
      <3>2. ToSet(<<>>) = {}
        BY DEF ToSet
      <3> QED
        BY ONLY <3>1, <3>2, <1>2
    <2>3. Callable(h, {})
      <3>1. h.call \subseteq Rep
        BY <1>1, HeapFields
      <3>2. Callable(h, {o})
        BY DEF Ending, Inv
      <3> QED
        BY ONLY <2>2, <3>1, <3>2 DEF Callable
    <2>4. Shrinks(h, h)
      BY <1>1 DEF Shrinks
    <2> QED
      BY <2>1, <2>3, <2>4 DEF Ending, AllNotified, Inv
  <1>3. CASE h.watch[o] # <<>>
    <2>1. PICK r : r = Head(h.watch[o])
      OBVIOUS
    <2>2. r \in Rep /\ h.functor[r] = o
      BY <1>1, <1>3, <2>1, FirstCallback DEF Watching
    <2>3. Connected(h, {}, {o}, r)
      BY <2>2 DEF Connected, Ending
    <2>4. PICK k : k = Disconnect(h, r)
      OBVIOUS
    <2>5. Disconnected(h, {o}, r, k)
      BY <2>3, <2>4, DisconnectKeeps
    <2>6. /\ Inv(k, {}, {}, {o}) /\ Told(k, {}) /\ (Conns(h) => Conns(k)) /\ Shrinks(h, k)
          /\ r \notin k.call
      BY <2>5 DEF Disconnected
    <2>7. PICK m : m = DestroyedIfThere(k, r)
      OBVIOUS
    <2>8. /\ Inv(m, {}, {}, {o}) /\ Told(m, {}) /\ (Conns(k) => Conns(m)) /\ Shrinks(k, m)
          /\ m.functor[r] \in {"gone", "free"}
      BY <2>2, <2>6, <2>7, DestroyedKeeps
    <2>9. Shrinks(h, m)
      BY <2>6, <2>8, ShrinksOn
    <2>10. Cardinality(Referring(m, Rep, o)) < Cardinality(Referring(h, Rep, o))
      <3>1. \A q \in Rep : m.functor[q] \in {h.functor[q], "gone", "free"}
        BY <2>9 DEF Shrinks
      <3>2. Referring(m, Rep, o) \subseteq Referring(h, Rep, o) \ {r}
        BY <3>1, <2>2, <2>8 DEF Referring
      <3>3. r \in Referring(h, Rep, o) /\ Referring(h, Rep, o) \in SUBSET Rep
        BY <2>2 DEF Referring
      <3>4. PICK S, T : S = Referring(m, Rep, o) /\ T = Referring(h, Rep, o)
        OBVIOUS
      <3>5. Cardinality(T \ {r}) < Cardinality(T) /\ Cardinality(T) \in Nat
        BY ONLY <3>3, <3>4, RepsFinite
      <3>6. T \ {r} \in SUBSET Rep /\ S \in SUBSET (T \ {r})
        BY ONLY <3>2, <3>3, <3>4
      <3>7. Cardinality(S) <= Cardinality(T \ {r}) /\ Cardinality(T \ {r}) \in Nat
        BY ONLY <3>6, RepsFinite
      <3>8. S \in SUBSET Rep
        BY ONLY <3>6
      <3>9. Cardinality(S) \in Nat
        BY ONLY <3>8, RepsFinite
      <3> QED
        BY ONLY <3>4, <3>5, <3>7, <3>9
    <2>11. m \in Heap /\ Ending(m, o)
      BY <2>8 DEF Ending, Inv
    <2>12. m = Invalidated(h, r)
      BY <2>4, <2>7 DEF Invalidated
    <2>13. g = W[m][o]
      BY <1>3, <2>1, <2>12 DEF NotifyUsing
    <2>14. AllNotified(m, g)
      BY <2>10, <2>11, <2>13 DEF NotifiesBelow
    <2>15. Shrinks(m, g)
      BY <2>14 DEF AllNotified
    <2>16. Shrinks(h, g)
      BY <2>9, <2>15, ShrinksOn
    <2> QED
      BY <2>6, <2>8, <2>14, <2>16 DEF AllNotified
  <1> QED
    BY <1>2, <1>3

\* ~trackable() tells all that refers to the object: MaxCalls are enough.
LEMMA NotifiedKeeps ==
    ASSUME NEW h, NEW o \in Object, Ending(h, o), NEW g, g = Notified(h, o)
    PROVE  AllNotified(h, g)
  <1> DEFINE Works(n, k) ==
                 Ending(k, o) /\ Cardinality(Referring(k, Rep, o)) < n
                     => AllNotified(k, NotifyWithin[n][k][o])
             N == {n \in Nat : \A k \in Heap : Works(n, k)}
  <1>0. \A k : /\ Cardinality(Referring(k, Rep, o)) \in Nat
               /\ Cardinality(Referring(k, Rep, o)) < MaxCalls
    <2>1. \A k : Referring(k, Rep, o) \in SUBSET Rep
      BY DEF Referring
    <2> QED
      BY <2>1, RepsFinite
  <1>1. 0 \in N
    <2>1. \A k : ~(Cardinality(Referring(k, Rep, o)) < 0)
      BY <1>0
    <2> QED
      BY <2>1
  <1>2. ASSUME NEW n \in N
        PROVE  n + 1 \in N
    <2> HIDE DEF N, Works
    <2>1. n \in Nat /\ \A k \in Heap : Works(n, k)
      BY ONLY <1>2, n \in N DEF N
    <2>2. SUFFICES \A k \in Heap : Works(n + 1, k)
      BY ONLY <2>1, <2>2 DEF N
    <2>3. SUFFICES ASSUME NEW k \in Heap,
                          Ending(k, o), Cardinality(Referring(k, Rep, o)) < n + 1
                   PROVE  AllNotified(k, NotifyWithin[n + 1][k][o])
      BY ONLY <2>3 DEF Works
    <2>4. PICK W, f : W = NotifyWithin[n] /\ f = NotifyWithin[n + 1][k][o]
      OBVIOUS
    <2>5. f = NotifyUsing(W, k, o)
      BY <2>1, <2>4, NotifyUnfolds
    <2>6. ASSUME NEW m \in Heap, Ending(m, o),
                 Cardinality(Referring(m, Rep, o)) < Cardinality(Referring(k, Rep, o))
          PROVE  AllNotified(m, W[m][o])
      <3>1. Cardinality(Referring(m, Rep, o)) < n
        BY ONLY <1>0, <2>1, <2>3, <2>6
      <3>2. Works(n, m)
        BY <2>1
      <3> QED
        BY ONLY <3>1, <3>2, <2>4, <2>6 DEF Works
    <2>7. NotifiesBelow(W, k, o)
      BY <2>6 DEF NotifiesBelow
    <2>8. AllNotified(k, f)
      BY ONLY <2>3, <2>5, <2>7, o \in Object, NotifyStep
    <2> QED
      BY <2>4, <2>8
  <1>3. N \in SUBSET Nat
    OBVIOUS
  <1> HIDE DEF N
  <1>4. \A n \in Nat : n \in N
    BY <1>1, <1>2, <1>3, AllNumbers
  <1>5. MaxCalls \in N
    BY <1>4, Sorts
  <1>6. h \in Heap
    BY DEF Ending, Inv
  <1>7. Works(MaxCalls, h)
    BY ONLY <1>5, <1>6 DEF N
  <1> QED
    BY <1>0, <1>7 DEF Notified

-----------------------------------------------------------------------------
(***************************************************************************)
(* New reps.                                                               *)
(***************************************************************************)
BindRel(h, r, g) ==
    /\ \A q \in Rep : g.parent[q] =
          IF h.parent[q] = Null /\ Edge(h, r, q) THEN r ELSE h.parent[q]
    /\ \A o \in Object :
          /\ ToSet(g.watch[o]) = ToSet(h.watch[o]) \cup Referring(h, {r}, o)
          /\ IsInjective(h.watch[o]) /\ r \notin ToSet(h.watch[o]) => IsInjective(g.watch[o])
    /\ g.rep = h.rep /\ g.alive = h.alive /\ g.call = h.call
    /\ g.functor = h.functor /\ g.told = h.told
    /\ g.conn = h.conn /\ g.dead = h.dead /\ g.listed = h.listed
    /\ g.misused = h.misused

\* visit_each_trackable(slot_do_bind(r))
LEMMA BindFields ==
    ASSUME NEW h \in Heap, NEW r \in Rep, NEW g, g = Bind(h, r)
    PROVE  g \in Heap /\ (h.functor[r] \in Object \cup Slot \cup {"inner"} => BindRel(h, r, g))
  <1> USE Sorts
  <1>1. CASE h.functor[r] \in Object
    <2>1. PICK f \in Object : f = h.functor[r]
      BY <1>1
    <2>2. PICK w : w = Append(h.watch[f], r)
      OBVIOUS
    <2>3. g = [h EXCEPT !.watch[f] = w]
      BY <2>1, <2>2 DEF Bind
    <2>4. h.watch[f] \in Seq(Rep)
      BY HeapFields
    <2>5. /\ w \in Seq(Rep)
          /\ ToSet(w) = ToSet(h.watch[f]) \cup {r}
          /\ IsInjective(h.watch[f]) /\ r \notin ToSet(h.watch[f]) => IsInjective(w)
      BY ONLY <2>2, <2>4, r \in Rep, WithCallback
    <2>6. [h.watch EXCEPT ![f] = w] \in [Object -> Seq(Rep)]
      BY <2>5, HeapFields
    <2>7. g \in Heap
      BY ONLY <2>3, <2>6, h \in Heap DEF Heap
    <2>8. /\ g.watch = [h.watch EXCEPT ![f] = w]
          /\ g.parent = h.parent
          /\ g.rep = h.rep /\ g.alive = h.alive /\ g.call = h.call
          /\ g.functor = h.functor /\ g.told = h.told
          /\ g.conn = h.conn /\ g.dead = h.dead /\ g.listed = h.listed
          /\ g.misused = h.misused
      BY ONLY <2>3, h \in Heap DEF Heap
    <2>9. ASSUME NEW o \in Object
          PROVE  /\ ToSet(g.watch[o]) = ToSet(h.watch[o]) \cup Referring(h, {r}, o)
                 /\ IsInjective(h.watch[o]) /\ r \notin ToSet(h.watch[o])
                        => IsInjective(g.watch[o])
      <3>1. CASE o = f
        <4>1. g.watch[o] = w
          BY <3>1, <2>8, HeapFields
        <4>2. Referring(h, {r}, o) = {r}
          BY <3>1, <2>1 DEF Referring
        <4> QED
          BY ONLY <4>1, <4>2, <3>1, <2>5
      <3>2. CASE o # f
        <4>1. g.watch[o] = h.watch[o]
          BY <3>2, <2>8, HeapFields
        <4>2. Referring(h, {r}, o) = {}
          BY <3>2, <2>1 DEF Referring
        <4> QED
          BY ONLY <4>1, <4>2
      <3> QED
        BY <3>1, <3>2
    <2>10. \A q : ~Edge(h, r, q)
      BY <1>1 DEF Edge
    <2> QED
      BY ONLY <2>7, <2>8, <2>9, <2>10 DEF BindRel
  <1>2. CASE h.functor[r] \notin Object
    <2>1. PICK s \in Holder : s = IF h.functor[r] \in Slot THEN h.functor[r] ELSE r
      OBVIOUS
    <2>2. g = AdoptSlot(h, s, r)
      BY <1>2, <2>1 DEF Bind
    <2>3. /\ g \in Heap
          /\ \A q \in Rep : g.parent[q] =
                 IF h.parent[q] = Null /\ h.rep[s] = q THEN r ELSE h.parent[q]
          /\ g.rep = h.rep /\ g.alive = h.alive /\ g.call = h.call
          /\ g.functor = h.functor /\ g.watch = h.watch /\ g.told = h.told
          /\ g.conn = h.conn /\ g.dead = h.dead /\ g.listed = h.listed
          /\ g.misused = h.misused
      BY ONLY <2>2, AdoptFields, h \in Heap, r \in Rep, s \in Holder
    <2>4. ASSUME NEW q \in Rep, h.functor[r] \in Slot \cup {"inner"}
          PROVE  h.rep[s] = q <=> Edge(h, r, q)
      BY <2>1, <2>4 DEF Edge
    <2>5. ASSUME NEW o \in Object
          PROVE  Referring(h, {r}, o) = {}
      BY <1>2 DEF Referring
    <2> QED
      BY ONLY <2>3, <2>4, <2>5, <1>2 DEF BindRel
  <1> QED
    BY <1>1, <1>2

NewRepRel(h, r, f, g) ==
    /\ g.functor = [h.functor EXCEPT ![r] = f]
    /\ g.call = h.call \cup {r}
    /\ \A q \in Rep : q # r => g.parent[q] =
          IF h.parent[q] = Null /\ Edge(g, r, q) THEN r ELSE h.parent[q]
    /\ ~Edge(g, r, r) => g.parent[r] = Null
    /\ \A o \in Object :
          /\ ToSet(g.watch[o]) = ToSet(h.watch[o]) \cup Referring(g, {r}, o)
          /\ IsInjective(h.watch[o]) /\ r \notin ToSet(h.watch[o]) => IsInjective(g.watch[o])
    /\ g.rep = h.rep /\ g.alive = h.alive /\ g.told = h.told
    /\ g.conn = h.conn /\ g.dead = h.dead /\ g.listed = h.listed
    /\ g.misused = h.misused

LEMMA NewRepFields ==
    ASSUME NEW h \in Heap, NEW r \in Rep,
           NEW f \in Object \cup Slot \cup {"inner", "gone", "free"}, NEW g, g = NewRep(h, r, f)
    PROVE  g \in Heap /\ (f \in Object \cup Slot \cup {"inner"} => NewRepRel(h, r, f, g))
  <1> USE Sorts
  <1>1. PICK m : m = [h EXCEPT !.functor[r] = f, !.call = @ \cup {r}, !.parent[r] = Null]
    OBVIOUS
  <1>2. /\ [h.functor EXCEPT ![r] = f] \in [Rep -> Object \cup Slot \cup {"inner", "gone", "free"}]
        /\ h.call \cup {r} \in SUBSET Rep
        /\ [h.parent EXCEPT ![r] = Null] \in [Rep -> Holder \cup {Null}]
    BY HeapFields
  <1>3. m \in Heap
    BY ONLY <1>1, <1>2, h \in Heap DEF Heap
  <1>4. /\ m.functor = [h.functor EXCEPT ![r] = f] /\ m.call = h.call \cup {r}
        /\ m.parent = [h.parent EXCEPT ![r] = Null] /\ m.watch = h.watch
        /\ m.rep = h.rep /\ m.alive = h.alive /\ m.told = h.told
        /\ m.conn = h.conn /\ m.dead = h.dead /\ m.listed = h.listed
        /\ m.misused = h.misused
    BY ONLY <1>1, h \in Heap DEF Heap
  <1>5. g = Bind(m, r)
    BY <1>1 DEF NewRep
  <1>6. g \in Heap /\ (m.functor[r] \in Object \cup Slot \cup {"inner"} => BindRel(m, r, g))
    BY <1>3, <1>5, BindFields
  <1>7. ASSUME f \in Object \cup Slot \cup {"inner"}
        PROVE  NewRepRel(h, r, f, g)
    <2>1. m.functor[r] = f
      BY <1>4, HeapFields
    <2>2. BindRel(m, r, g)
      BY <1>6, <1>7, <2>1
    <2>3. \A q \in Rep : m.parent[q] = IF q = r THEN Null ELSE h.parent[q]
      BY <1>4, HeapFields
    <2>4. g.functor = m.functor /\ g.rep = m.rep
      BY <2>2 DEF BindRel
    <2>5. \A q : Edge(g, r, q) <=> Edge(m, r, q)
      BY <2>4 DEF Edge
    <2>6. \A o : Referring(g, {r}, o) = Referring(m, {r}, o)
      BY <2>4 DEF Referring
    <2> QED
      BY ONLY <2>2, <2>3, <2>5, <2>6, <1>4, r \in Rep DEF BindRel, NewRepRel
  <1> QED
    BY <1>6, <1>7

LEMMA TakenFields ==
    ASSUME NEW h \in Heap, NEW r \in Rep, NEW g, g = Taken(h, r)
    PROVE  /\ g \in Heap
           /\ \A q \in Rep : g.functor[q] = IF q = r THEN "gone" ELSE h.functor[q]
           /\ g.call = h.call /\ g.parent = h.parent /\ g.watch = h.watch
           /\ g.rep = h.rep /\ g.alive = h.alive /\ g.told = h.told
           /\ g.conn = h.conn /\ g.dead = h.dead /\ g.listed = h.listed
           /\ g.misused = h.misused
  <1>1. g = [h EXCEPT !.functor[r] = "gone"]
    BY DEF Taken
  <1>2. [h.functor EXCEPT ![r] = "gone"] \in [Rep -> Object \cup Slot \cup {"inner", "gone", "free"}]
    BY HeapFields
  <1>3. g \in Heap
    BY ONLY <1>1, <1>2, h \in Heap DEF Heap
  <1>4. /\ g.functor = [h.functor EXCEPT ![r] = "gone"]
        /\ g.call = h.call /\ g.parent = h.parent /\ g.watch = h.watch
        /\ g.rep = h.rep /\ g.alive = h.alive /\ g.told = h.told
        /\ g.conn = h.conn /\ g.dead = h.dead /\ g.listed = h.listed
        /\ g.misused = h.misused
    BY ONLY <1>1, h \in Heap DEF Heap
  <1>5. \A q \in Rep : g.functor[q] = IF q = r THEN "gone" ELSE h.functor[q]
    BY <1>4, HeapFields
  <1> QED
    BY <1>3, <1>4, <1>5

LEMMA CopiedFields ==
    ASSUME NEW h \in Heap, NEW dst \in Holder, NEW r \in Rep \cup {Null}, NEW b,
           NEW g, g = Copied(h, dst, r, b)
    PROVE  /\ g \in Heap
           /\ \A s \in Holder : g.rep[s] = IF s = dst THEN r ELSE h.rep[s]
           /\ g.call = h.call /\ g.parent = h.parent /\ g.watch = h.watch
           /\ g.functor = h.functor /\ g.alive = h.alive /\ g.told = h.told
           /\ g.conn = h.conn /\ g.dead = h.dead /\ g.listed = h.listed
           /\ g.misused = h.misused
  <1>1. PICK B : B = IF b THEN h.blocked \cup {dst} ELSE h.blocked \ {dst}
    OBVIOUS
  <1>2. g = [h EXCEPT !.rep[dst] = r, !.blocked = B]
    BY <1>1 DEF Copied
  <1>3. [h.rep EXCEPT ![dst] = r] \in [Holder -> Rep \cup {Null}] /\ B \in SUBSET Holder
    BY <1>1, HeapFields
  <1>4. g \in Heap
    BY ONLY <1>2, <1>3, h \in Heap DEF Heap
  <1>5. /\ g.rep = [h.rep EXCEPT ![dst] = r]
        /\ g.call = h.call /\ g.parent = h.parent /\ g.watch = h.watch
        /\ g.functor = h.functor /\ g.alive = h.alive /\ g.told = h.told
        /\ g.conn = h.conn /\ g.dead = h.dead /\ g.listed = h.listed
        /\ g.misused = h.misused
    BY ONLY <1>2, h \in Heap DEF Heap
  <1>6. \A s \in Holder : g.rep[s] = IF s = dst THEN r ELSE h.rep[s]
    BY <1>5, HeapFields
  <1> QED
    BY <1>4, <1>5, <1>6

\* The two heaps differ in what is blocked only, or in nothing that matters here.
Alike(h, g) ==
    /\ g \in Heap
    /\ g.rep = h.rep /\ g.alive = h.alive /\ g.call = h.call /\ g.functor = h.functor
    /\ g.parent = h.parent /\ g.watch = h.watch /\ g.told = h.told /\ g.conn = h.conn
    /\ g.dead = h.dead /\ g.listed = h.listed /\ g.misused = h.misused

LEMMA AlikeKeeps ==
    ASSUME NEW h, NEW U, NEW P, NEW D, NEW X, NEW g, Inv(h, U, P, D), Told(h, X), Alike(h, g)
    PROVE  Inv(g, U, P, D) /\ Told(g, X) /\ (Conns(h) => Conns(g))
  <1>1. /\ h \in Heap /\ ~h.misused /\ Watching(h) /\ Owned(h, U) /\ Acyclic(h)
        /\ Refers(h) /\ Parents(h) /\ Callable(h, D) /\ Nested(h, P)
    BY DEF Inv
  <1>2. /\ g \in Heap
        /\ g.rep = h.rep /\ g.alive = h.alive /\ g.call = h.call /\ g.functor = h.functor
        /\ g.parent = h.parent /\ g.watch = h.watch /\ g.told = h.told /\ g.conn = h.conn
        /\ g.dead = h.dead /\ g.listed = h.listed /\ g.misused = h.misused
    BY DEF Alike
  <1>3. \A q, t : Edge(g, q, t) <=> Edge(h, q, t)
    BY <1>2 DEF Edge
  <1>4. Acyclic(g)
    BY ONLY <1>1, <1>3 DEF Acyclic
  <1>5. Parents(g)
    BY <1>1, <1>2, <1>3 DEF Parents
  <1>6. /\ Watching(g) /\ Refers(g) /\ Callable(g, D) /\ Nested(g, P)
    BY <1>1, <1>2 DEF Watching, Refers, Callable, Nested
  <1>7. Owned(g, U)
    BY <1>1, <1>2 DEF Owned
  <1>8. Told(g, X)
    BY <1>2 DEF Told
  <1>9. Conns(h) => Conns(g)
    BY <1>2 DEF Conns
  <1> QED
    BY <1>1, <1>2, <1>4, <1>5, <1>6, <1>7, <1>8, <1>9 DEF Inv

\* A rep that is free has nothing to do with any other.
LEMMA FreeAlone ==
    ASSUME NEW h, NEW U, NEW P, NEW D, Inv(h, U, P, D), NEW r \in Rep, h.functor[r] = "free"
    PROVE  /\ r \notin U /\ h.rep[r] = Null /\ h.parent[r] = Null /\ r \notin h.call
           /\ \A s \in Holder : h.rep[s] # r
           /\ \A q \in Rep : h.parent[q] # r
  <1> USE Sorts
  <1>1. h \in Heap /\ Owned(h, U) /\ Parents(h) /\ Callable(h, D)
    BY DEF Inv
  <1>2. r \notin U /\ \A s \in Holder : h.rep[s] # r
    BY <1>1 DEF Owned
  <1>3. h.rep[r] = Null
    BY <1>1, <1>2 DEF Owned
  <1>4. h.parent[r] = Null
    BY <1>1 DEF Parents
  <1>5. r \notin h.call
    BY <1>1 DEF Callable
  <1>6. ASSUME NEW q \in Rep, h.parent[q] = r
        PROVE  FALSE
    <2>1. Edge(h, r, q)
      BY <1>1, <1>6 DEF Parents
    <2> QED
      BY <2>1 DEF Edge
  <1> QED
    BY <1>2, <1>3, <1>4, <1>5, <1>6

\* A rep that has no slot yet is nested in no other.
LEMMA Unowned ==
    ASSUME NEW h, NEW U, NEW P, NEW D, Inv(h, U, P, D), NEW r \in U
    PROVE  /\ r \in Rep /\ h.functor[r] # "free"
           /\ \A s \in Holder : h.rep[s] # r
           /\ \A q \in Rep : ~Edge(h, q, r)
           /\ h.parent[r] = Null
  <1> USE Sorts
  <1>1. h \in Heap /\ Owned(h, U) /\ Parents(h)
    BY DEF Inv
  <1>2. r \in Rep /\ h.functor[r] # "free" /\ \A s \in Holder : h.rep[s] # r
    BY <1>1 DEF Owned
  <1>3. \A q \in Rep : ~Edge(h, q, r)
    BY <1>2 DEF Edge
  <1>4. h.parent[r] = Null
    <2>1. SUFFICES ASSUME h.parent[r] # Null
                   PROVE  FALSE
      OBVIOUS
    <2>2. /\ h.parent[r] \in Rep => Edge(h, h.parent[r], r)
          /\ h.parent[r] \in Slot => h.rep[h.parent[r]] = r
      BY <1>1, <1>2, <2>1 DEF Parents
    <2>3. h.parent[r] \in Holder
      BY <1>1, <1>2, <2>1, HeapFields
    <2> QED
      BY <2>2, <2>3, <1>2, <1>3
  <1> QED
    BY <1>2, <1>3, <1>4

LEMMA TakenKeeps ==
    ASSUME NEW h, NEW U, NEW P, NEW D, NEW X, Inv(h, U, P, D), Told(h, X),
           NEW r \in Rep, h.functor[r] = "free", NEW g, g = Taken(h, r)
    PROVE  Inv(g, U \cup {r}, P, D) /\ Told(g, X) /\ (Conns(h) => Conns(g))
  <1> USE Sorts
  <1>1. /\ h \in Heap /\ ~h.misused /\ Watching(h) /\ Owned(h, U) /\ Acyclic(h)
        /\ Refers(h) /\ Parents(h) /\ Callable(h, D) /\ Nested(h, P)
    BY DEF Inv
  <1>2. /\ g \in Heap
        /\ \A q \in Rep : g.functor[q] = IF q = r THEN "gone" ELSE h.functor[q]
        /\ g.call = h.call /\ g.parent = h.parent /\ g.watch = h.watch
        /\ g.rep = h.rep /\ g.alive = h.alive /\ g.told = h.told
        /\ g.conn = h.conn /\ g.dead = h.dead /\ g.listed = h.listed
        /\ g.misused = h.misused
    BY <1>1, TakenFields
  <1>3. /\ r \notin U /\ h.rep[r] = Null /\ h.parent[r] = Null /\ r \notin h.call
        /\ \A s \in Holder : h.rep[s] # r
        /\ \A q \in Rep : h.parent[q] # r
    BY FreeAlone
  <1>4. \A q, t \in Rep : Edge(g, q, t) <=> Edge(h, q, t)
    BY <1>2 DEF Edge
  <1>5. Watching(g)
    <2>1. ASSUME NEW o \in Object
          PROVE  {q \in Rep : g.functor[q] = o} = {q \in Rep : h.functor[q] = o}
      <3>1. o # "gone" /\ o # "free"
        OBVIOUS
      <3>2. \A q \in Rep : g.functor[q] = o <=> h.functor[q] = o
        BY ONLY <3>1, <1>2, h.functor[r] = "free"
      <3> QED
        BY ONLY <3>2
    <2> QED
      BY ONLY <2>1, <1>1, <1>2 DEF Watching
  <1>6. Acyclic(g)
    BY ONLY <1>1, <1>4 DEF Acyclic
  <1>7. Refers(g)
    BY <1>1, <1>2 DEF Refers
  <1>8. Parents(g)
    <2>1. ASSUME NEW q \in Rep, g.parent[q] # Null
          PROVE  /\ g.functor[q] # "free"
                 /\ g.parent[q] \in Rep => Edge(g, g.parent[q], q)
                 /\ g.parent[q] \in Slot => g.rep[g.parent[q]] = q /\ g.parent[q] \in g.listed
      <3>1. /\ h.functor[q] # "free"
            /\ h.parent[q] \in Rep => Edge(h, h.parent[q], q)
            /\ h.parent[q] \in Slot => h.rep[h.parent[q]] = q /\ h.parent[q] \in h.listed
        BY <2>1, <1>1, <1>2 DEF Parents
      <3>2. g.parent[q] \in Rep => Edge(g, g.parent[q], q)
        BY ONLY <3>1, <1>2, <1>4, q \in Rep
      <3> QED
        BY ONLY <3>1, <3>2, <1>2, q \in Rep
    <2> QED
      BY <2>1 DEF Parents
  <1>9. h.call \subseteq Rep
    BY <1>1, HeapFields
  <1>10. Callable(g, D)
    BY <1>1, <1>2, <1>3, <1>9 DEF Callable
  <1>11. Nested(g, P)
    <2>1. \A q \in h.call : g.functor[q] = h.functor[q]
      BY <1>2, <1>3, <1>9
    <2> QED
      BY ONLY <2>1, <1>1, <1>2 DEF Nested
  <1>12. Owned(g, U \cup {r})
    <2>1. \A s, t \in Holder : g.rep[s] # Null /\ g.rep[s] = g.rep[t] => s = t
      BY <1>1, <1>2 DEF Owned
    <2>2. ASSUME NEW s \in Holder, g.rep[s] # Null
          PROVE  g.functor[g.rep[s]] # "free" /\ g.rep[s] \notin U \cup {r}
      <3>1. h.functor[h.rep[s]] # "free" /\ h.rep[s] \notin U
        BY <2>2, <1>1, <1>2 DEF Owned
      <3>2. h.rep[s] \in Rep
        BY <2>2, <1>1, <1>2, HeapFields
      <3> QED
        BY <3>1, <3>2, <1>2, <1>3
    <2>3. \A q \in Rep : g.functor[q] = "free" \/ q \in U \cup {r} \/ \E s \in Holder : g.rep[s] = q
      BY <1>1, <1>2 DEF Owned
    <2>4. \A s \in Slot : g.rep[s] # Null => s \in g.alive
      BY <1>1, <1>2 DEF Owned
    <2>5. \A s \in Rep : g.rep[s] # Null => g.functor[s] = "inner" \/ s \in U \cup {r}
      BY <1>1, <1>2 DEF Owned
    <2>6. \A q \in U \cup {r} : q \in Rep /\ g.functor[q] # "free"
      BY <1>1, <1>2 DEF Owned
    <2> QED
      BY ONLY <2>1, <2>2, <2>3, <2>4, <2>5, <2>6 DEF Owned
  <1>13. Told(g, X)
    BY <1>2 DEF Told
  <1>14. Conns(h) => Conns(g)
    BY <1>2 DEF Conns
  <1> QED
    BY <1>1, <1>2, <1>5, <1>6, <1>7, <1>8, <1>10, <1>11, <1>12, <1>13, <1>14 DEF Inv

\* The functor f may be given to the new rep r.
Fitting(h, r, f) ==
    /\ f \in (Object \ h.dead) \cup (h.alive \ h.listed) \cup {"inner"}
    /\ h.functor[r] = "gone"
    /\ h.rep[r] # Null => f = "inner" /\ h.rep[r] \in h.call /\ h.parent[h.rep[r]] = Null

LEMMA NewRepKeeps ==
    ASSUME NEW h, NEW U, Inv(h, U, {}, {}), Told(h, {}), NEW r \in U,
           NEW f, Fitting(h, r, f), NEW g, g = NewRep(h, r, f)
    PROVE  /\ Inv(g, U, {}, {}) /\ Told(g, {}) /\ (Conns(h) => Conns(g))
           /\ g.functor = [h.functor EXCEPT ![r] = f] /\ g.call = h.call \cup {r}
           /\ g.rep = h.rep /\ g.alive = h.alive /\ g.listed = h.listed /\ g.dead = h.dead
           /\ g.parent[r] = Null
           /\ \A q \in Rep : g.parent[q] # h.parent[q] => Edge(g, r, q)
  <1> USE Sorts
  <1>1. /\ h \in Heap /\ ~h.misused /\ Watching(h) /\ Owned(h, U) /\ Acyclic(h)
        /\ Refers(h) /\ Parents(h) /\ Callable(h, {}) /\ Nested(h, {})
    BY DEF Inv
  <1>2. /\ r \in Rep /\ h.functor[r] = "gone"
        /\ \A s \in Holder : h.rep[s] # r
        /\ \A q \in Rep : ~Edge(h, q, r)
        /\ h.parent[r] = Null
    BY Unowned DEF Fitting
  <1>3. f \in Object \cup Slot \cup {"inner"}
    <2>1. h.alive \subseteq Slot
      BY <1>1, HeapFields
    <2> QED
      BY <2>1 DEF Fitting
  <1>4. g \in Heap /\ NewRepRel(h, r, f, g)
    BY <1>1, <1>2, <1>3, NewRepFields
  <1>5. /\ g.functor = [h.functor EXCEPT ![r] = f] /\ g.call = h.call \cup {r}
        /\ g.rep = h.rep /\ g.alive = h.alive /\ g.told = h.told
        /\ g.conn = h.conn /\ g.dead = h.dead /\ g.listed = h.listed
        /\ g.misused = h.misused
    BY <1>4 DEF NewRepRel
  <1>6. \A q \in Rep : g.functor[q] = IF q = r THEN f ELSE h.functor[q]
    BY <1>1, <1>5, HeapFields
  <1>7. \A q \in Rep : ~Edge(g, q, r)
    BY <1>2, <1>5 DEF Edge
  <1>8. \A q, t \in Rep : q # r => (Edge(g, q, t) <=> Edge(h, q, t))
    BY <1>5, <1>6 DEF Edge
  <1>9. g.parent[r] = Null
    BY <1>2, <1>4, <1>7 DEF NewRepRel
  <1>10. \A q \in Rep : q # r => g.parent[q] =
             IF h.parent[q] = Null /\ Edge(g, r, q) THEN r ELSE h.parent[q]
    BY <1>4 DEF NewRepRel
  <1>11. Watching(g)
    <2>1. ASSUME NEW o \in Object
          PROVE  /\ IsInjective(g.watch[o])
                 /\ ToSet(g.watch[o]) = {q \in Rep : g.functor[q] = o}
      <3>1. /\ ToSet(g.watch[o]) = ToSet(h.watch[o]) \cup Referring(g, {r}, o)
            /\ IsInjective(h.watch[o]) /\ r \notin ToSet(h.watch[o]) => IsInjective(g.watch[o])
        BY <1>4 DEF NewRepRel
      <3>2. /\ IsInjective(h.watch[o])
            /\ ToSet(h.watch[o]) = {q \in Rep : h.functor[q] = o}
        BY <1>1 DEF Watching
      <3>3. {q \in Rep : g.functor[q] = o} = {q \in Rep : h.functor[q] = o} \cup Referring(g, {r}, o)
        BY <1>2, <1>6 DEF Referring
      <3>4. h.functor[r] # o
        BY <1>2
      <3> QED
        BY ONLY <3>1, <3>2, <3>3, <3>4
    <2> QED
      BY <2>1 DEF Watching
  <1>12. Acyclic(g)
    <2>1. ASSUME NEW S \in SUBSET Rep, S # {}
          PROVE  \E t \in S : \A q \in S : ~Edge(g, q, t)
      <3>1. CASE r \in S
        BY <3>1, <1>7
      <3>2. CASE r \notin S
        <4>1. PICK t \in S : \A q \in S : ~Edge(h, q, t)
          BY <2>1, <1>1 DEF Acyclic
        <4> QED
          BY ONLY <3>2, <4>1, <1>8, S \in SUBSET Rep
      <3> QED
        BY <3>1, <3>2
    <2> QED
      BY <2>1 DEF Acyclic
  <1>13. Refers(g)
    <2>1. f \in Slot => f \in h.alive \ h.listed
      BY DEF Fitting
    <2> QED
      BY <2>1, <1>1, <1>5, <1>6 DEF Refers
  <1>14. Parents(g)
    <2>1. ASSUME NEW q \in Rep, g.parent[q] # Null
          PROVE  /\ g.functor[q] # "free"
                 /\ g.parent[q] \in Rep => Edge(g, g.parent[q], q)
                 /\ g.parent[q] \in Slot => g.rep[g.parent[q]] = q /\ g.parent[q] \in g.listed
      <3>1. q # r
        BY <2>1, <1>9
      <3>2. CASE h.parent[q] = Null
        <4>1. g.parent[q] = r /\ Edge(g, r, q)
          BY <2>1, <3>1, <3>2, <1>10
        <4>2. \E s \in Holder : h.rep[s] = q
          BY <4>1, <1>2, <1>5 DEF Edge
        <4>3. h.functor[q] # "free"
          BY <4>2, <1>1 DEF Owned
        <4> QED
          BY <4>1, <4>3, <3>1, <1>2, <1>6
      <3>3. CASE h.parent[q] # Null
        <4>1. g.parent[q] = h.parent[q]
          BY <3>1, <3>3, <1>10
        <4>2. /\ h.functor[q] # "free"
              /\ h.parent[q] \in Rep => Edge(h, h.parent[q], q)
              /\ h.parent[q] \in Slot => h.rep[h.parent[q]] = q /\ h.parent[q] \in h.listed
          BY <3>3, <1>1 DEF Parents
        <4>3. h.parent[q] # r
          BY <4>2, <1>2 DEF Edge
        <4> QED
          BY <4>1, <4>2, <4>3, <3>1, <1>5, <1>6, <1>8
      <3> QED
        BY <3>2, <3>3
    <2> QED
      BY <2>1 DEF Parents
  <1>15. h.call \subseteq Rep /\ r \notin h.call
    BY <1>1, <1>2, HeapFields DEF Callable
  <1>16. Callable(g, {})
    <2>1. f \notin h.dead \cup {"gone", "free"}
      <3>1. h.dead \subseteq Object /\ h.alive \subseteq Slot
        BY <1>1, HeapFields
      <3>2. f \in (Object \ h.dead) \cup (h.alive \ h.listed) \cup {"inner"}
        BY DEF Fitting
      <3>3. "inner" \notin Object /\ "inner" # "gone" /\ "inner" # "free"
        OBVIOUS
      <3> QED
        BY <3>1, <3>2, <3>3
    <2>2. \A q \in h.call : h.functor[q] \notin h.dead \cup {"gone", "free"}
      BY <1>1 DEF Callable
    <2> QED
      BY ONLY <2>1, <2>2, <1>2, <1>5, <1>6, <1>15 DEF Callable
  <1>17. Nested(g, {})
    <2>1. SUFFICES ASSUME NEW q \in g.call, g.functor[q] = "inner", g.rep[q] # Null
                   PROVE  g.rep[q] \in g.call /\ g.parent[g.rep[q]] = q
      BY DEF Nested
    <2>2. q \in Rep /\ g.rep[q] = h.rep[q] /\ h.rep[q] # Null
      BY <2>1, <1>2, <1>5, <1>15
    <2>3. PICK t \in Rep : t = h.rep[q]
      <3>1. h.rep[q] \in Rep
        BY <2>2, <1>1, HeapFields
      <3> QED
        BY <3>1
    <2>4. t # r
      BY <2>2, <2>3, <1>2
    <2>5. CASE q = r
      <3>1. t \in h.call /\ h.parent[t] = Null
        BY <2>2, <2>3, <2>5 DEF Fitting
      <3>2. Edge(g, r, t)
        BY <2>1, <2>2, <2>3, <2>5 DEF Edge
      <3> QED
        BY <3>1, <3>2, <2>2, <2>3, <2>4, <2>5, <1>5, <1>10
    <2>6. CASE q # r
      <3>1. q \in h.call /\ h.functor[q] = "inner"
        BY <2>1, <2>2, <2>6, <1>5, <1>6
      <3>2. t \in h.call /\ h.parent[t] = q
        BY <3>1, <2>2, <2>3, <1>1 DEF Nested
      <3> QED
        BY <3>2, <2>2, <2>3, <2>4, <1>5, <1>10
    <2> QED
      BY <2>5, <2>6
  <1>18. Owned(g, U)
    <2>1. \A s, t \in Holder : g.rep[s] # Null /\ g.rep[s] = g.rep[t] => s = t
      BY <1>1, <1>5 DEF Owned
    <2>2. ASSUME NEW s \in Holder, g.rep[s] # Null
          PROVE  g.functor[g.rep[s]] # "free" /\ g.rep[s] \notin U
      <3>1. h.functor[h.rep[s]] # "free" /\ h.rep[s] \notin U
        BY <2>2, <1>1, <1>5 DEF Owned
      <3>2. h.rep[s] \in Rep /\ h.rep[s] # r
        BY <2>2, <1>1, <1>2, <1>5, HeapFields
      <3> QED
        BY <3>1, <3>2, <1>5, <1>6
    <2>3. \A q \in Rep : g.functor[q] = "free" \/ q \in U \/ \E s \in Holder : g.rep[s] = q
      BY <1>1, <1>5, <1>6 DEF Owned
    <2>4. \A s \in Slot : g.rep[s] # Null => s \in g.alive
      BY <1>1, <1>5 DEF Owned
    <2>5. \A s \in Rep : g.rep[s] # Null => g.functor[s] = "inner" \/ s \in U
      BY <1>1, <1>5, <1>6 DEF Owned
    <2>6. \A q \in U : q \in Rep /\ g.functor[q] # "free"
      BY <1>1, <1>3, <1>6 DEF Owned
    <2> QED
      BY ONLY <2>1, <2>2, <2>3, <2>4, <2>5, <2>6 DEF Owned
  <1>19. Told(g, {})
    <2>1. ASSUME NEW s \in g.listed
          PROVE  g.rep[s] # Null /\ g.parent[g.rep[s]] = s
      <3>1. s \in Slot /\ h.rep[s] # Null /\ h.parent[h.rep[s]] = s
        BY <1>1, <1>5, HeapFields DEF Told
      <3>2. h.rep[s] \in Rep /\ h.rep[s] # r
        <4>1. s \in Holder
          BY <3>1, Sorts
        <4>2. h.rep[s] \in Rep \cup {Null}
          BY <1>1, <4>1, HeapFields
        <4>3. h.rep[s] # r
          BY ONLY <1>2, <4>1
        <4> QED
          BY ONLY <3>1, <4>2, <4>3
      <3> QED
        BY <3>1, <3>2, <1>5, <1>10
    <2> QED
      BY <2>1 DEF Told
  <1>20. Conns(h) => Conns(g)
    BY <1>5 DEF Conns
  <1>21. \A q \in Rep : g.parent[q] # h.parent[q] => Edge(g, r, q)
    BY <1>2, <1>9, <1>10
  <1> QED
    BY ONLY <1>1, <1>4, <1>5, <1>9, <1>11, <1>12, <1>13, <1>14, <1>16, <1>17, <1>18, <1>19,
            <1>20, <1>21 DEF Inv

\* The slot at dst may be given a rep.
Vacant(h, V, dst) ==
    /\ h.rep[dst] = Null
    /\ \/ dst \in Slot /\ dst \in h.alive /\ \A q \in Rep : h.functor[q] # dst
       \/ dst \in V /\ h.functor[dst] = "gone"

\* The rep r gets its slot, whether that is blocked (b) or not.
LEMMA CopiedKeeps ==
    ASSUME NEW h, NEW V, Inv(h, V, {}, {}), Told(h, {}), NEW r \in V,
           Complete(h, {r}), NEW dst \in Holder, Vacant(h, V \ {r}, dst), NEW b, NEW g, g = Copied(h, dst, r, b)
    PROVE  Inv(g, V \ {r}, {}, {}) /\ Told(g, {}) /\ (Conns(h) => Conns(g))
  <1> USE Sorts
  <1>1. /\ h \in Heap /\ ~h.misused /\ Watching(h) /\ Owned(h, V) /\ Acyclic(h)
        /\ Refers(h) /\ Parents(h) /\ Callable(h, {}) /\ Nested(h, {})
    BY DEF Inv
  <1>2. /\ r \in Rep /\ h.functor[r] # "free"
        /\ \A s \in Holder : h.rep[s] # r
        /\ h.parent[r] = Null
    BY Unowned
  <1>3. /\ g \in Heap
        /\ \A s \in Holder : g.rep[s] = IF s = dst THEN r ELSE h.rep[s]
        /\ g.call = h.call /\ g.parent = h.parent /\ g.watch = h.watch
        /\ g.functor = h.functor /\ g.alive = h.alive /\ g.told = h.told
        /\ g.conn = h.conn /\ g.dead = h.dead /\ g.listed = h.listed
        /\ g.misused = h.misused
    BY <1>1, <1>2, CopiedFields
  <1>4. h.rep[dst] = Null
    BY DEF Vacant
  <1>5. dst \in Rep => h.functor[dst] = "gone"
    BY DEF Vacant
  <1>6. \A q \in Rep : h.functor[q] # dst \/ dst \notin Slot
    <2>1. V \subseteq Rep
      BY <1>1 DEF Owned
    <2> QED
      BY <2>1 DEF Vacant
  <1>7. ASSUME NEW q \in Rep, NEW t \in Rep
        PROVE  Edge(g, q, t) <=> Edge(h, q, t)
    <2>1. h.functor[q] = "inner" => g.rep[q] = h.rep[q]
      BY <1>3, <1>5
    <2>2. h.functor[q] \in Slot => g.rep[h.functor[q]] = h.rep[h.functor[q]]
      BY <1>3, <1>6
    <2> QED
      BY ONLY <2>1, <2>2, <1>3 DEF Edge
  <1>8. Watching(g) /\ Refers(g) /\ Callable(g, {})
    BY <1>1, <1>3 DEF Watching, Refers, Callable
  <1>9. Acyclic(g)
    BY ONLY <1>1, <1>7 DEF Acyclic
  <1>10. Parents(g)
    <2>1. ASSUME NEW q \in Rep, g.parent[q] # Null
          PROVE  /\ g.functor[q] # "free"
                 /\ g.parent[q] \in Rep => Edge(g, g.parent[q], q)
                 /\ g.parent[q] \in Slot => g.rep[g.parent[q]] = q /\ g.parent[q] \in g.listed
      <3>1. /\ h.functor[q] # "free"
            /\ h.parent[q] \in Rep => Edge(h, h.parent[q], q)
            /\ h.parent[q] \in Slot => h.rep[h.parent[q]] = q /\ h.parent[q] \in h.listed
        BY <2>1, <1>1, <1>3 DEF Parents
      <3>2. h.parent[q] \in Slot => h.parent[q] # dst
        BY <3>1, <1>4
      <3>3. g.parent[q] \in Rep => Edge(g, g.parent[q], q)
        BY ONLY <3>1, <1>3, <1>7, q \in Rep
      <3>4. g.parent[q] \in Slot => g.rep[g.parent[q]] = q /\ g.parent[q] \in g.listed
        <4>1. g.parent[q] = h.parent[q] /\ g.listed = h.listed
          BY ONLY <1>3
        <4>2. \A s \in Slot : s # dst => g.rep[s] = h.rep[s]
          BY ONLY <1>3, Sorts
        <4> QED
          BY ONLY <4>1, <4>2, <3>1, <3>2
      <3> QED
        BY <3>1, <3>3, <3>4, <1>3
    <2> QED
      BY <2>1 DEF Parents
  <1>11. Nested(g, {})
    <2>1. ASSUME NEW q \in h.call
          PROVE  q \in Rep /\ g.rep[q] = h.rep[q]
      <3>1. q \in Rep /\ h.functor[q] # "gone"
        BY <1>1, HeapFields DEF Callable
      <3> QED
        BY <3>1, <1>3, <1>5
    <2> QED
      BY ONLY <2>1, <1>1, <1>3 DEF Nested
  <1>12. Owned(g, V \ {r})
    <2>1. \A s, t \in Holder : g.rep[s] # Null /\ g.rep[s] = g.rep[t] => s = t
      <3>1. \A s, t \in Holder : h.rep[s] # Null /\ h.rep[s] = h.rep[t] => s = t
        BY <1>1 DEF Owned
      <3> QED
        BY ONLY <3>1, <1>2, <1>3
    <2>2. ASSUME NEW s \in Holder, g.rep[s] # Null
          PROVE  g.functor[g.rep[s]] # "free" /\ g.rep[s] \notin V \ {r}
      BY <2>2, <1>1, <1>2, <1>3 DEF Owned
    <2>3. \A q \in Rep : g.functor[q] = "free" \/ q \in V \ {r} \/ \E s \in Holder : g.rep[s] = q
      <3>1. SUFFICES ASSUME NEW q \in Rep, g.functor[q] # "free", q \notin V \ {r}
                     PROVE  \E s \in Holder : g.rep[s] = q
        OBVIOUS
      <3>2. CASE q = r
        BY <3>2, <1>3
      <3>3. CASE q # r
        <4>1. PICK s \in Holder : h.rep[s] = q
          BY <3>1, <3>3, <1>1, <1>3 DEF Owned
        <4>2. s # dst
          BY <4>1, <1>4
        <4> QED
          BY <4>1, <4>2, <1>3
      <3> QED
        BY <3>2, <3>3
    <2>4. \A s \in Slot : g.rep[s] # Null => s \in g.alive
      <3>1. dst \in Slot => dst \in h.alive
        <4>1. V \subseteq Rep
          BY <1>1 DEF Owned
        <4> QED
          BY <4>1 DEF Vacant
      <3> QED
        BY <3>1, <1>1, <1>3 DEF Owned
    <2>5. \A s \in Rep : g.rep[s] # Null => g.functor[s] = "inner" \/ s \in V \ {r}
      <3>1. \A s \in Rep : h.rep[s] # Null => h.functor[s] = "inner" \/ s \in V
        BY <1>1 DEF Owned
      <3>2. dst \in Rep => dst \in V \ {r}
        BY DEF Vacant
      <3>3. h.rep[r] # Null => h.functor[r] = "inner"
        BY DEF Complete
      <3> QED
        BY <3>1, <3>2, <3>3, <1>3
    <2>6. \A q \in V \ {r} : q \in Rep /\ g.functor[q] # "free"
      BY <1>1, <1>3 DEF Owned
    <2> QED
      BY ONLY <2>1, <2>2, <2>3, <2>4, <2>5, <2>6 DEF Owned
  <1>13. Told(g, {})
    <2>1. ASSUME NEW s \in h.listed
          PROVE  s \in Holder /\ h.rep[s] # Null /\ h.parent[h.rep[s]] = s
      BY <1>1, HeapFields DEF Told
    <2>2. ASSUME NEW s \in h.listed
          PROVE  g.rep[s] = h.rep[s]
      BY <2>1, <1>3, <1>4
    <2> QED
      BY ONLY <2>1, <2>2, <1>3 DEF Told
  <1>14. ASSUME Conns(h)
         PROVE  Conns(g)
    <2>1. /\ \A c \in Conn : h.conn[c] # Null => h.rep[h.conn[c]] # Null
          /\ \A c \in Conn, q \in Rep :
                c \in h.told[q] <=> h.conn[c] # Null /\ h.rep[h.conn[c]] = q
      BY <1>14 DEF Conns
    <2>2. \A c \in Conn : h.conn[c] # Null => g.rep[h.conn[c]] = h.rep[h.conn[c]]
      <3>1. \A c \in Conn : h.conn[c] # Null => h.conn[c] \in Holder
        <4>1. \A c \in Conn : h.conn[c] \in Slot \cup {Null}
          BY <1>1, HeapFields
        <4> QED
          BY <4>1
      <3> QED
        BY ONLY <2>1, <3>1, <1>3, <1>4
    <2> QED
      BY ONLY <2>1, <2>2, <1>3 DEF Conns
  <1> QED
    BY ONLY <1>1, <1>3, <1>8, <1>9, <1>10, <1>11, <1>12, <1>13, <1>14 DEF Inv

-----------------------------------------------------------------------------
(***************************************************************************)
(* Copies of slots.                                                        *)
(***************************************************************************)
LEMMA NestingTyped ==
    ASSUME NEW D \in [Heap -> [Holder -> Nat]], NEW h \in Heap, NEW r \in Holder
    PROVE  NestingUsing(D, h, r) \in Nat
  <1>1. CASE Empty(h, r)
    BY <1>1 DEF NestingUsing
  <1>2. CASE ~Empty(h, r)
    <2>1. PICK q : q = h.rep[r]
      OBVIOUS
    <2>2. q \in Holder
      BY <1>2, <2>1, HeapFields, Sorts DEF Empty
    <2>3. D[h][q] \in Nat
      BY <2>2
    <2> QED
      BY <1>2, <2>1, <2>3 DEF NestingUsing
  <1> QED
    BY <1>1, <1>2

LEMMA NestingUnfolds ==
    /\ \A n \in Nat : NestingWithin[n] \in [Heap -> [Holder -> Nat]]
    /\ \A n \in Nat, h \in Heap, r \in Holder :
          NestingWithin[n + 1][h][r] = NestingUsing(NestingWithin[n], h, r)
    /\ \A h \in Heap, r \in Holder : NestingWithin[0][h][r] = 0
  <1> DEFINE S == [Heap -> [Holder -> Nat]]
             s0 == [h \in Heap |-> [r \in Holder |-> 0]]
             F == [D \in S |-> [h \in Heap |-> [r \in Holder |-> NestingUsing(D, h, r)]]]
  <1>1. s0 \in S
    OBVIOUS
  <1>2. F \in [S -> S]
    BY NestingTyped
  <1>3. \E g \in [Nat -> S] : g[0] = s0 /\ \A n \in Nat : g[n + 1] = F[g[n]]
    <2> HIDE DEF S, s0, F
    <2> QED
      BY <1>1, <1>2, Recursion
  <1>4. PICK g \in [Nat -> S] : g[0] = s0 /\ \A n \in Nat : g[n + 1] = F[g[n]]
    BY <1>3
  <1>5. g = [n \in Nat |-> [h \in Heap |-> [r \in Holder |->
              IF n = 0 THEN 0 ELSE NestingUsing(g[n - 1], h, r)]]]
    <2>1. ASSUME NEW n \in Nat
          PROVE  g[n] = [h \in Heap |-> [r \in Holder |->
                    IF n = 0 THEN 0 ELSE NestingUsing(g[n - 1], h, r)]]
      <3>1. CASE n = 0
        BY <1>4, <3>1
      <3>2. CASE n # 0
        <4>1. n - 1 \in Nat /\ (n - 1) + 1 = n
          BY <3>2
        <4>2. g[n] = F[g[n - 1]]
          BY <1>4, <4>1
        <4>3. g[n - 1] \in S
          BY <1>4, <4>1
        <4> QED
          BY <3>2, <4>2, <4>3
      <3> QED
        BY <3>1, <3>2
    <2> QED
      BY <2>1
  <1>6. NestingWithin = [n \in Nat |-> [h \in Heap |-> [r \in Holder |->
              IF n = 0 THEN 0 ELSE NestingUsing(NestingWithin[n - 1], h, r)]]]
    <2> HIDE DEF S, s0, F
    <2> QED
      BY <1>5 DEF NestingWithin
  <1> HIDE DEF s0, F
  <1>7. \A n \in Nat : NestingWithin[n] = [h \in Heap |-> [r \in Holder |->
              IF n = 0 THEN 0 ELSE NestingUsing(NestingWithin[n - 1], h, r)]]
    BY <1>6
  <1>8. ASSUME NEW n \in Nat
        PROVE  NestingWithin[n + 1] = [h \in Heap |-> [r \in Holder |->
                   NestingUsing(NestingWithin[n], h, r)]]
    <2>1. n + 1 \in Nat /\ n + 1 # 0 /\ (n + 1) - 1 = n
      OBVIOUS
    <2> QED
      BY <2>1, <1>7
  <1> DEFINE P == {n \in Nat : NestingWithin[n] \in S}
  <1>9. 0 \in P
    <2>1. NestingWithin[0] = [h \in Heap |-> [r \in Holder |->
              IF 0 = 0 THEN 0 ELSE NestingUsing(NestingWithin[0 - 1], h, r)]]
      BY <1>7
    <2>2. NestingWithin[0] = [h \in Heap |-> [r \in Holder |-> 0]]
      BY <2>1
    <2> QED
      BY <2>2
  <1>10. ASSUME NEW n \in P
         PROVE  n + 1 \in P
    <2>1. PICK D \in S : D = NestingWithin[n]
      OBVIOUS
    <2>2. NestingWithin[n + 1] = [h \in Heap |-> [r \in Holder |-> NestingUsing(D, h, r)]]
      BY <1>8, <2>1
    <2>3. \A h \in Heap, r \in Holder : NestingUsing(D, h, r) \in Nat
      BY NestingTyped
    <2>4. NestingWithin[n + 1] \in S
      BY ONLY <2>2, <2>3
    <2> QED
      BY <2>4
  <1>11. P \in SUBSET Nat
    OBVIOUS
  <1> HIDE DEF P
  <1>12. \A n \in Nat : n \in P
    BY <1>9, <1>10, <1>11, AllNumbers
  <1>13. \A n \in Nat : NestingWithin[n] \in S
    BY <1>12 DEF P
  <1>14. ASSUME NEW n \in Nat, NEW h \in Heap, NEW r \in Holder
         PROVE  NestingWithin[n + 1][h][r] = NestingUsing(NestingWithin[n], h, r)
    <2>1. PICK D, E : D = NestingWithin[n] /\ E = NestingWithin[n + 1]
      OBVIOUS
    <2>2. E = [e \in Heap |-> [q \in Holder |-> NestingUsing(D, e, q)]]
      BY <1>8, <2>1
    <2>3. E[h][r] = NestingUsing(D, h, r)
      BY ONLY <2>2, h \in Heap, r \in Holder
    <2> QED
      BY <2>1, <2>3
  <1>15. ASSUME NEW h \in Heap, NEW r \in Holder
         PROVE  NestingWithin[0][h][r] = 0
    <2>1. NestingWithin[0] = [e \in Heap |-> [q \in Holder |->
              IF 0 = 0 THEN 0 ELSE NestingUsing(NestingWithin[0 - 1], e, q)]]
      BY <1>7
    <2>2. NestingWithin[0] = [e \in Heap |-> [q \in Holder |-> 0]]
      BY <2>1
    <2> QED
      BY <2>2
  <1> QED
    BY <1>13, <1>14, <1>15

LEMMA LeastFree ==
    ASSUME NEW h, FreeReps(h) # {}
    PROVE  Min(FreeReps(h)) \in Rep /\ h.functor[Min(FreeReps(h))] = "free"
  <1>1. PICK S : S = FreeReps(h)
    OBVIOUS
  <1>2. S \in SUBSET Rep /\ S \in SUBSET Nat /\ S # {}
    BY <1>1 DEF FreeReps, Rep
  <1>3. \E x \in S : \A y \in S : x <= y
    BY <1>2, LeastOf
  <1>4. Min(S) \in S
    BY <1>3 DEF Min
  <1> QED
    BY <1>1, <1>2, <1>4 DEF FreeReps

LEMMA CloneTyped ==
    ASSUME NEW D \in [Heap -> [Holder -> [Holder -> Heap]]], NEW h \in Heap,
           NEW src \in Holder, h.rep[src] # Null, NEW r \in Rep
    PROVE  CloneUsing(D, h, src, r) \in Heap
  <1> USE Sorts
  <1>1. PICK q : q = h.rep[src]
    OBVIOUS
  <1>a. h.rep[src] \in Rep \cup {Null}
    BY HeapFields
  <1>2. q \in Rep /\ q \in Holder /\ r \in Holder
    BY ONLY <1>1, <1>a, h.rep[src] # Null, r \in Rep, Sorts
  <1>3. PICK f : f = h.functor[q]
    OBVIOUS
  <1>4. f \in Object \cup Slot \cup {"inner", "gone", "free"}
    <2>1. h.functor \in [Rep -> Object \cup Slot \cup {"inner", "gone", "free"}]
      BY HeapFields
    <2> QED
      BY ONLY <2>1, <1>2, <1>3
  <1>5. PICK t : t = Taken(h, r)
    OBVIOUS
  <1>6. t \in Heap
    BY <1>5, TakenFields
  <1>7. PICK k : k = IF f = "inner" THEN D[t][r][q] ELSE t
    OBVIOUS
  <1>8. k \in Heap
    BY <1>2, <1>6, <1>7
  <1>9. NewRep(k, r, f) \in Heap
    BY <1>4, <1>8, NewRepFields
  <1> QED
    BY <1>1, <1>3, <1>5, <1>7, <1>9 DEF CloneUsing

LEMMA CopyTyped ==
    ASSUME NEW D \in [Heap -> [Holder -> [Holder -> Heap]]], NEW h \in Heap,
           NEW dst \in Holder, NEW src \in Holder
    PROVE  CopyUsing(D, h, dst, src) \in Heap
  <1> USE Sorts
  <1>1. \A b : Copied(h, dst, Null, b) \in Heap
    BY CopiedFields
  <1>2. CASE h.rep[src] = Null \/ Empty(h, src)
    BY <1>1, <1>2 DEF CopyUsing
  <1>3. CASE h.rep[src] # Null /\ ~Empty(h, src) /\ FreeReps(h) = {}
    BY <1>3, MisuseFields DEF CopyUsing
  <1>4. CASE h.rep[src] # Null /\ ~Empty(h, src) /\ FreeReps(h) # {}
    <2>1. PICK r \in Rep : r = Min(FreeReps(h))
      BY <1>4, LeastFree
    <2>2. PICK k : k = CloneUsing(D, h, src, r)
      OBVIOUS
    <2>3. k \in Heap
      BY <1>4, <2>2, CloneTyped
    <2>4. \A b : Copied(k, dst, r, b) \in Heap
      BY <2>3, CopiedFields
    <2> QED
      BY <1>4, <2>1, <2>2, <2>4 DEF CopyUsing
  <1> QED
    BY <1>2, <1>3, <1>4

LEMMA CopyUnfolds ==
    /\ \A n \in Nat : CopyWithin[n] \in [Heap -> [Holder -> [Holder -> Heap]]]
    /\ \A n \in Nat, h \in Heap, dst \in Holder, src \in Holder :
          CopyWithin[n + 1][h][dst][src] = CopyUsing(CopyWithin[n], h, dst, src)
    /\ \A h \in Heap, dst \in Holder, src \in Holder :
          CopyWithin[0][h][dst][src] = Misuse(h)
  <1> DEFINE S == [Heap -> [Holder -> [Holder -> Heap]]]
             s0 == [h \in Heap |-> [dst \in Holder |-> [src \in Holder |-> Misuse(h)]]]
             F == [D \in S |-> [h \in Heap |-> [dst \in Holder |-> [src \in Holder |-> CopyUsing(D, h, dst, src)]]]]
  <1>1. s0 \in S
    BY MisuseFields
  <1>2. F \in [S -> S]
    BY CopyTyped
  <1>3. \E g \in [Nat -> S] : g[0] = s0 /\ \A n \in Nat : g[n + 1] = F[g[n]]
    <2> HIDE DEF S, s0, F
    <2> QED
      BY <1>1, <1>2, Recursion
  <1>4. PICK g \in [Nat -> S] : g[0] = s0 /\ \A n \in Nat : g[n + 1] = F[g[n]]
    BY <1>3
  <1>5. g = [n \in Nat |-> [h \in Heap |-> [dst \in Holder |-> [src \in Holder |->
              IF n = 0 THEN Misuse(h) ELSE CopyUsing(g[n - 1], h, dst, src)]]]]
    <2>1. ASSUME NEW n \in Nat
          PROVE  g[n] = [h \in Heap |-> [dst \in Holder |-> [src \in Holder |->
                    IF n = 0 THEN Misuse(h) ELSE CopyUsing(g[n - 1], h, dst, src)]]]
      <3>1. CASE n = 0
        BY <1>4, <3>1
      <3>2. CASE n # 0
        <4>1. n - 1 \in Nat /\ (n - 1) + 1 = n
          BY <3>2
        <4>2. g[n] = F[g[n - 1]]
          BY <1>4, <4>1
        <4>3. g[n - 1] \in S
          BY <1>4, <4>1
        <4> QED
          BY <3>2, <4>2, <4>3
      <3> QED
        BY <3>1, <3>2
    <2> QED
      BY <2>1
  <1>6. CopyWithin = [n \in Nat |-> [h \in Heap |-> [dst \in Holder |-> [src \in Holder |->
              IF n = 0 THEN Misuse(h) ELSE CopyUsing(CopyWithin[n - 1], h, dst, src)]]]]
    <2> HIDE DEF S, s0, F
    <2> QED
      BY <1>5 DEF CopyWithin
  <1> HIDE DEF s0, F
  <1>7. \A n \in Nat : CopyWithin[n] = [h \in Heap |-> [dst \in Holder |-> [src \in Holder |->
              IF n = 0 THEN Misuse(h) ELSE CopyUsing(CopyWithin[n - 1], h, dst, src)]]]
    BY <1>6
  <1>8. ASSUME NEW n \in Nat
        PROVE  CopyWithin[n + 1] = [h \in Heap |-> [dst \in Holder |-> [src \in Holder |->
                   CopyUsing(CopyWithin[n], h, dst, src)]]]
    <2>1. n + 1 \in Nat /\ n + 1 # 0 /\ (n + 1) - 1 = n
      OBVIOUS
    <2> QED
      BY <2>1, <1>7
  <1> DEFINE P == {n \in Nat : CopyWithin[n] \in S}
  <1>9. 0 \in P
    <2>1. CopyWithin[0] = [h \in Heap |-> [dst \in Holder |-> [src \in Holder |->
              IF 0 = 0 THEN Misuse(h) ELSE CopyUsing(CopyWithin[0 - 1], h, dst, src)]]]
      BY <1>7
    <2>2. CopyWithin[0] = [h \in Heap |-> [dst \in Holder |-> [src \in Holder |-> Misuse(h)]]]
      BY <2>1
    <2> QED
      BY <2>2, MisuseFields
  <1>10. ASSUME NEW n \in P
         PROVE  n + 1 \in P
    <2>1. PICK D \in S : D = CopyWithin[n]
      OBVIOUS
    <2>2. CopyWithin[n + 1] = [h \in Heap |-> [dst \in Holder |-> [src \in Holder |-> CopyUsing(D, h, dst, src)]]]
      BY <1>8, <2>1
    <2>3. \A h \in Heap, dst \in Holder, src \in Holder : CopyUsing(D, h, dst, src) \in Heap
      BY CopyTyped
    <2>4. CopyWithin[n + 1] \in S
      BY ONLY <2>2, <2>3
    <2> QED
      BY <2>4
  <1>11. P \in SUBSET Nat
    OBVIOUS
  <1> HIDE DEF P
  <1>12. \A n \in Nat : n \in P
    BY <1>9, <1>10, <1>11, AllNumbers
  <1>13. \A n \in Nat : CopyWithin[n] \in S
    BY <1>12 DEF P
  <1>14. ASSUME NEW n \in Nat, NEW h \in Heap, NEW dst \in Holder, NEW src \in Holder
         PROVE  CopyWithin[n + 1][h][dst][src] = CopyUsing(CopyWithin[n], h, dst, src)
    <2>1. PICK D, E : D = CopyWithin[n] /\ E = CopyWithin[n + 1]
      OBVIOUS
    <2>2. E = [e \in Heap |-> [d \in Holder |-> [s \in Holder |-> CopyUsing(D, e, d, s)]]]
      <3>1. CopyWithin[n + 1] = [e \in Heap |-> [d \in Holder |-> [s \in Holder |->
                CopyUsing(CopyWithin[n], e, d, s)]]]
        BY ONLY <1>8, n \in Nat
      <3> QED
        BY ONLY <3>1, <2>1
    <2>3. E[h][dst][src] = CopyUsing(D, h, dst, src)
      BY ONLY <2>2, h \in Heap, dst \in Holder, src \in Holder
    <2> QED
      BY <2>1, <2>3
  <1>15. ASSUME NEW h \in Heap, NEW dst \in Holder, NEW src \in Holder
         PROVE  CopyWithin[0][h][dst][src] = Misuse(h)
    <2>1. PICK E : E = CopyWithin[0]
      OBVIOUS
    <2>2. E = [e \in Heap |-> [d \in Holder |-> [s \in Holder |->
              IF 0 = 0 THEN Misuse(e) ELSE CopyUsing(CopyWithin[0 - 1], e, d, s)]]]
      BY <1>7, <2>1
    <2>3. E[h][dst][src] = Misuse(h)
      BY ONLY <2>2, h \in Heap, dst \in Holder, src \in Holder
    <2> QED
      BY <2>1, <2>3
  <1> QED
    BY <1>13, <1>14, <1>15

\* Heaps with the same reps that can be called have the same nesting.
LEMMA NestingSame ==
    ASSUME NEW h \in Heap, NEW k \in Heap, k.rep = h.rep, k.call = h.call,
           \A q \in h.call : k.functor[q] = h.functor[q]
    PROVE  \A n \in Nat, s \in Holder : NestingWithin[n][k][s] = NestingWithin[n][h][s]
  <1> DEFINE P == {n \in Nat : \A s \in Holder : NestingWithin[n][k][s] = NestingWithin[n][h][s]}
  <1>1. 0 \in P
    BY NestingUnfolds
  <1>2. ASSUME NEW n \in P
        PROVE  n + 1 \in P
    <2>1. n \in Nat /\ \A s \in Holder : NestingWithin[n][k][s] = NestingWithin[n][h][s]
      OBVIOUS
    <2>2. PICK W : W = NestingWithin[n]
      OBVIOUS
    <2>3. ASSUME NEW s \in Holder
          PROVE  NestingUsing(W, k, s) = NestingUsing(W, h, s)
      <3>1. Empty(k, s) <=> Empty(h, s)
        BY DEF Empty
      <3>2. CASE Empty(h, s)
        BY <3>1, <3>2 DEF NestingUsing
      <3>3. CASE ~Empty(h, s)
        <4>1. PICK q : q = h.rep[s]
          OBVIOUS
        <4>2. q \in h.call /\ k.functor[q] = h.functor[q]
          BY <3>3, <4>1 DEF Empty
        <4>3. q \in Holder
          BY <4>2, HeapFields, Sorts
        <4>4. W[k][q] = W[h][q]
          BY <2>1, <2>2, <4>3
        <4> QED
          BY ONLY <3>1, <3>3, <4>1, <4>2, <4>4, k.rep = h.rep DEF NestingUsing
      <3> QED
        BY <3>2, <3>3
    <2>4. \A s \in Holder : NestingWithin[n + 1][k][s] = NestingWithin[n + 1][h][s]
      BY <2>1, <2>2, <2>3, NestingUnfolds
    <2> QED
      BY <2>1, <2>4
  <1>3. P \in SUBSET Nat
    OBVIOUS
  <1> HIDE DEF P
  <1>4. \A n \in Nat : n \in P
    BY <1>1, <1>2, <1>3, AllNumbers
  <1> QED
    BY <1>4 DEF P

\* A nesting that is smaller than the bound is the real one.
LEMMA NestingStable ==
    ASSUME NEW h \in Heap
    PROVE  \A n \in Nat, s \in Holder : NestingWithin[n][h][s] < n =>
               NestingWithin[n + 1][h][s] = NestingWithin[n][h][s]
  <1> DEFINE P == {n \in Nat : \A s \in Holder : NestingWithin[n][h][s] < n =>
                      NestingWithin[n + 1][h][s] = NestingWithin[n][h][s]}
  <1>1. 0 \in P
    <2>1. \A s \in Holder : NestingWithin[0][h][s] \in Nat
      BY NestingUnfolds
    <2> QED
      BY <2>1
  <1>2. ASSUME NEW n \in P
        PROVE  n + 1 \in P
    <2>1. n \in Nat /\ \A s \in Holder : NestingWithin[n][h][s] < n =>
              NestingWithin[n + 1][h][s] = NestingWithin[n][h][s]
      OBVIOUS
    <2>2. PICK V : V = NestingWithin[n]
      OBVIOUS
    <2>3. PICK W : W = NestingWithin[n + 1]
      OBVIOUS
    <2>4. \A s \in Holder : V[h][s] \in Nat /\ W[h][s] \in Nat
      BY <2>1, <2>2, <2>3, NestingUnfolds
    <2>5. ASSUME NEW s \in Holder, NestingUsing(V, h, s) < n + 1
          PROVE  NestingUsing(W, h, s) = NestingUsing(V, h, s)
      <3>1. CASE Empty(h, s)
        BY <3>1 DEF NestingUsing
      <3>2. CASE ~Empty(h, s)
        <4>1. PICK q : q = h.rep[s]
          OBVIOUS
        <4>2. q \in Holder
          BY <3>2, <4>1, HeapFields, Sorts DEF Empty
        <4>3. h.functor[q] = "inner" => NestingUsing(V, h, s) = 1 + V[h][q]
          BY <3>2, <4>1 DEF NestingUsing
        <4>4. h.functor[q] = "inner" => V[h][q] < n
          BY <2>1, <2>4, <2>5, <4>2, <4>3
        <4>5. h.functor[q] = "inner" => W[h][q] = V[h][q]
          BY <2>1, <2>2, <2>3, <4>2, <4>4
        <4> QED
          BY ONLY <3>2, <4>1, <4>5 DEF NestingUsing
      <3> QED
        BY <3>1, <3>2
    <2>6. n + 1 \in Nat
      BY <2>1
    <2>7. \A s \in Holder : NestingWithin[n + 1][h][s] = NestingUsing(V, h, s)
      BY <2>1, <2>2, NestingUnfolds
    <2>8. \A s \in Holder : NestingWithin[(n + 1) + 1][h][s] = NestingUsing(W, h, s)
      BY <2>3, <2>6, NestingUnfolds
    <2> QED
      BY <2>5, <2>6, <2>7, <2>8
  <1>3. P \in SUBSET Nat
    OBVIOUS
  <1> HIDE DEF P
  <1>4. \A n \in Nat : n \in P
    BY <1>1, <1>2, <1>3, AllNumbers
  <1> QED
    BY <1>4 DEF P

LEMMA TakenFree ==
    ASSUME NEW h \in Heap, NEW r \in Rep, h.functor[r] = "free", NEW g, g = Taken(h, r)
    PROVE  /\ Cardinality(FreeReps(g)) \in Nat
           /\ Cardinality(FreeReps(h)) = Cardinality(FreeReps(g)) + 1
  <1>1. \A q \in Rep : g.functor[q] = IF q = r THEN "gone" ELSE h.functor[q]
    BY TakenFields
  <1>2. FreeReps(g) = FreeReps(h) \ {r}
    <2>1. \A q : q \in FreeReps(g) <=> q \in FreeReps(h) /\ q # r
      BY <1>1 DEF FreeReps
    <2> QED
      BY <2>1
  <1>3. FreeReps(h) \in SUBSET Rep /\ r \in FreeReps(h)
    BY DEF FreeReps
  <1>4. IsFiniteSet(FreeReps(h)) /\ Cardinality(FreeReps(h)) \in Nat
    BY <1>3, RepsFinite
  <1>5. Cardinality(FreeReps(h) \ {r}) = Cardinality(FreeReps(h)) - 1
    BY <1>3, <1>4, FS_RemoveElement
  <1>6. FreeReps(g) \in SUBSET Rep
    BY DEF FreeReps
  <1>7. Cardinality(FreeReps(g)) \in Nat
    BY <1>6, RepsFinite
  <1> QED
    BY <1>2, <1>4, <1>5, <1>7

-----------------------------------------------------------------------------
(***************************************************************************)
(* What a copy leaves alone, and what the copied functors refer to.        *)
(***************************************************************************)
\* A call of the slot at src leads to the slot f.
Led(h, src, f) ==
    /\ \E x \in Rep : h.functor[x] = f
    /\ \A L \in SUBSET Holder : Closed(h, L) /\ src \in L => f \in L

\* g is h with new reps, which refer to what the slot at src leads to.
Grown(h, src, g) ==
    /\ h \in Heap /\ g \in Heap
    /\ Told(g, {}) /\ (Conns(h) => Conns(g))
    /\ g.alive = h.alive /\ g.listed = h.listed /\ g.dead = h.dead
    /\ \A q \in Rep : h.functor[q] # "free" =>
          g.functor[q] = h.functor[q] /\ (q \in g.call <=> q \in h.call)
    /\ \A q \in Rep : h.functor[q] = "free" /\ g.functor[q] \in Slot =>
          Led(h, src, g.functor[q])

\* The slots that were there have the reps that they had.
Kept(h, g, dst) ==
    \A s \in Holder \ {dst} : s \in Slot \/ h.functor[s] # "free" => g.rep[s] = h.rep[s]

\* There are reps for the slots that are nested in the one at src, and calls.
Roomy(h, src, n) ==
    /\ Cardinality(FreeReps(h)) < n
    /\ NestingWithin[n][h][src] <= Cardinality(FreeReps(h))

Copying(h, U, dst, src) ==
    /\ Inv(h, U, {}, {}) /\ Told(h, {}) /\ src \in Holder
    /\ dst \in Holder /\ Vacant(h, U, dst)

\* What the copy of the slot at src to dst makes of h.
CopyMade(h, U, dst, src, g) ==
    /\ Inv(g, U, {}, {}) /\ Grown(h, src, g) /\ Kept(h, g, dst)
    /\ g.rep[dst] # Null =>
          /\ h.functor[g.rep[dst]] = "free"
          /\ g.rep[dst] \in g.call /\ g.parent[g.rep[dst]] = Null

\* What the clone r of the rep that src holds makes of h.
CloneMade(h, U, src, r, g) ==
    /\ Inv(g, U \cup {r}, {}, {}) /\ Grown(h, src, g) /\ Kept(h, g, r)
    /\ r \in Rep /\ h.functor[r] = "free" /\ Complete(g, {r})
    /\ r \in g.call /\ g.parent[r] = Null

CopyWorks(n) ==
    \A h \in Heap, U \in SUBSET Rep, dst \in Holder, src \in Holder :
        Copying(h, U, dst, src) /\ Roomy(h, src, n)
            => CopyMade(h, U, dst, src, CopyWithin[n][h][dst][src])

\* The memory of a clone is taken, and the slot in its functor copied.
Halfway(h, U, src, r, k) ==
    /\ Inv(k, U \cup {r}, {}, {}) /\ Grown(h, src, k) /\ Kept(h, k, r)
    /\ r \in Rep /\ h.functor[r] = "free" /\ k.functor[r] = "gone"
    /\ k.rep[r] # Null =>
          /\ h.functor[h.rep[src]] = "inner"
          /\ k.rep[r] \in k.call /\ k.parent[k.rep[r]] = Null

LEMMA CloneHalfway ==
    ASSUME NEW n \in Nat, CopyWorks(n), NEW h, NEW U, NEW src \in Holder,
           Inv(h, U, {}, {}), Told(h, {}), ~Empty(h, src),
           Roomy(h, src, n + 1), NEW r \in Rep, h.functor[r] = "free",
           NEW f, f = h.functor[h.rep[src]], NEW t, t = Taken(h, r),
           NEW k, k = IF f = "inner" THEN CopyWithin[n][t][r][h.rep[src]] ELSE t
    PROVE  Halfway(h, U, src, r, k)
  <1> USE Sorts
  <1>1. h \in Heap
    BY DEF Inv
  <1>2. PICK q : q = h.rep[src]
    OBVIOUS
  <1>3. q \in h.call
    BY <1>2 DEF Empty
  <1>4. q \in Rep /\ q \in Holder /\ r \in Holder
    BY <1>1, <1>3, HeapFields
  <1>5. /\ Inv(t, U \cup {r}, {}, {}) /\ Told(t, {}) /\ (Conns(h) => Conns(t))
    BY TakenKeeps
  <1>6. /\ t \in Heap
        /\ \A x \in Rep : t.functor[x] = IF x = r THEN "gone" ELSE h.functor[x]
        /\ t.call = h.call /\ t.rep = h.rep /\ t.alive = h.alive /\ t.listed = h.listed
        /\ t.dead = h.dead
    BY ONLY <1>1, r \in Rep, t = Taken(h, r), TakenFields
  <1>7. /\ r \notin U /\ h.rep[r] = Null /\ r \notin h.call
        /\ \A s \in Holder : h.rep[s] # r
    BY FreeAlone
  <1>8. "gone" \notin Slot /\ "gone" # "free" /\ "gone" # "inner"
    OBVIOUS
  <1>9. CASE f # "inner"
    <2>1. k = t
      BY <1>9
    <2>2. Grown(h, src, k)
      <3>1. \A x \in Rep : h.functor[x] # "free" => t.functor[x] = h.functor[x]
        BY <1>6
      <3>2. \A x \in Rep : h.functor[x] = "free" => t.functor[x] \notin Slot
        BY <1>6, <1>8
      <3> QED
        BY ONLY <1>1, <1>5, <1>6, <2>1, <3>1, <3>2 DEF Grown
    <2>3. Kept(h, k, r)
      BY ONLY <1>6, <2>1 DEF Kept
    <2> QED
      BY ONLY <1>4, <1>5, <1>6, <1>7, <2>1, <2>2, <2>3, r \in Rep, h.functor[r] = "free" DEF Halfway
  <1>10. CASE f = "inner"
    <2>1. k = CopyWithin[n][t][r][q]
      BY <1>2, <1>10
    <2>2. Copying(t, U \cup {r}, r, q)
      BY <1>4, <1>5, <1>6, <1>7 DEF Copying, Vacant
    <2>3. Roomy(t, q, n)
      <3>1. NestingWithin[n + 1][h][src] = 1 + NestingWithin[n][h][q]
        <4>1. PICK W : W = NestingWithin[n]
          OBVIOUS
        <4>2. NestingWithin[n + 1][h][src] = NestingUsing(W, h, src)
          BY <1>1, <4>1, NestingUnfolds
        <4>3. NestingUsing(W, h, src) = 1 + W[h][q]
          BY ONLY <1>2, <1>10, ~Empty(h, src), f = h.functor[h.rep[src]] DEF NestingUsing
        <4> QED
          BY <4>1, <4>2, <4>3
      <3>2. NestingWithin[n][t][q] = NestingWithin[n][h][q]
        <4>1. \A x \in h.call : t.functor[x] = h.functor[x]
          BY <1>1, <1>6, <1>7, HeapFields
        <4> QED
          BY <1>1, <1>4, <1>6, <4>1, NestingSame
      <3>3. /\ Cardinality(FreeReps(t)) \in Nat
            /\ Cardinality(FreeReps(h)) = Cardinality(FreeReps(t)) + 1
        BY <1>1, TakenFree
      <3>4. NestingWithin[n][h][q] \in Nat
        BY <1>1, <1>4, NestingUnfolds
      <3>5. /\ Cardinality(FreeReps(h)) < n + 1
            /\ NestingWithin[n + 1][h][src] <= Cardinality(FreeReps(h))
        BY DEF Roomy
      <3>6. /\ Cardinality(FreeReps(t)) < n
            /\ NestingWithin[n][t][q] <= Cardinality(FreeReps(t))
        BY ONLY n \in Nat, <3>1, <3>2, <3>3, <3>4, <3>5
      <3> QED
        BY <3>6 DEF Roomy
    <2>4. U \cup {r} \in SUBSET Rep
      BY DEF Inv, Owned
    <2>5. CopyMade(t, U \cup {r}, r, q, k)
      BY ONLY <1>4, <1>6, <2>1, <2>2, <2>3, <2>4, CopyWorks(n) DEF CopyWorks
    <2>6. /\ Inv(k, U \cup {r}, {}, {}) /\ Grown(t, q, k) /\ Kept(t, k, r)
          /\ k.rep[r] # Null =>
                k.rep[r] \in k.call /\ k.parent[k.rep[r]] = Null
      BY <2>5 DEF CopyMade
    <2>7. k.functor[r] = "gone"
      BY <1>6, <1>8, <2>6 DEF Grown
    <2>8. Kept(h, k, r)
      BY ONLY <1>4, <1>6, <2>6 DEF Kept, Holder
    <2>9. Grown(h, src, k)
      <3>1. ASSUME NEW x \in Rep, h.functor[x] # "free"
            PROVE  k.functor[x] = h.functor[x] /\ (x \in k.call <=> x \in h.call)
        <4>1. t.functor[x] = h.functor[x]
          BY <1>6, <3>1
        <4> QED
          BY ONLY <1>6, <2>6, <3>1, <4>1 DEF Grown
      <3>2. ASSUME NEW x \in Rep, h.functor[x] = "free", k.functor[x] \in Slot
            PROVE  Led(h, src, k.functor[x])
        <4>1. x # r
          BY <2>7, <1>8, <3>2
        <4>2. t.functor[x] = "free"
          BY <1>6, <3>2, <4>1
        <4>3. Led(t, q, k.functor[x])
          BY ONLY <2>6, <3>2, <4>2 DEF Grown
        <4>4. \E y \in Rep : h.functor[y] = k.functor[x]
          <5>1. PICK y \in Rep : t.functor[y] = k.functor[x]
            BY <4>3 DEF Led
          <5>2. y # r
            BY <1>6, <1>8, <3>2, <5>1
          <5> QED
            BY <1>6, <5>1, <5>2
        <4>5. ASSUME NEW L \in SUBSET Holder, Closed(h, L), src \in L
              PROVE  k.functor[x] \in L
          <5>1. q \in L
            BY <1>2, <1>3, <1>4, <1>10, <4>5 DEF Closed
          <5>2. Closed(t, L)
            <6>1. ASSUME NEW s \in L, h.rep[s] # Null
                  PROVE  t.functor[h.rep[s]] = h.functor[h.rep[s]]
              <7>1. h.rep[s] # r
                BY <1>7
              <7>2. h.rep[s] \in Rep \cup {Null}
                BY <1>1, HeapFields
              <7> QED
                BY <1>6, <6>1, <7>1, <7>2
            <6> QED
              BY ONLY <1>6, <4>5, <6>1 DEF Closed
          <5> QED
            BY <4>3, <5>1, <5>2 DEF Led
        <4> QED
          BY <4>4, <4>5 DEF Led
      <3> QED
        BY ONLY <1>1, <1>5, <1>6, <2>6, <3>1, <3>2 DEF Grown
    <2> QED
      BY ONLY <1>10, <2>6, <2>7, <2>8, <2>9, r \in Rep, h.functor[r] = "free",
              f = h.functor[h.rep[src]] DEF Halfway
  <1> QED
    BY <1>9, <1>10

LEMMA CloneFinished ==
    ASSUME NEW h, NEW U, NEW src \in Holder, Inv(h, U, {}, {}), ~Empty(h, src),
           NEW r, NEW k, Halfway(h, U, src, r, k),
           NEW f, f = h.functor[h.rep[src]], NEW g, g = NewRep(k, r, f)
    PROVE  CloneMade(h, U, src, r, g)
  <1> USE Sorts
  <1>1. h \in Heap
    BY DEF Inv
  <1>2. PICK q : q = h.rep[src]
    OBVIOUS
  <1>3. q \in h.call /\ q \in Rep
    BY <1>1, <1>2, HeapFields DEF Empty
  <1>4. f \notin h.dead \cup {"gone", "free"}
    BY <1>2, <1>3 DEF Inv, Callable
  <1>5. f \in Object \cup Slot \cup {"inner", "gone", "free"}
    <2>1. h.functor \in [Rep -> Object \cup Slot \cup {"inner", "gone", "free"}]
      BY <1>1, HeapFields
    <2> QED
      BY ONLY <1>2, <1>3, <2>1, f = h.functor[h.rep[src]]
  <1>6. f \in Slot => f \in h.alive \ h.listed
    BY ONLY <1>2, <1>3, Inv(h, U, {}, {}), f = h.functor[h.rep[src]] DEF Inv, Refers
  <1>7. /\ Inv(k, U \cup {r}, {}, {}) /\ Grown(h, src, k) /\ Kept(h, k, r)
        /\ r \in Rep /\ h.functor[r] = "free" /\ k.functor[r] = "gone"
        /\ k.rep[r] # Null =>
              f = "inner" /\ k.rep[r] \in k.call /\ k.parent[k.rep[r]] = Null
    BY DEF Halfway
  <1>8. /\ Told(k, {}) /\ (Conns(h) => Conns(k))
        /\ k.alive = h.alive /\ k.listed = h.listed /\ k.dead = h.dead
        /\ \A x \in Rep : h.functor[x] # "free" =>
              k.functor[x] = h.functor[x] /\ (x \in k.call <=> x \in h.call)
        /\ \A x \in Rep : h.functor[x] = "free" /\ k.functor[x] \in Slot =>
              Led(h, src, k.functor[x])
    BY <1>7 DEF Grown
  <1>9. Fitting(k, r, f)
    BY ONLY <1>4, <1>5, <1>6, <1>7, <1>8 DEF Fitting
  <1>10. /\ Inv(g, U \cup {r}, {}, {}) /\ Told(g, {}) /\ (Conns(k) => Conns(g))
         /\ g.functor = [k.functor EXCEPT ![r] = f] /\ g.call = k.call \cup {r}
         /\ g.rep = k.rep /\ g.alive = k.alive /\ g.listed = k.listed /\ g.dead = k.dead
         /\ g.parent[r] = Null
    <2>1. r \in U \cup {r}
      OBVIOUS
    <2> QED
      BY <1>7, <1>8, <1>9, <2>1, NewRepKeeps
  <1>11. \A x \in Rep : g.functor[x] = IF x = r THEN f ELSE k.functor[x]
    <2>1. k \in Heap
      BY <1>7 DEF Inv
    <2>2. k.functor \in [Rep -> Object \cup Slot \cup {"inner", "gone", "free"}]
      BY <2>1, HeapFields
    <2> QED
      BY ONLY <1>10, <2>2
  <1>12. Kept(h, g, r)
    BY ONLY <1>7, <1>10 DEF Kept
  <1>13. Complete(g, {r})
    BY ONLY <1>7, <1>10, <1>11 DEF Complete
  <1>14. Grown(h, src, g)
    <2>1. ASSUME NEW x \in Rep, h.functor[x] # "free"
          PROVE  g.functor[x] = h.functor[x] /\ (x \in g.call <=> x \in h.call)
      <3>1. x # r
        BY <1>7, <2>1
      <3> QED
        BY ONLY <1>8, <1>10, <1>11, <2>1, <3>1
    <2>2. ASSUME NEW x \in Rep, h.functor[x] = "free", g.functor[x] \in Slot
          PROVE  Led(h, src, g.functor[x])
      <3>1. CASE x # r
        BY ONLY <1>8, <1>11, <2>2, <3>1
      <3>2. CASE x = r
        <4>1. f \in Slot /\ g.functor[x] = f
          BY <1>11, <2>2, <3>2
        <4>2. \A L \in SUBSET Holder : Closed(h, L) /\ src \in L => f \in L
          BY <1>2, <1>3, <4>1 DEF Closed
        <4> QED
          BY ONLY <1>2, <1>3, <4>1, <4>2, f = h.functor[h.rep[src]] DEF Led
      <3> QED
        BY <3>1, <3>2
    <2>3. g \in Heap
      BY <1>10 DEF Inv
    <2> QED
      BY ONLY <1>1, <1>8, <1>10, <2>1, <2>2, <2>3 DEF Grown
  <1> QED
    BY <1>7, <1>10, <1>12, <1>13, <1>14 DEF CloneMade

\* One call of the copy constructor, if those that it makes do what they should.
LEMMA CopyStep ==
    ASSUME NEW n \in Nat, CopyWorks(n)
    PROVE  CopyWorks(n + 1)
  <1> USE Sorts
  <1> SUFFICES ASSUME NEW h \in Heap, NEW U \in SUBSET Rep, NEW dst \in Holder, NEW src \in Holder,
                      Copying(h, U, dst, src), Roomy(h, src, n + 1)
               PROVE  CopyMade(h, U, dst, src, CopyWithin[n + 1][h][dst][src])
    BY DEF CopyWorks
  <1>1. PICK W : W = CopyWithin[n]
    OBVIOUS
  <1>2. PICK g : g = CopyUsing(W, h, dst, src)
    OBVIOUS
  <1>3. CopyWithin[n + 1][h][dst][src] = g
    BY <1>1, <1>2, CopyUnfolds
  <1> SUFFICES CopyMade(h, U, dst, src, g)
    BY <1>3
  <1>4. Inv(h, U, {}, {}) /\ Told(h, {}) /\ Vacant(h, U, dst)
    BY DEF Copying
  <1>5. h.rep[dst] = Null
    BY <1>4 DEF Vacant
  <1>6. ASSUME NEW b, g = Copied(h, dst, Null, b)
        PROVE  CopyMade(h, U, dst, src, g)
    <2>1. /\ g \in Heap
          /\ \A s \in Holder : g.rep[s] = IF s = dst THEN Null ELSE h.rep[s]
          /\ g.call = h.call /\ g.parent = h.parent /\ g.watch = h.watch
          /\ g.functor = h.functor /\ g.alive = h.alive /\ g.told = h.told
          /\ g.conn = h.conn /\ g.dead = h.dead /\ g.listed = h.listed
          /\ g.misused = h.misused
      <3>1. h \in Heap /\ Null \in Rep \cup {Null}
        BY <1>4 DEF Inv
      <3> QED
        BY ONLY <3>1, <1>6, dst \in Holder, CopiedFields
    <2>2. g.rep = h.rep
      <3>1. \A s \in Holder : g.rep[s] = h.rep[s]
        BY <1>5, <2>1
      <3>2. g.rep \in [Holder -> Rep \cup {Null}] /\ h.rep \in [Holder -> Rep \cup {Null}]
        BY <2>1, HeapFields
      <3> QED
        BY ONLY <3>1, <3>2
    <2>3. Alike(h, g)
      BY <2>1, <2>2 DEF Alike
    <2>4. Inv(g, U, {}, {}) /\ Told(g, {}) /\ (Conns(h) => Conns(g))
      BY <1>4, <2>3, AlikeKeeps
    <2>5. Grown(h, src, g)
      BY ONLY <2>1, <2>4, h \in Heap, Sorts DEF Grown
    <2>6. Kept(h, g, dst) /\ g.rep[dst] = Null
      BY ONLY <1>5, <2>2 DEF Kept
    <2> QED
      BY <2>4, <2>5, <2>6 DEF CopyMade
  <1>7. CASE h.rep[src] = Null
    <2>1. g = Copied(h, dst, Null, src \in h.blocked)
      BY ONLY <1>2, <1>7 DEF CopyUsing
    <2> QED
      BY ONLY <2>1, <1>6
  <1>8. CASE h.rep[src] # Null /\ Empty(h, src)
    <2>1. g = Copied(h, dst, Null, FALSE)
      BY ONLY <1>2, <1>8 DEF CopyUsing
    <2> QED
      BY ONLY <2>1, <1>6
  <1>9. CASE h.rep[src] # Null /\ ~Empty(h, src)
    <2>1. FreeReps(h) # {}
      <3>1. NestingUsing(NestingWithin[n], h, src) # 0
        <4>1. PICK N : N = NestingWithin[n]
          OBVIOUS
        <4>2. h.rep[src] \in Holder
          <5>1. h.rep[src] \in Rep \cup {Null}
            BY <1>4, HeapFields DEF Inv
          <5> QED
            BY ONLY <1>9, <5>1, Sorts
        <4>3. N[h][h.rep[src]] \in Nat
          BY <4>1, <4>2, NestingUnfolds
        <4>4. NestingUsing(N, h, src) # 0
          BY ONLY <1>9, <4>3 DEF NestingUsing
        <4> QED
          BY <4>1, <4>4
      <3>2. NestingWithin[n + 1][h][src] # 0 /\ NestingWithin[n + 1][h][src] \in Nat
        BY <3>1, NestingUnfolds
      <3>3. FreeReps(h) = {} => Cardinality(FreeReps(h)) = 0
        BY FS_EmptySet
      <3>4. FreeReps(h) \in SUBSET Rep
        BY DEF FreeReps
      <3>5. Cardinality(FreeReps(h)) \in Nat
        BY <3>4, RepsFinite
      <3> QED
        BY <3>2, <3>3, <3>5 DEF Roomy
    <2>2. PICK r \in Rep : r = Min(FreeReps(h)) /\ h.functor[r] = "free"
      BY <2>1, LeastFree
    <2>3. PICK f : f = h.functor[h.rep[src]]
      OBVIOUS
    <2>4. PICK t : t = Taken(h, r)
      OBVIOUS
    <2>5. PICK k : k = IF f = "inner" THEN W[t][r][h.rep[src]] ELSE t
      OBVIOUS
    <2>6. PICK m : m = NewRep(k, r, f)
      OBVIOUS
    <2>7. g = Copied(m, dst, r, src \in h.blocked)
      <3>1. m = CloneUsing(W, h, src, r)
        BY ONLY <2>3, <2>4, <2>5, <2>6 DEF CloneUsing
      <3> QED
        BY ONLY <1>2, <1>9, <2>1, <2>2, <3>1 DEF CopyUsing
    <2>8. Halfway(h, U, src, r, k)
      BY <1>1, <1>4, <1>9, <2>2, <2>3, <2>4, <2>5, CloneHalfway
    <2>9. CloneMade(h, U, src, r, m)
      BY <1>4, <1>9, <2>3, <2>6, <2>8, CloneFinished
    <2>10. /\ Inv(m, U \cup {r}, {}, {}) /\ Grown(h, src, m) /\ Kept(h, m, r)
           /\ Complete(m, {r}) /\ r \in m.call /\ m.parent[r] = Null
      BY <2>9 DEF CloneMade
    <2>11. /\ m \in Heap /\ Told(m, {}) /\ (Conns(h) => Conns(m))
           /\ m.alive = h.alive /\ m.listed = h.listed /\ m.dead = h.dead
           /\ \A q \in Rep : h.functor[q] # "free" =>
                 m.functor[q] = h.functor[q] /\ (q \in m.call <=> q \in h.call)
           /\ \A q \in Rep : h.functor[q] = "free" /\ m.functor[q] \in Slot =>
                 Led(h, src, m.functor[q])
      BY <2>10 DEF Grown
    <2>12. r \notin U /\ h.rep[r] = Null
      BY <1>4, <2>2, FreeAlone
    <2>13. (U \cup {r}) \ {r} = U
      BY <2>12
    <2>14. dst # r
      BY ONLY <1>4, <2>2, <2>12, Sorts DEF Vacant
    <2>15. Vacant(m, U, dst)
      <3>1. h.functor[dst] = "free" => dst \in Slot
        BY ONLY <1>4, Sorts DEF Vacant
      <3>2. m.rep[dst] = Null
        BY <1>5, <2>10, <2>14, <3>1 DEF Kept
      <3>3. CASE dst \in Slot
        <4>1. dst \in h.alive /\ \A q \in Rep : h.functor[q] # dst
          BY <1>4, <3>3, Sorts DEF Vacant
        <4>2. \A q \in Rep : m.functor[q] # dst
          <5>1. \A q \in Rep : h.functor[q] # "free" => m.functor[q] # dst
            BY <2>11, <4>1
          <5>2. \A q \in Rep : h.functor[q] = "free" => m.functor[q] # dst
            BY ONLY <2>11, <3>3, <4>1 DEF Led
          <5> QED
            BY <5>1, <5>2
        <4> QED
          BY <2>11, <3>2, <3>3, <4>1, <4>2 DEF Vacant
      <3>4. CASE dst \notin Slot
        BY ONLY <1>4, <2>11, <3>2, <3>4, Sorts DEF Vacant
      <3> QED
        BY <3>3, <3>4
    <2>16. r \in U \cup {r}
      OBVIOUS
    <2>17. Inv(g, U, {}, {}) /\ Told(g, {}) /\ (Conns(m) => Conns(g))
      BY <2>7, <2>10, <2>11, <2>13, <2>15, <2>16, CopiedKeeps
    <2>18. /\ g \in Heap
           /\ \A s \in Holder : g.rep[s] = IF s = dst THEN r ELSE m.rep[s]
           /\ g.call = m.call /\ g.parent = m.parent /\ g.functor = m.functor
           /\ g.alive = m.alive /\ g.dead = m.dead /\ g.listed = m.listed
      BY <2>7, <2>11, CopiedFields
    <2>19. Grown(h, src, g)
      BY ONLY <2>11, <2>17, <2>18, h \in Heap DEF Grown
    <2>20. Kept(h, g, dst)
      <3>1. ASSUME NEW s \in Holder \ {dst}, s \in Slot \/ h.functor[s] # "free"
            PROVE  g.rep[s] = h.rep[s]
        <4>1. s # r
          BY <2>2, <3>1, Sorts
        <4>2. m.rep[s] = h.rep[s]
          BY <2>10, <3>1, <4>1 DEF Kept
        <4> QED
          BY <2>18, <4>2
      <3> QED
        BY <3>1 DEF Kept
    <2> QED
      BY ONLY <2>2, <2>10, <2>17, <2>18, <2>19, <2>20, dst \in Holder DEF CopyMade
  <1> QED
    BY <1>7, <1>8, <1>9

LEMMA CopyAlways ==
    \A n \in Nat : CopyWorks(n)
  <1> DEFINE P == {n \in Nat : CopyWorks(n)}
  <1>1. 0 \in P
    <2>1. ASSUME NEW h \in Heap, NEW src \in Holder
          PROVE  ~Roomy(h, src, 0)
      <3>1. FreeReps(h) \in SUBSET Rep
        BY DEF FreeReps
      <3>2. Cardinality(FreeReps(h)) \in Nat
        BY <3>1, RepsFinite
      <3> QED
        BY <3>2 DEF Roomy
    <2>2. CopyWorks(0)
      BY <2>1 DEF CopyWorks
    <2> QED
      BY <2>2
  <1>2. ASSUME NEW n \in P
        PROVE  n + 1 \in P
    <2>1. n \in Nat /\ CopyWorks(n)
      OBVIOUS
    <2>2. CopyWorks(n + 1)
      BY <2>1, CopyStep
    <2> QED
      BY <2>1, <2>2
  <1>3. P \in SUBSET Nat
    OBVIOUS
  <1> HIDE DEF P
  <1>4. \A n \in Nat : n \in P
    BY <1>1, <1>2, <1>3, AllNumbers
  <1> QED
    BY <1>4 DEF P

\* There is room for a copy: MaxCalls are enough.
LEMMA RoomEnough ==
    ASSUME NEW h \in Heap, NEW s \in Holder, Nesting(h, s) <= Cardinality(FreeReps(h))
    PROVE  Roomy(h, s, MaxCalls) /\ Roomy(h, s, MaxCalls + 1)
  <1>1. FreeReps(h) \in SUBSET Rep
    BY DEF FreeReps
  <1>2. Cardinality(FreeReps(h)) \in Nat /\ Cardinality(FreeReps(h)) < MaxCalls
    BY <1>1, RepsFinite
  <1>3. MaxCalls \in Nat
    BY Sorts
  <1>4. NestingWithin[MaxCalls][h][s] \in Nat
    BY <1>3, NestingUnfolds
  <1>5. NestingWithin[MaxCalls][h][s] <= Cardinality(FreeReps(h))
    BY DEF Nesting
  <1>6. NestingWithin[MaxCalls][h][s] < MaxCalls
    BY ONLY <1>2, <1>3, <1>4, <1>5
  <1>7. NestingWithin[MaxCalls + 1][h][s] = NestingWithin[MaxCalls][h][s]
    BY <1>3, <1>6, NestingStable
  <1>8. Cardinality(FreeReps(h)) < MaxCalls + 1
    BY ONLY <1>2, <1>3
  <1> QED
    BY <1>2, <1>5, <1>7, <1>8 DEF Roomy

\* slot_base(const slot_base&)
LEMMA CopyKeeps ==
    ASSUME NEW h, NEW U, NEW dst, NEW src, Copying(h, U, dst, src),
           Nesting(h, src) <= Cardinality(FreeReps(h)), NEW g, g = CopySlot(h, dst, src)
    PROVE  CopyMade(h, U, dst, src, g)
  <1>1. h \in Heap /\ U \in SUBSET Rep /\ dst \in Holder /\ src \in Holder
    BY DEF Copying, Inv, Owned
  <1>2. Roomy(h, src, MaxCalls)
    BY <1>1, RoomEnough
  <1>3. CopyWorks(MaxCalls)
    BY CopyAlways, Sorts
  <1> QED
    BY ONLY <1>1, <1>2, <1>3, Copying(h, U, dst, src), g = CopySlot(h, dst, src) DEF CopyWorks, CopySlot

\* typed_slot_rep::clone()
LEMMA CloneKeeps ==
    ASSUME NEW h, NEW U, NEW src \in Holder, Inv(h, U, {}, {}), Told(h, {}), ~Empty(h, src),
           Nesting(h, src) <= Cardinality(FreeReps(h)),
           NEW r \in Rep, h.functor[r] = "free", NEW g, g = Clone(h, src, r)
    PROVE  CloneMade(h, U, src, r, g)
  <1>1. h \in Heap
    BY DEF Inv
  <1>2. Roomy(h, src, MaxCalls + 1)
    BY <1>1, RoomEnough
  <1>3. CopyWorks(MaxCalls) /\ MaxCalls \in Nat
    BY CopyAlways, Sorts
  <1>4. PICK n \in Nat : n = MaxCalls
    BY <1>3
  <1>5. PICK f : f = h.functor[h.rep[src]]
    OBVIOUS
  <1>6. PICK t : t = Taken(h, r)
    OBVIOUS
  <1>7. PICK k : k = IF f = "inner" THEN CopyWithin[n][t][r][h.rep[src]] ELSE t
    OBVIOUS
  <1>8. g = NewRep(k, r, f)
    BY ONLY <1>4, <1>5, <1>6, <1>7, g = Clone(h, src, r) DEF Clone, CloneUsing
  <1>9. Halfway(h, U, src, r, k)
    BY <1>2, <1>3, <1>4, <1>5, <1>6, <1>7, CloneHalfway
  <1> QED
    BY <1>5, <1>8, <1>9, CloneFinished

-----------------------------------------------------------------------------
(***************************************************************************)
(* A rep changes hands.                                                    *)
(***************************************************************************)
LEMMA StealFields ==
    ASSUME NEW h \in Heap, NEW src \in Holder, NEW r \in Rep, h.rep[src] = r,
           NEW g, g = Steal(h, src)
    PROVE  /\ g \in Heap
           /\ \A s \in Holder : g.rep[s] = IF s = src THEN Null ELSE h.rep[s]
           /\ \A q \in Rep : g.told[q] = IF q = r THEN {} ELSE h.told[q]
           /\ \A c \in Conn : g.conn[c] = IF c \in h.told[r] THEN Null ELSE h.conn[c]
           /\ g.call = h.call /\ g.parent = h.parent /\ g.watch = h.watch
           /\ g.functor = h.functor /\ g.alive = h.alive
           /\ g.dead = h.dead /\ g.listed = h.listed /\ g.misused = h.misused
  <1> USE Sorts
  <1>1. PICK n : n = NotifyConnections(h, r)
    OBVIOUS
  <1>2. g = [n EXCEPT !.rep[src] = Null, !.blocked = @ \ {src}]
    BY <1>1 DEF Steal
  <1>3. /\ n \in Heap
        /\ n.told = [h.told EXCEPT ![r] = {}]
        /\ n.conn = [c \in Conn |-> IF c \in h.told[r] THEN Null ELSE h.conn[c]]
        /\ n.rep = h.rep /\ n.blocked = h.blocked
        /\ n.alive = h.alive /\ n.call = h.call /\ n.functor = h.functor
        /\ n.parent = h.parent /\ n.watch = h.watch
        /\ n.dead = h.dead /\ n.listed = h.listed /\ n.misused = h.misused
    BY ONLY <1>1, h \in Heap, r \in Rep, NotifyFields
  <1>a. /\ [n.rep EXCEPT ![src] = Null] \in [Holder -> Rep \cup {Null}]
        /\ n.blocked \ {src} \in SUBSET Holder
    BY <1>3, HeapFields
  <1>4. g \in Heap
    BY ONLY <1>2, <1>3, <1>a DEF Heap
  <1>5. /\ g.rep = [n.rep EXCEPT ![src] = Null]
        /\ g.told = n.told /\ g.conn = n.conn
        /\ g.functor = n.functor /\ g.parent = n.parent /\ g.alive = n.alive
        /\ g.call = n.call /\ g.watch = n.watch /\ g.dead = n.dead
        /\ g.listed = n.listed /\ g.misused = n.misused
    BY ONLY <1>2, <1>3 DEF Heap
  <1>6. h.rep \in [Holder -> Rep \cup {Null}] /\ h.told \in [Rep -> SUBSET Conn]
    BY HeapFields
  <1> QED
    BY ONLY <1>3, <1>4, <1>5, <1>6

\* A rep that nobody has to tell is taken from its slot.
LEMMA StealKeeps ==
    ASSUME NEW h, Inv(h, {}, {}, {}), Told(h, {}), NEW src \in Holder, NEW r \in Rep,
           h.rep[src] = r, h.parent[r] = Null, NEW g, g = Steal(h, src)
    PROVE  Inv(g, {r}, {}, {}) /\ Told(g, {}) /\ (Conns(h) => Conns(g)) /\ Complete(g, {r})
  <1> USE Sorts
  <1>1. h \in Heap
    BY DEF Inv
  <1>2. /\ g \in Heap
        /\ \A s \in Holder : g.rep[s] = IF s = src THEN Null ELSE h.rep[s]
        /\ \A q \in Rep : g.told[q] = IF q = r THEN {} ELSE h.told[q]
        /\ \A c \in Conn : g.conn[c] = IF c \in h.told[r] THEN Null ELSE h.conn[c]
        /\ g.call = h.call /\ g.parent = h.parent /\ g.watch = h.watch
        /\ g.functor = h.functor /\ g.alive = h.alive
        /\ g.dead = h.dead /\ g.listed = h.listed /\ g.misused = h.misused
    BY ONLY <1>1, src \in Holder, r \in Rep, h.rep[src] = r, g = Steal(h, src), StealFields
  <1>3. /\ ~h.misused /\ Watching(h) /\ Owned(h, {}) /\ Acyclic(h) /\ Refers(h) /\ Parents(h)
        /\ Callable(h, {}) /\ Nested(h, {})
    BY DEF Inv
  <1>a. \A q, t \in Rep : Edge(g, q, t) <=> Edge(h, q, t) /\ t # r
    <2>1. ASSUME NEW q \in Rep, NEW t \in Rep
          PROVE  Edge(g, q, t) <=> Edge(h, q, t) /\ t # r
      <3>1. \A s \in Holder : g.rep[s] = t <=> h.rep[s] = t /\ t # r
        <4>1. t # Null
          BY Sorts
        <4>2. \A s \in Holder : h.rep[s] = r => s = src
          BY <1>3 DEF Owned
        <4> QED
          BY ONLY <1>2, <4>1, <4>2, h.rep[src] = r
      <3>2. q \in Holder /\ g.functor[q] = h.functor[q]
        BY <1>2
      <3>3. h.functor[q] \in Slot => h.functor[q] \in Holder
        BY Sorts
      <3> QED
        BY ONLY <3>1, <3>2, <3>3 DEF Edge
    <2> QED
      BY <2>1
  <1>4. \A q, t \in Rep : Edge(g, q, t) => Edge(h, q, t)
    BY ONLY <1>a
  <1>5. \A q, t \in Rep : Edge(h, q, t) /\ t # r => Edge(g, q, t)
    BY ONLY <1>a
  <1>6. Owned(g, {r})
    <2>1. \A s, t \in Holder : g.rep[s] # Null /\ g.rep[s] = g.rep[t] => s = t
      BY <1>2, <1>3 DEF Owned
    <2>2. \A s \in Holder : g.rep[s] # Null =>
              g.functor[g.rep[s]] # "free" /\ g.rep[s] \notin {r}
      BY <1>2, <1>3 DEF Owned
    <2>3. \A q \in Rep : g.functor[q] = "free" \/ q \in {r} \/ \E s \in Holder : g.rep[s] = q
      BY <1>2, <1>3 DEF Owned
    <2>4. \A s \in Slot : g.rep[s] # Null => s \in g.alive
      BY <1>2, <1>3 DEF Owned
    <2>5. \A s \in Rep : g.rep[s] # Null => g.functor[s] = "inner" \/ s \in {r}
      BY <1>2, <1>3 DEF Owned
    <2>6. g.functor[r] # "free"
      BY <1>2, <1>3 DEF Owned
    <2> QED
      BY <2>1, <2>2, <2>3, <2>4, <2>5, <2>6 DEF Owned
  <1>7. Acyclic(g)
    BY ONLY <1>3, <1>4 DEF Acyclic
  <1>8. Watching(g) /\ Refers(g) /\ Callable(g, {})
    BY ONLY <1>2, <1>3 DEF Watching, Refers, Callable
  <1>9. Parents(g)
    <2>1. ASSUME NEW q \in Rep, g.parent[q] # Null
          PROVE  /\ g.functor[q] # "free"
                 /\ g.parent[q] \in Rep => Edge(g, g.parent[q], q)
                 /\ g.parent[q] \in Slot => g.rep[g.parent[q]] = q /\ g.parent[q] \in g.listed
      <3>1. q # r /\ h.parent[q] # Null /\ g.parent[q] = h.parent[q]
        BY <1>2, <2>1
      <3>2. /\ h.functor[q] # "free"
            /\ h.parent[q] \in Rep => Edge(h, h.parent[q], q)
            /\ h.parent[q] \in Slot => h.rep[h.parent[q]] = q /\ h.parent[q] \in h.listed
        BY ONLY <1>3, <3>1, q \in Rep DEF Parents
      <3>3. h.parent[q] \in Slot => h.parent[q] # src
        BY <3>1, <3>2
      <3>4. h.parent[q] \in Slot => g.rep[h.parent[q]] = h.rep[h.parent[q]]
        BY <1>2, <3>3
      <3>5. h.parent[q] \in Rep => Edge(g, h.parent[q], q)
        BY ONLY <1>5, <3>1, <3>2, q \in Rep
      <3> QED
        BY ONLY <1>2, <3>1, <3>2, <3>4, <3>5
    <2> QED
      BY <2>1 DEF Parents
  <1>10. Nested(g, {}) /\ Complete(g, {r})
    <2>1. \A q \in h.call : q \in Rep /\ q \in Holder
      BY <1>1, HeapFields
    <2>2. Nested(g, {})
      BY ONLY <1>2, <1>3, <2>1 DEF Nested
    <2>3. h.rep[r] # Null => h.functor[r] = "inner"
      BY <1>3 DEF Owned
    <2>4. g.rep[r] # Null => g.functor[r] = "inner"
      BY <1>2, <2>3
    <2> QED
      BY ONLY <2>2, <2>4 DEF Complete
  <1>11. Told(g, {})
    <2>1. h.listed \in SUBSET Slot
      BY <1>1, HeapFields
    <2>2. ASSUME NEW s \in g.listed
          PROVE  g.rep[s] # Null /\ g.parent[g.rep[s]] = s
      <3>1. s \in Slot /\ s \in Holder /\ s \in h.listed /\ s # Null
        BY <1>2, <2>1
      <3>2. h.rep[s] # Null /\ h.parent[h.rep[s]] = s
        BY <3>1 DEF Told
      <3>3. s # src
        BY <3>1, <3>2
      <3> QED
        BY ONLY <1>2, <3>1, <3>2, <3>3
    <2> QED
      BY <2>2 DEF Told
  <1>12. ASSUME Conns(h)
         PROVE  Conns(g)
    <2>1. ASSUME NEW c \in Conn, g.conn[c] # Null
          PROVE  g.rep[g.conn[c]] # Null
      <3>1. c \notin h.told[r] /\ g.conn[c] = h.conn[c]
        BY <1>2, <2>1
      <3>2. h.rep[h.conn[c]] # Null /\ h.rep[h.conn[c]] # r
        BY <1>12, <2>1, <3>1 DEF Conns
      <3>3. h.conn[c] \in Slot \cup {Null}
        BY <1>1, HeapFields
      <3> QED
        <4>1. h.conn[c] \in Holder /\ h.conn[c] # src
          BY <2>1, <3>1, <3>2, <3>3
        <4> QED
          BY ONLY <1>2, <3>1, <3>2, <4>1
    <2>2. ASSUME NEW c \in Conn, NEW q \in Rep
          PROVE  c \in g.told[q] <=> g.conn[c] # Null /\ g.rep[g.conn[c]] = q
      <3>1. h.conn[c] \in Slot \cup {Null}
        BY <1>1, HeapFields
      <3>2. /\ c \in h.told[q] <=> h.conn[c] # Null /\ h.rep[h.conn[c]] = q
            /\ c \in h.told[r] <=> h.conn[c] # Null /\ h.rep[h.conn[c]] = r
        BY ONLY <1>12, c \in Conn, q \in Rep, r \in Rep DEF Conns
      <3>3. /\ g.told[q] = IF q = r THEN {} ELSE h.told[q]
            /\ g.conn[c] = IF c \in h.told[r] THEN Null ELSE h.conn[c]
            /\ h.conn[c] # Null =>
                  g.rep[h.conn[c]] = IF h.conn[c] = src THEN Null ELSE h.rep[h.conn[c]]
        BY ONLY <1>2, <3>1, c \in Conn, q \in Rep, Sorts
      <3> QED
        BY ONLY <3>2, <3>3, q \in Rep, h.rep[src] = r, Sorts
    <2> QED
      BY <2>1, <2>2 DEF Conns
  <1> QED
    BY <1>2, <1>3, <1>6, <1>7, <1>8, <1>9, <1>10, <1>11, <1>12 DEF Inv

\* R has r, and all that a call of it leads to, which is not the slot dst.
Apart(h, r, dst, R) ==
    /\ R \in SUBSET Rep /\ r \in R
    /\ \A q \in R, t \in Rep : Edge(h, q, t) => t \in R
    /\ \A q \in R : h.functor[q] # dst

\* The slot at dst, which has no rep, is given r, with the parent p.
Filling(h, dst, r, p, g) ==
    /\ Inv(h, {r}, {}, {}) /\ Told(h, {dst}) /\ Complete(h, {r})
    /\ dst \in Slot /\ dst \in h.alive /\ h.rep[dst] = Null
    /\ \/ p = Null /\ dst \notin h.listed
       \/ p = dst /\ dst \in h.listed
       \/ p \in Rep /\ h.functor[p] = dst
    /\ g \in Heap
    /\ \A s \in Holder : g.rep[s] = IF s = dst THEN r ELSE h.rep[s]
    /\ \A q \in Rep : g.parent[q] = IF q = r THEN p ELSE h.parent[q]
    /\ g.call = h.call /\ g.functor = h.functor /\ g.alive = h.alive /\ g.watch = h.watch
    /\ g.told = h.told /\ g.conn = h.conn
    /\ g.dead = h.dead /\ g.listed = h.listed /\ g.misused = h.misused

LEMMA FillKeeps ==
    ASSUME NEW h, NEW dst, NEW r, NEW p, NEW g, Filling(h, dst, r, p, g),
           NEW R, Apart(h, r, dst, R)
    PROVE  Inv(g, {}, {}, {}) /\ Told(g, {}) /\ (Conns(h) => Conns(g))
  <1> USE Sorts
  <1>1. h \in Heap /\ Inv(h, {r}, {}, {})
    BY DEF Filling, Inv
  <1>2. /\ r \in Rep /\ h.functor[r] # "free" /\ h.parent[r] = Null
        /\ \A s \in Holder : h.rep[s] # r
        /\ \A q \in Rep : ~Edge(h, q, r)
    <2>1. r \in {r}
      OBVIOUS
    <2> QED
      BY ONLY <1>1, <2>1, Unowned
  <1>3. /\ ~h.misused /\ Watching(h) /\ Owned(h, {r}) /\ Acyclic(h) /\ Refers(h) /\ Parents(h)
        /\ Callable(h, {}) /\ Nested(h, {})
    BY <1>1 DEF Inv
  <1>4. /\ Told(h, {dst}) /\ dst \in Slot /\ dst \in Holder /\ dst \in h.alive /\ h.rep[dst] = Null
        /\ \/ p = Null /\ dst \notin h.listed
           \/ p = dst /\ dst \in h.listed
           \/ p \in Rep /\ h.functor[p] = dst
        /\ h.rep[r] # Null => h.functor[r] = "inner"
    BY DEF Filling, Complete
  <1>5. /\ g \in Heap
        /\ \A s \in Holder : g.rep[s] = IF s = dst THEN r ELSE h.rep[s]
        /\ \A q \in Rep : g.parent[q] = IF q = r THEN p ELSE h.parent[q]
        /\ g.call = h.call /\ g.functor = h.functor /\ g.alive = h.alive /\ g.watch = h.watch
        /\ g.told = h.told /\ g.conn = h.conn
        /\ g.dead = h.dead /\ g.listed = h.listed /\ g.misused = h.misused
    BY DEF Filling
  <1>6. \A q, t \in Rep : Edge(g, q, t) <=> Edge(h, q, t) \/ (h.functor[q] = dst /\ t = r)
    <2>1. ASSUME NEW q \in Rep, NEW t \in Rep
          PROVE  Edge(g, q, t) <=> Edge(h, q, t) \/ (h.functor[q] = dst /\ t = r)
      <3>1. q # dst /\ g.rep[q] = h.rep[q]
        BY <1>4, <1>5
      <3>2. h.functor[q] \in Slot =>
                g.rep[h.functor[q]] = IF h.functor[q] = dst THEN r ELSE h.rep[h.functor[q]]
        BY <1>5
      <3>3. g.functor[q] = h.functor[q]
        BY <1>5
      <3>4. t # Null /\ h.rep[dst] = Null /\ dst # "inner"
        BY <1>4
      <3> QED
        BY ONLY <3>1, <3>2, <3>3, <3>4, <1>4 DEF Edge
    <2> QED
      BY <2>1
  <1>7. /\ R \in SUBSET Rep /\ r \in R
        /\ \A q \in R, t \in Rep : Edge(h, q, t) => t \in R
        /\ \A q \in R : h.functor[q] # dst
    BY DEF Apart
  <1>8. Acyclic(g)
    <2>1. ASSUME NEW S \in SUBSET Rep, S # {}
          PROVE  \E x \in S : \A q \in S : ~Edge(g, q, x)
      <3>1. CASE S \ R # {}
        <4>1. PICK x \in S \ R : \A q \in S \ R : ~Edge(h, q, x)
          BY <1>3, <3>1 DEF Acyclic
        <4>2. ASSUME NEW q \in S
              PROVE  ~Edge(g, q, x)
          <5>1. x \in Rep /\ q \in Rep /\ x # r
            BY <1>7, <4>1
          <5>2. Edge(g, q, x) => Edge(h, q, x)
            BY ONLY <1>6, <5>1
          <5>3. q \in R => ~Edge(h, q, x)
            BY ONLY <1>7, <4>1, <5>1
          <5> QED
            BY ONLY <4>1, <5>2, <5>3, q \in S
        <4> QED
          BY <4>1, <4>2
      <3>2. CASE S \subseteq R
        <4>1. PICK x \in S : \A q \in S : ~Edge(h, q, x)
          BY <1>3, <2>1 DEF Acyclic
        <4>2. \A q \in S : ~Edge(g, q, x)
          BY ONLY <1>6, <1>7, <3>2, <4>1
        <4> QED
          BY <4>1, <4>2
      <3> QED
        BY <3>1, <3>2
    <2> QED
      BY <2>1 DEF Acyclic
  <1>9. Owned(g, {})
    <2>1. \A s, t \in Holder : g.rep[s] # Null /\ g.rep[s] = g.rep[t] => s = t
      BY ONLY <1>2, <1>3, <1>5 DEF Owned
    <2>2. \A s \in Holder : g.rep[s] # Null => g.functor[g.rep[s]] # "free"
      BY ONLY <1>2, <1>3, <1>5 DEF Owned
    <2>3. ASSUME NEW q \in Rep, g.functor[q] # "free"
          PROVE  \E s \in Holder : g.rep[s] = q
      <3>1. CASE q = r
        BY <1>4, <1>5, <3>1
      <3>2. CASE q # r
        <4>1. PICK s \in Holder : h.rep[s] = q
          BY ONLY <1>3, <1>5, <2>3, <3>2, q \in Rep DEF Owned
        <4>2. s # dst
          BY <1>4, <4>1
        <4> QED
          BY <1>5, <4>1, <4>2
      <3> QED
        BY <3>1, <3>2
    <2>4. \A s \in Slot : g.rep[s] # Null => s \in g.alive
      BY ONLY <1>3, <1>4, <1>5, Sorts DEF Owned
    <2>5. \A s \in Rep : g.rep[s] # Null => g.functor[s] = "inner"
      BY ONLY <1>3, <1>4, <1>5, Sorts DEF Owned
    <2> QED
      BY <2>1, <2>2, <2>3, <2>4, <2>5 DEF Owned
  <1>10. Watching(g) /\ Refers(g) /\ Callable(g, {})
    BY ONLY <1>3, <1>5 DEF Watching, Refers, Callable
  <1>11. Parents(g)
    <2>1. ASSUME NEW q \in Rep, g.parent[q] # Null
          PROVE  /\ g.functor[q] # "free"
                 /\ g.parent[q] \in Rep => Edge(g, g.parent[q], q)
                 /\ g.parent[q] \in Slot => g.rep[g.parent[q]] = q /\ g.parent[q] \in g.listed
      <3>1. CASE q = r
        <4>1. g.parent[q] = p /\ g.functor[q] # "free" /\ g.rep[dst] = r
          BY <1>2, <1>4, <1>5, <3>1
        <4>2. p # Null
          BY <2>1, <4>1
        <4>3. p \in Rep => h.functor[p] = dst
          BY <1>4, <4>2
        <4>4. p \in Slot => p = dst /\ dst \in g.listed
          BY <1>4, <1>5, <4>2
        <4> QED
          BY ONLY <1>6, <3>1, <4>1, <4>3, <4>4, q \in Rep
      <3>2. CASE q # r
        <4>1. g.parent[q] = h.parent[q] /\ h.parent[q] # Null
          BY <1>5, <2>1, <3>2
        <4>2. /\ h.functor[q] # "free"
              /\ h.parent[q] \in Rep => Edge(h, h.parent[q], q)
              /\ h.parent[q] \in Slot => h.rep[h.parent[q]] = q /\ h.parent[q] \in h.listed
          BY ONLY <1>3, <4>1, q \in Rep DEF Parents
        <4>3. h.parent[q] \in Slot => h.parent[q] # dst
          BY <1>4, <4>2, q \in Rep
        <4>4. h.parent[q] \in Slot => g.rep[h.parent[q]] = h.rep[h.parent[q]]
          BY <1>5, <4>3
        <4>5. h.parent[q] \in Rep => Edge(g, h.parent[q], q)
          BY ONLY <1>6, <4>2, q \in Rep
        <4> QED
          BY ONLY <1>5, <4>1, <4>2, <4>4, <4>5
      <3> QED
        BY <3>1, <3>2
    <2> QED
      BY <2>1 DEF Parents
  <1>12. Nested(g, {})
    <2>1. ASSUME NEW q \in g.call, g.functor[q] = "inner", g.rep[q] # Null
          PROVE  g.rep[q] \in g.call /\ g.parent[g.rep[q]] = q
      <3>1. q \in Rep
        BY <1>5, HeapFields
      <3>2. g.rep[q] = h.rep[q] /\ h.rep[q] # r
        BY <1>2, <1>4, <1>5, <3>1
      <3>3. h.rep[q] \in h.call /\ h.parent[h.rep[q]] = q
        BY ONLY <1>3, <1>5, <2>1, <3>2 DEF Nested
      <3>4. h.rep[q] \in Rep
        BY <1>1, <3>3, HeapFields
      <3> QED
        BY ONLY <1>5, <3>2, <3>3, <3>4
    <2> QED
      BY <2>1 DEF Nested
  <1>13. Told(g, {})
    <2>1. ASSUME NEW s \in g.listed
          PROVE  g.rep[s] # Null /\ g.parent[g.rep[s]] = s
      <3>1. s \in Slot /\ s \in Holder /\ s \in h.listed
        BY <1>1, <1>5, HeapFields
      <3>2. CASE s = dst
        <4>1. p = dst
          <5>1. p \notin Rep
            <6>1. \A q \in Rep : h.functor[q] # dst
              BY <1>3, <1>4, <3>1, <3>2 DEF Refers
            <6>2. dst \notin Rep
              BY <1>4
            <6> QED
              BY ONLY <1>4, <3>1, <3>2, <6>1, <6>2, Sorts
          <5> QED
            BY <1>4, <3>1, <3>2, <5>1
        <4> QED
          BY <1>2, <1>5, <3>1, <3>2, <4>1
      <3>3. CASE s # dst
        <4>1. h.rep[s] # Null /\ h.parent[h.rep[s]] = s
          BY <1>4, <3>1, <3>3 DEF Told
        <4>2. h.rep[s] \in Rep \cup {Null}
          BY <1>1, <3>1, HeapFields
        <4> QED
          BY ONLY <1>2, <1>5, <3>1, <3>3, <4>1, <4>2
      <3> QED
        BY <3>2, <3>3
    <2> QED
      BY <2>1 DEF Told
  <1>14. ASSUME Conns(h)
         PROVE  Conns(g)
    <2>1. ASSUME NEW c \in Conn
          PROVE  /\ h.conn[c] \in Slot \cup {Null} /\ h.conn[c] # dst
                 /\ h.conn[c] # Null => g.rep[h.conn[c]] = h.rep[h.conn[c]]
      <3>1. h.conn[c] \in Slot \cup {Null}
        BY <1>1, HeapFields
      <3>2. h.conn[c] # dst
        BY <1>4, <1>14 DEF Conns
      <3> QED
        BY <1>5, <3>1, <3>2
    <2> QED
      BY ONLY <1>5, <1>14, <2>1 DEF Conns
  <1> QED
    BY <1>3, <1>5, <1>8, <1>9, <1>10, <1>11, <1>12, <1>13, <1>14 DEF Inv

\* The old rep of dst is deleted, after the new one has got its parent: m is the
\* heap without that parent.
Exchanging(h, r, dst, old, p, h1, d, m) ==
    /\ Inv(h, {r}, {}, {}) /\ Told(h, {}) /\ Complete(h, {r})
    /\ r \in Rep /\ dst \in Slot /\ old \in Rep /\ h.rep[dst] = old
    /\ p = h.parent[old] /\ h1 = [h EXCEPT !.parent[r] = p]
    /\ d = DeleteRep(h1, old) /\ m = [d EXCEPT !.parent[r] = Null]

ExchangeRel(h, r, dst, old, p, d, m) ==
    /\ Deleted(h, {r}, {}, {}, dst, old, m) /\ d \in Heap
    /\ \A q \in Rep : m.parent[q] = IF q = r THEN Null ELSE d.parent[q]
    /\ m.rep = d.rep /\ m.alive = d.alive /\ m.call = d.call
    /\ m.functor = d.functor /\ m.watch = d.watch /\ m.told = d.told
    /\ m.conn = d.conn /\ m.dead = d.dead /\ m.listed = d.listed
    /\ m.misused = d.misused /\ d.parent[r] = p
    /\ r \in h.call => r \in d.call

LEMMA ExchangeDeletes ==
    ASSUME NEW h, NEW r, NEW dst, NEW old, NEW p, NEW h1, NEW d, NEW m,
           Exchanging(h, r, dst, old, p, h1, d, m)
    PROVE  ExchangeRel(h, r, dst, old, p, d, m)
  <1> USE Sorts
  <1>0. /\ Inv(h, {r}, {}, {}) /\ Told(h, {}) /\ Complete(h, {r})
        /\ r \in Rep /\ dst \in Slot /\ old \in Rep /\ h.rep[dst] = old
        /\ p = h.parent[old] /\ h1 = [h EXCEPT !.parent[r] = p]
        /\ d = DeleteRep(h1, old) /\ m = [d EXCEPT !.parent[r] = Null]
    BY DEF Exchanging
  <1>a. h1 = [h EXCEPT !.parent[r] = p]
    BY <1>0
  <1>b. m = [d EXCEPT !.parent[r] = Null]
    BY <1>0
  <1>1. h \in Heap /\ Acyclic(h) /\ Owned(h, {r})
    BY <1>0 DEF Inv
  <1>2. /\ \A s \in Holder : h.rep[s] # r
        /\ \A q \in Rep : ~Edge(h, q, r)
        /\ h.parent[r] = Null
    <2>1. r \in {r}
      OBVIOUS
    <2> QED
      BY <1>0, <2>1, Unowned
  <1>3. old # r /\ h.functor[old] # "free"
    BY <1>0, <1>1 DEF Owned
  <1>4. /\ h1 \in Heap
        /\ \A q \in Rep : h1.parent[q] = IF q = r THEN p ELSE h.parent[q]
        /\ h1.rep = h.rep /\ h1.alive = h.alive /\ h1.call = h.call
        /\ h1.functor = h.functor /\ h1.watch = h.watch /\ h1.told = h.told
        /\ h1.conn = h.conn /\ h1.dead = h.dead /\ h1.listed = h.listed
        /\ h1.misused = h.misused /\ h1.defers = h.defers
    <2>1. p \in Holder \cup {Null}
      BY <1>0, <1>1, HeapFields
    <2>2. [h.parent EXCEPT ![r] = p] \in [Rep -> Holder \cup {Null}]
      BY <1>1, <2>1, HeapFields
    <2>3. h1 \in Heap
      BY ONLY <1>1, <2>2, <1>a DEF Heap
    <2>4. /\ h1.parent = [h.parent EXCEPT ![r] = p]
          /\ h1.rep = h.rep /\ h1.alive = h.alive /\ h1.call = h.call
          /\ h1.functor = h.functor /\ h1.watch = h.watch /\ h1.told = h.told
          /\ h1.conn = h.conn /\ h1.dead = h.dead /\ h1.listed = h.listed
          /\ h1.misused = h.misused /\ h1.defers = h.defers
      BY ONLY <1>1, <1>a DEF Heap
    <2>5. h.parent \in [Rep -> Holder \cup {Null}]
      BY <1>1, HeapFields
    <2> QED
      BY ONLY <2>3, <2>4, <2>5
  <1>5. \A q, t : Edge(h1, q, t) <=> Edge(h, q, t)
    BY <1>4 DEF Edge
  <1>6. Acyclic(h1)
    BY ONLY <1>1, <1>5 DEF Acyclic
  <1>7. Occupied(h1)
    <2>1. Occupied(h)
      BY <1>0, <1>1, OwnedOccupied DEF Complete
    <2> QED
      BY ONLY <1>4, <2>1 DEF Occupied
  <1>8. PICK C \in SUBSET Rep : Chain(h1, old, C) /\ Erased(h1, C, C, d)
    BY <1>0, <1>3, <1>4, <1>6, <1>7, DeleteErases
  <1>9. Chain(h, old, C)
    BY ONLY <1>4, <1>8 DEF Chain
  <1>10. r \notin C
    BY <1>2, <1>3, <1>9 DEF Chain
  <1>11. d \in Heap
    BY <1>8 DEF Erased
  <1>12. /\ m \in Heap
         /\ \A q \in Rep : m.parent[q] = IF q = r THEN Null ELSE d.parent[q]
         /\ m.rep = d.rep /\ m.alive = d.alive /\ m.call = d.call
         /\ m.functor = d.functor /\ m.watch = d.watch /\ m.told = d.told
         /\ m.conn = d.conn /\ m.dead = d.dead /\ m.listed = d.listed
         /\ m.misused = d.misused /\ m.defers = d.defers
    <2>1. d.parent \in [Rep -> Holder \cup {Null}]
      BY <1>11, HeapFields
    <2>2. [d.parent EXCEPT ![r] = Null] \in [Rep -> Holder \cup {Null}]
      BY <2>1
    <2>3. m \in Heap
      BY ONLY <1>11, <2>2, <1>b DEF Heap
    <2>4. /\ m.parent = [d.parent EXCEPT ![r] = Null]
          /\ m.rep = d.rep /\ m.alive = d.alive /\ m.call = d.call
          /\ m.functor = d.functor /\ m.watch = d.watch /\ m.told = d.told
          /\ m.conn = d.conn /\ m.dead = d.dead /\ m.listed = d.listed
          /\ m.misused = d.misused /\ m.defers = d.defers
      BY ONLY <1>11, <1>b DEF Heap
    <2> QED
      BY ONLY <2>1, <2>3, <2>4
  <1>13. \A q \in Rep : d.parent[q] =
             IF q \in C \/ (h1.parent[q] \in C /\ Edge(h1, h1.parent[q], q))
             THEN Null ELSE h1.parent[q]
    BY <1>8 DEF Erased
  <1>14. d.parent[r] = p
    <2>1. h1.parent[r] \in C => ~Edge(h1, h1.parent[r], r)
      BY <1>2, <1>5
    <2> QED
      BY ONLY <1>0, <1>4, <1>10, <1>13, <2>1
  <1>15. \A q \in Rep : m.parent[q] =
             IF q \in C \/ (h.parent[q] \in C /\ Edge(h, h.parent[q], q))
             THEN Null ELSE h.parent[q]
    <2>1. ASSUME NEW q \in Rep, q # r
          PROVE  m.parent[q] =
                     IF q \in C \/ (h.parent[q] \in C /\ Edge(h, h.parent[q], q))
                     THEN Null ELSE h.parent[q]
      BY ONLY <1>4, <1>5, <1>12, <1>13, <2>1
    <2>2. m.parent[r] = Null /\ h.parent[r] = Null
      BY <1>0, <1>2, <1>12
    <2> QED
      BY <2>1, <2>2
  <1>16. Erased(h, C, C, m)
    <2>1. \A o : Referring(h1, C, o) = Referring(h, C, o)
      BY <1>4 DEF Referring
    <2> QED
      BY ONLY <1>4, <1>8, <1>12, <1>15, <2>1 DEF Erased
  <1>17. Told(h, {dst})
    BY <1>0 DEF Told
  <1>18. Deleted(h, {r}, {}, {}, dst, old, m)
    BY <1>0, <1>9, <1>16, <1>17, ErasedDeleted
  <1>19. r \in h.call => r \in d.call
    BY <1>4, <1>8, <1>10 DEF Erased
  <1> QED
    BY <1>11, <1>12, <1>14, <1>18, <1>19 DEF ExchangeRel

\* "Silently exchange the slot_rep"
LEMMA ExchangeKeeps ==
    ASSUME NEW h, NEW r \in Rep, Inv(h, {r}, {}, {}), Told(h, {}), Complete(h, {r}),
           NEW dst \in Slot, dst \in h.alive, NEW R, Apart(h, r, dst, R),
           NEW g, g = Exchange(h, dst, r)
    PROVE  Inv(g, {}, {}, {}) /\ Told(g, {}) /\ (Conns(h) => Conns(g))
  <1> USE Sorts
  <1>1. h \in Heap /\ Owned(h, {r}) /\ Parents(h)
    BY DEF Inv
  <1>2. /\ \A s \in Holder : h.rep[s] # r
        /\ h.parent[r] = Null
    <2>1. r \in {r}
      OBVIOUS
    <2> QED
      BY <2>1, Unowned
  <1>3. CASE h.rep[dst] = Null
    <2>1. g = [h EXCEPT !.rep[dst] = r]
      BY <1>3 DEF Exchange
    <2>2. h.rep \in [Holder -> Rep \cup {Null}] /\ h.parent \in [Rep -> Holder \cup {Null}]
      BY <1>1, HeapFields
    <2>3. [h.rep EXCEPT ![dst] = r] \in [Holder -> Rep \cup {Null}]
      BY <2>2
    <2>4. g \in Heap
      BY ONLY <1>1, <2>1, <2>3 DEF Heap
    <2>5. /\ g.rep = [h.rep EXCEPT ![dst] = r]
          /\ g.alive = h.alive /\ g.call = h.call
          /\ g.functor = h.functor /\ g.watch = h.watch /\ g.told = h.told
          /\ g.conn = h.conn /\ g.dead = h.dead /\ g.listed = h.listed
          /\ g.misused = h.misused /\ g.parent = h.parent
      BY ONLY <1>1, <2>1 DEF Heap
    <2>6. \A s \in Holder : g.rep[s] = IF s = dst THEN r ELSE h.rep[s]
      BY ONLY <2>2, <2>5
    <2>7. \A q \in Rep : g.parent[q] = IF q = r THEN Null ELSE h.parent[q]
      BY ONLY <1>2, <2>5
    <2>8. dst \notin h.listed /\ Told(h, {dst})
      BY <1>3 DEF Told
    <2>9. Filling(h, dst, r, Null, g)
      BY ONLY <1>3, <2>4, <2>5, <2>6, <2>7, <2>8, Inv(h, {r}, {}, {}), Complete(h, {r}),
              dst \in Slot, dst \in h.alive DEF Filling
    <2> QED
      BY <2>9, FillKeeps
  <1>4. CASE h.rep[dst] # Null
    <2>1. h.rep[dst] \in Rep
      <3>1. h.rep[dst] \in Rep \cup {Null}
        BY <1>1, HeapFields
      <3> QED
        BY ONLY <1>4, <3>1
    <2>2. PICK old \in Rep : old = h.rep[dst]
      BY <2>1
    <2>3. PICK p : p = h.parent[old]
      OBVIOUS
    <2>4. PICK h1 : h1 = [h EXCEPT !.parent[r] = p]
      OBVIOUS
    <2>5. PICK d : d = DeleteRep(h1, old)
      OBVIOUS
    <2>6. PICK m : m = [d EXCEPT !.parent[r] = Null]
      OBVIOUS
    <2>7. PICK e : e = Emptied(m, dst)
      OBVIOUS
    <2>8. g = [d EXCEPT !.rep[dst] = r]
      BY ONLY <1>4, <2>2, <2>3, <2>4, <2>5, g = Exchange(h, dst, r) DEF Exchange
    <2>9. /\ Deleted(h, {r}, {}, {}, dst, old, m) /\ d \in Heap
          /\ \A q \in Rep : m.parent[q] = IF q = r THEN Null ELSE d.parent[q]
          /\ m.rep = d.rep /\ m.alive = d.alive /\ m.call = d.call
          /\ m.functor = d.functor /\ m.watch = d.watch /\ m.told = d.told
          /\ m.conn = d.conn /\ m.dead = d.dead /\ m.listed = d.listed
          /\ m.misused = d.misused /\ d.parent[r] = p
      <3>1. Exchanging(h, r, dst, old, p, h1, d, m)
        BY ONLY <2>2, <2>3, <2>4, <2>5, <2>6, r \in Rep, dst \in Slot,
                Inv(h, {r}, {}, {}), Told(h, {}), Complete(h, {r}), old \in Rep DEF Exchanging
      <3>2. ExchangeRel(h, r, dst, old, p, d, m)
        BY <3>1, ExchangeDeletes
      <3> QED
        BY ONLY <3>2 DEF ExchangeRel
    <2>10. /\ m \in Heap /\ ~m.misused /\ Watching(m) /\ Acyclic(m) /\ Refers(m)
           /\ Parents(m) /\ Callable(m, {}) /\ Nested(m, {}) /\ Told(m, {dst})
           /\ OwnedBut(m, {r}, old) /\ m.rep[dst] = old /\ m.functor[old] = "free"
           /\ m.told[old] = {} /\ (Conns(h) => Conns(m)) /\ Shrinks(h, m)
           /\ m.alive = h.alive /\ m.listed = h.listed
           /\ m.functor[r] = h.functor[r] /\ m.rep[r] = h.rep[r]
           /\ \A q \in Rep : Edge(h, q, old) => m.functor[q] = h.functor[q]
      BY <2>9 DEF Deleted
    <2>11. /\ e \in Heap
           /\ e.rep = [m.rep EXCEPT ![dst] = Null]
           /\ e.alive = m.alive /\ e.call = m.call /\ e.functor = m.functor
           /\ e.parent = m.parent /\ e.watch = m.watch /\ e.told = m.told
           /\ e.conn = m.conn /\ e.dead = m.dead /\ e.listed = m.listed
           /\ e.misused = m.misused
      <3>1. AsEmptied(m, dst, e)
        BY <2>7, <2>10, EmptiedFields
      <3> QED
        BY ONLY <3>1 DEF AsEmptied
    <2>12. Emptying(m, {r}, {}, {}, dst, old, e)
      <3>1. e.alive \in {m.alive, m.alive \ {dst}} /\ e.listed \in {m.listed, m.listed \ {dst}}
        BY <2>11
      <3> QED
        BY ONLY <2>10, <2>11, <3>1, dst \in Slot DEF Emptying
    <2>13. Inv(e, {r}, {}, {}) /\ Told(e, {dst}) /\ (Conns(m) => Conns(e))
      BY <2>12, SlotEmptied
    <2>14. /\ d.rep \in [Holder -> Rep \cup {Null}] /\ e.rep \in [Holder -> Rep \cup {Null}]
           /\ m.rep \in [Holder -> Rep \cup {Null}]
      BY <2>9, <2>10, <2>11, HeapFields
    <2>15. [d.rep EXCEPT ![dst] = r] \in [Holder -> Rep \cup {Null}]
      BY <2>14
    <2>16. g \in Heap
      BY ONLY <2>8, <2>9, <2>15 DEF Heap
    <2>17. /\ g.rep = [d.rep EXCEPT ![dst] = r]
           /\ g.alive = d.alive /\ g.call = d.call
           /\ g.functor = d.functor /\ g.watch = d.watch /\ g.told = d.told
           /\ g.conn = d.conn /\ g.dead = d.dead /\ g.listed = d.listed
           /\ g.misused = d.misused /\ g.parent = d.parent
      BY ONLY <2>8, <2>9 DEF Heap
    <2>18. \A s \in Holder : g.rep[s] = IF s = dst THEN r ELSE e.rep[s]
      BY ONLY <2>9, <2>11, <2>14, <2>17
    <2>19. \A q \in Rep : g.parent[q] = IF q = r THEN p ELSE e.parent[q]
      BY ONLY <2>9, <2>11, <2>17
    <2>20. Complete(e, {r}) /\ e.rep[dst] = Null
      <3>1. h.rep[r] # Null => h.functor[r] = "inner"
        BY DEF Complete
      <3>2. e.rep[r] # Null => e.rep[r] = h.rep[r]
        BY ONLY <2>10, <2>11, <2>14, Sorts
      <3>3. e.functor[r] = h.functor[r]
        BY <2>10, <2>11
      <3>4. e.rep[dst] = Null
        BY <2>11, <2>14
      <3> QED
        BY ONLY <3>1, <3>2, <3>3, <3>4 DEF Complete
    <2>21. \/ p = Null /\ dst \notin e.listed
           \/ p = dst /\ dst \in e.listed
           \/ p \in Rep /\ e.functor[p] = dst
      <3>1. dst \in h.listed => p = dst
        BY <2>2, <2>3 DEF Told
      <3>2. p \in Holder \cup {Null}
        BY <1>1, <2>3, HeapFields
      <3>3. CASE p \in Rep
        <4>1. Edge(h, p, old)
          BY ONLY <1>1, <2>3, <3>3, old \in Rep, Sorts DEF Parents
        <4>2. h.functor[p] = dst
          <5>1. \A s \in Holder : h.rep[s] = old => s = dst
            BY <1>1, <2>2 DEF Owned
          <5> QED
            BY ONLY <3>3, <4>1, <5>1, dst \in Slot, Sorts DEF Edge
        <4> QED
          BY ONLY <2>10, <2>11, <3>3, <4>1, <4>2
      <3>4. CASE p \in Slot
        <4>1. h.rep[p] = old /\ p \in h.listed
          BY ONLY <1>1, <2>3, <3>4, old \in Rep, Sorts DEF Parents
        <4>2. p = dst
          BY ONLY <1>1, <2>2, <3>4, <4>1, dst \in Slot, old \in Rep, Sorts DEF Owned
        <4> QED
          BY <2>10, <2>11, <4>1, <4>2
      <3>5. CASE p = Null
        BY <2>10, <2>11, <3>1, <3>5
      <3> QED
        BY <3>2, <3>3, <3>4, <3>5
    <2>22. Filling(e, dst, r, p, g)
      BY ONLY <2>9, <2>10, <2>11, <2>13, <2>16, <2>17, <2>18, <2>19, <2>20, <2>21,
              dst \in Slot, dst \in h.alive DEF Filling
    <2>23. Apart(e, r, dst, R)
      <3>1. /\ R \in SUBSET Rep /\ r \in R
            /\ \A q \in R, t \in Rep : Edge(h, q, t) => t \in R
            /\ \A q \in R : h.functor[q] # dst
        BY DEF Apart
      <3>2. \A q \in Rep : e.functor[q] \in {h.functor[q], "gone", "free"}
        BY <2>10, <2>11 DEF Shrinks
      <3>3. \A s \in Holder : e.rep[s] \in {h.rep[s], Null}
        BY <2>10, <2>11, <2>14 DEF Shrinks
      <3>4. ASSUME NEW q \in Rep, NEW t \in Rep, Edge(e, q, t)
            PROVE  Edge(h, q, t)
        <4>1. e.functor[q] \in {"inner"} \cup Slot
          BY <3>4 DEF Edge
        <4>2. e.functor[q] = h.functor[q]
          BY <3>2, <4>1
        <4>3. \A s \in Holder : e.rep[s] = t => h.rep[s] = t
          BY <3>3
        <4>4. q \in Holder /\ (h.functor[q] \in Slot => h.functor[q] \in Holder)
          OBVIOUS
        <4> QED
          BY ONLY <3>4, <4>2, <4>3, <4>4 DEF Edge
      <3>5. \A q \in R, t \in Rep : Edge(e, q, t) => t \in R
        BY ONLY <3>1, <3>4
      <3>6. \A q \in R : e.functor[q] # dst
        BY <3>1, <3>2
      <3> QED
        BY ONLY <3>1, <3>5, <3>6 DEF Apart
    <2> QED
      BY <2>10, <2>13, <2>22, <2>23, FillKeeps
  <1> QED
    BY <1>3, <1>4

-----------------------------------------------------------------------------
(***************************************************************************)
(* The operations of the user.                                             *)
(***************************************************************************)
\* The function of the library that was called has left the heap in order.
Sound(h, g) ==
    Inv(g, {}, {}, {}) /\ Told(g, {}) /\ (Conns(h) => Conns(g))

LEMMA SameBlockedAlike ==
    ASSUME NEW h \in Heap, NEW dst \in Holder, NEW src, NEW g, g = SameBlocked(h, dst, src)
    PROVE  Alike(h, g)
  <1>1. PICK v : v = IF src \in h.alive \/ (src \in Rep /\ h.functor[src] = "inner")
                     THEN src \in h.blocked ELSE h.garbage
    OBVIOUS
  <1>2. PICK b : b = IF v THEN h.blocked \cup {dst} ELSE h.blocked \ {dst}
    OBVIOUS
  <1>3. g = [h EXCEPT !.blocked = b]
    BY ONLY <1>1, <1>2, g = SameBlocked(h, dst, src) DEF SameBlocked
  <1>4. b \in SUBSET Holder
    <2>1. h.blocked \in SUBSET Holder
      BY HeapFields
    <2> QED
      BY ONLY <1>2, <2>1, dst \in Holder
  <1>5. g \in Heap
    BY ONLY <1>3, <1>4, h \in Heap DEF Heap
  <1>6. /\ g.rep = h.rep /\ g.alive = h.alive /\ g.call = h.call /\ g.functor = h.functor
        /\ g.parent = h.parent /\ g.watch = h.watch /\ g.told = h.told /\ g.conn = h.conn
        /\ g.dead = h.dead /\ g.listed = h.listed /\ g.misused = h.misused
    BY ONLY <1>3, h \in Heap DEF Heap
  <1> QED
    BY ONLY <1>5, <1>6 DEF Alike

LEMMA AlikeSound ==
    ASSUME NEW k, NEW h, NEW g, Sound(k, h), Alike(h, g)
    PROVE  Sound(k, g)
  BY AlikeKeeps DEF Sound

\* What depends on the reps and functors only.
LEMMA AlikeSame ==
    ASSUME NEW h \in Heap, NEW g, Alike(h, g)
    PROVE  /\ FreeReps(g) = FreeReps(h)
           /\ \A s : Empty(g, s) <=> Empty(h, s)
           /\ \A s \in Holder : Nesting(g, s) = Nesting(h, s)
           /\ \A s, t : LeadsTo(g, s, t) <=> LeadsTo(h, s, t)
  <1>1. FreeReps(g) = FreeReps(h) /\ \A s : Empty(g, s) <=> Empty(h, s)
    BY DEF Alike, FreeReps, Empty
  <1>2. \A s \in Holder : Nesting(g, s) = Nesting(h, s)
    <2>1. g \in Heap /\ g.rep = h.rep /\ g.call = h.call /\ g.functor = h.functor
      BY DEF Alike
    <2>2. \A n \in Nat, s \in Holder : NestingWithin[n][g][s] = NestingWithin[n][h][s]
      BY <2>1, NestingSame
    <2>3. MaxCalls \in Nat
      BY Sorts
    <2> QED
      BY <2>2, <2>3 DEF Nesting
  <1>3. \A L : Closed(g, L) <=> Closed(h, L)
    BY DEF Alike, Closed
  <1>4. \A s, t : LeadsTo(g, s, t) <=> LeadsTo(h, s, t)
    BY ONLY <1>3 DEF LeadsTo
  <1> QED
    BY <1>1, <1>2, <1>4

\* A slot that has no rep is given the rep r.
Giving(h, dst, r) ==
    /\ Inv(h, {r}, {}, {}) /\ Told(h, {}) /\ Complete(h, {r})
    /\ dst \in Slot /\ Vacant(h, {}, dst)

Given(h, dst, r) == [h EXCEPT !.rep[dst] = r]

LEMMA GivenKeeps ==
    ASSUME NEW h, NEW dst, NEW r, Giving(h, dst, r), NEW g, g = Given(h, dst, r)
    PROVE  /\ Sound(h, g)
           /\ \A s \in Holder : g.rep[s] = IF s = dst THEN r ELSE h.rep[s]
           /\ g.call = h.call /\ g.parent = h.parent /\ g.functor = h.functor
           /\ g.alive = h.alive /\ g.listed = h.listed
  <1> USE Sorts
  <1>0. /\ Inv(h, {r}, {}, {}) /\ Told(h, {}) /\ Complete(h, {r})
        /\ dst \in Slot /\ Vacant(h, {}, dst)
    BY DEF Giving
  <1>1. h \in Heap /\ r \in Rep
    BY <1>0 DEF Inv, Owned
  <1>a. PICK b : b = FALSE
    OBVIOUS
  <1>2. PICK c : c = Copied(h, dst, r, b)
    OBVIOUS
  <1>3. Inv(c, {}, {}, {}) /\ Told(c, {}) /\ (Conns(h) => Conns(c))
    <2>1. {r} \ {r} = {} /\ r \in {r} /\ dst \in Holder
      BY <1>0
    <2>2. Vacant(h, {r} \ {r}, dst)
      BY <1>0, <2>1
    <2>3. /\ Inv(c, {r} \ {r}, {}, {}) /\ Told(c, {}) /\ (Conns(h) => Conns(c))
      BY <1>0, <2>1, <2>2, <1>2, CopiedKeeps
    <2> QED
      BY ONLY <2>1, <2>3
  <1>4. /\ c \in Heap
        /\ \A s \in Holder : c.rep[s] = IF s = dst THEN r ELSE h.rep[s]
        /\ c.call = h.call /\ c.parent = h.parent /\ c.watch = h.watch
        /\ c.functor = h.functor /\ c.alive = h.alive /\ c.told = h.told
        /\ c.conn = h.conn /\ c.dead = h.dead /\ c.listed = h.listed
        /\ c.misused = h.misused
    <2>1. r \in Rep \cup {Null} /\ dst \in Holder
      BY <1>0, <1>1
    <2> QED
      BY ONLY <1>1, <1>2, <2>1, CopiedFields
  <1>5. h.rep \in [Holder -> Rep \cup {Null}] /\ c.rep \in [Holder -> Rep \cup {Null}]
    BY <1>1, <1>4, HeapFields
  <1>6. [h.rep EXCEPT ![dst] = r] \in [Holder -> Rep \cup {Null}]
    BY <1>1, <1>5
  <1>7. g \in Heap
    BY ONLY <1>1, <1>6, g = Given(h, dst, r) DEF Heap, Given
  <1>8. /\ g.rep = [h.rep EXCEPT ![dst] = r]
        /\ g.alive = h.alive /\ g.call = h.call
        /\ g.functor = h.functor /\ g.watch = h.watch /\ g.told = h.told
        /\ g.conn = h.conn /\ g.dead = h.dead /\ g.listed = h.listed
        /\ g.misused = h.misused /\ g.parent = h.parent
    BY ONLY <1>1, g = Given(h, dst, r) DEF Heap, Given
  <1>9. \A s \in Holder : g.rep[s] = IF s = dst THEN r ELSE h.rep[s]
    BY ONLY <1>5, <1>8
  <1>10. g.rep = c.rep
    <2>1. g.rep \in [Holder -> Rep \cup {Null}]
      BY <1>7, HeapFields
    <2> QED
      BY ONLY <1>4, <1>5, <1>9, <2>1
  <1>11. Alike(c, g)
    BY ONLY <1>4, <1>7, <1>8, <1>10 DEF Alike
  <1>12. Sound(h, g)
    BY <1>3, <1>11, AlikeSound DEF Sound
  <1> QED
    BY ONLY <1>8, <1>9, <1>12

\* slot_base::delete_rep_with_check()
LEMMA DeleteWithCheckKeeps ==
    ASSUME NEW h, Inv(h, {}, {}, {}), Told(h, {}), NEW s \in Slot,
           NEW g, g = DeleteRepWithCheck(h, s)
    PROVE  Sound(h, g)
  <1> USE Sorts
  <1>1. h \in Heap /\ Owned(h, {})
    BY DEF Inv
  <1>2. CASE h.rep[s] = Null
    BY <1>2 DEF DeleteRepWithCheck, Sound
  <1>3. CASE h.rep[s] # Null
    <2>1. h.rep[s] \in Rep
      <3>1. h.rep[s] \in Rep \cup {Null}
        <4>1. s \in Holder
          BY ONLY s \in Slot, Sorts
        <4>2. h.rep \in [Holder -> Rep \cup {Null}]
          BY ONLY <1>1, HeapFields
        <4> QED
          BY ONLY <4>1, <4>2
      <3> QED
        BY ONLY <1>3, <3>1
    <2>2. PICK r \in Rep : r = h.rep[s]
      BY <2>1
    <2>3. PICK a : a = Disconnect(h, r)
      OBVIOUS
    <2>4. Connected(h, {}, {}, r)
      BY <1>1, <1>3, <2>2 DEF Connected, Owned
    <2>5. Disconnected(h, {}, r, a)
      BY <2>3, <2>4, DisconnectKeeps
    <2>6. /\ Inv(a, {}, {}, {}) /\ Told(a, {}) /\ (Conns(h) => Conns(a)) /\ Shrinks(h, a)
          /\ a.parent[r] = Null
      BY <2>5 DEF Disconnected
    <2>7. CASE a.functor[r] = "free"
      <3>1. g = a
        BY <1>3, <2>2, <2>3, <2>7 DEF DeleteRepWithCheck
      <3> QED
        BY <2>6, <3>1 DEF Sound
    <2>8. CASE a.functor[r] # "free"
      <3>1. PICK d : d = DeleteRep(a, r)
        OBVIOUS
      <3>2. g = [d EXCEPT !.rep[s] = Null]
        BY ONLY <1>3, <2>2, <2>3, <2>8, <3>1, g = DeleteRepWithCheck(h, s) DEF DeleteRepWithCheck
      <3>3. a \in Heap /\ Owned(a, {})
        BY <2>6 DEF Inv
      <3>4. a.rep[s] = r
        <4>1. PICK t \in Holder : a.rep[t] = r
          BY <2>8, <3>3 DEF Owned
        <4>2. h.rep[t] = r
          BY <2>6, <4>1 DEF Shrinks
        <4>3. t = s
          BY <1>1, <2>2, <4>2 DEF Owned
        <4> QED
          BY <4>1, <4>3
      <3>5. Told(a, {s}) /\ Complete(a, {})
        BY <2>6 DEF Told, Complete
      <3>6. Deleted(a, {}, {}, {}, s, r, d)
        BY <2>6, <3>1, <3>4, <3>5, DeleteKeeps
      <3>7. /\ d \in Heap /\ ~d.misused /\ Watching(d) /\ Acyclic(d) /\ Refers(d)
            /\ Parents(d) /\ Callable(d, {}) /\ Nested(d, {}) /\ Told(d, {s})
            /\ OwnedBut(d, {}, r) /\ d.rep[s] = r /\ d.functor[r] = "free" /\ d.told[r] = {}
            /\ (Conns(a) => Conns(d)) /\ d.listed = a.listed
        BY <3>6 DEF Deleted
      <3>8. /\ g.rep = [d.rep EXCEPT ![s] = Null]
            /\ g.alive = d.alive /\ g.call = d.call
            /\ g.functor = d.functor /\ g.watch = d.watch /\ g.told = d.told
            /\ g.conn = d.conn /\ g.dead = d.dead /\ g.listed = d.listed
            /\ g.misused = d.misused /\ g.parent = d.parent
        BY ONLY <3>2, <3>7 DEF Heap
      <3>9. [d.rep EXCEPT ![s] = Null] \in [Holder -> Rep \cup {Null}]
        BY <3>7, HeapFields
      <3>10. g \in Heap
        BY ONLY <3>2, <3>7, <3>9 DEF Heap
      <3>11. g.alive \in {d.alive, d.alive \ {s}} /\ g.listed \in {d.listed, d.listed \ {s}}
        BY <3>8
      <3>12. Emptying(d, {}, {}, {}, s, r, g)
        BY ONLY <3>7, <3>8, <3>10, <3>11, s \in Slot DEF Emptying
      <3>13. Inv(g, {}, {}, {}) /\ Told(g, {s}) /\ (Conns(d) => Conns(g))
        BY <3>12, SlotEmptied
      <3>14. s \notin g.listed
        <4>1. s \notin a.listed
          BY <2>6, <3>4 DEF Told
        <4> QED
          BY <3>7, <3>8, <4>1
      <3>15. Told(g, {})
        BY ONLY <3>13, <3>14 DEF Told
      <3> QED
        BY <2>6, <3>7, <3>13, <3>15 DEF Sound
    <2> QED
      BY <2>7, <2>8
  <1> QED
    BY <1>2, <1>3

\* A call of the clone does not lead to the slot dst.
LEMMA CloneApart ==
    ASSUME NEW h, Inv(h, {}, {}, {}), NEW src \in Holder, NEW r, NEW c,
           CloneMade(h, {}, src, r, c), NEW dst \in Slot, ~LeadsTo(h, src, dst)
    PROVE  \E R : Apart(c, r, dst, R)
  <1> USE Sorts
  <1>1. h \in Heap /\ Owned(h, {})
    BY DEF Inv
  <1>2. PICK L \in SUBSET Holder : src \in L /\ Closed(h, L) /\ dst \notin L
    BY DEF LeadsTo
  <1>3. PICK R \in SUBSET Rep : \A q \in Rep : q \in R <=>
            \/ \E s \in L : h.rep[s] = q
            \/ h.functor[q] = "free" /\ c.functor[q] # "free"
    <2>1. \A q \in Rep :
              q \in {x \in Rep : \/ \E s \in L : h.rep[s] = x
                                 \/ h.functor[x] = "free" /\ c.functor[x] # "free"}
              <=> \/ \E s \in L : h.rep[s] = q
                  \/ h.functor[q] = "free" /\ c.functor[q] # "free"
      OBVIOUS
    <2> QED
      BY <2>1
  <1>4. /\ Inv(c, {r}, {}, {}) /\ Grown(h, src, c) /\ Kept(h, c, r)
        /\ r \in Rep /\ h.functor[r] = "free"
    <2>1. {} \cup {r} = {r}
      OBVIOUS
    <2>2. /\ Inv(c, {} \cup {r}, {}, {}) /\ Grown(h, src, c) /\ Kept(h, c, r)
          /\ r \in Rep /\ h.functor[r] = "free"
      BY DEF CloneMade
    <2> QED
      BY ONLY <2>1, <2>2
  <1>5. c \in Heap /\ Owned(c, {r})
    BY <1>4 DEF Inv
  <1>6. /\ \A q \in Rep : h.functor[q] # "free" => c.functor[q] = h.functor[q]
        /\ \A q \in Rep : h.functor[q] = "free" /\ c.functor[q] \in Slot =>
              Led(h, src, c.functor[q])
    BY <1>4 DEF Grown
  <1>7. \A s \in Slot : c.rep[s] = h.rep[s]
    BY <1>4 DEF Kept
  <1>8. \A s \in Rep : h.functor[s] # "free" => c.rep[s] = h.rep[s]
    BY <1>4 DEF Kept
  <1>9. r \in R
    <2>1. c.functor[r] # "free"
      BY <1>5 DEF Owned
    <2> QED
      BY <1>3, <1>4, <2>1
  <1>10. ASSUME NEW q \in R, NEW s \in L, h.rep[s] = q
         PROVE  /\ c.functor[q] = h.functor[q] /\ c.rep[q] = h.rep[q]
                /\ h.functor[q] = "inner" => q \in L
                /\ h.functor[q] \in Slot => h.functor[q] \in L
    <2>1. q \in Rep /\ q # Null /\ s \in Holder
      BY <1>3
    <2>2. h.functor[q] # "free"
      BY ONLY <1>1, <1>10, <2>1 DEF Owned
    <2> QED
      BY ONLY <1>2, <1>6, <1>8, <1>10, <2>1, <2>2 DEF Closed
  <1>11. ASSUME NEW q \in R, NEW t \in Rep, Edge(c, q, t)
         PROVE  t \in R
    <2>1. q \in Rep
      BY <1>3
    <2>2. CASE \E s \in L : h.rep[s] = q
      <3>1. PICK s \in L : h.rep[s] = q
        BY <2>2
      <3>2. /\ c.functor[q] = h.functor[q] /\ c.rep[q] = h.rep[q]
            /\ h.functor[q] = "inner" => q \in L
            /\ h.functor[q] \in Slot => h.functor[q] \in L
        BY <1>10, <3>1
      <3>3. \E u \in L : h.rep[u] = t
        BY ONLY <1>7, <1>11, <3>2 DEF Edge
      <3> QED
        BY <1>3, <3>3
    <2>3. CASE h.functor[q] = "free" /\ c.functor[q] # "free"
      <3>1. CASE c.functor[q] = "inner" /\ c.rep[q] = t
        <4>1. t # Null /\ c.functor[t] # "free"
          BY ONLY <1>5, <2>1, <3>1, t \in Rep, Sorts DEF Owned
        <4>2. ASSUME h.functor[t] # "free"
              PROVE  FALSE
          <5>1. PICK u \in Holder : h.rep[u] = t
            BY ONLY <1>1, <4>2, t \in Rep DEF Owned
          <5>2. u \in Rep => h.functor[u] = "inner"
            BY ONLY <1>1, <4>1, <5>1 DEF Owned
          <5>3. c.rep[u] = t
            BY ONLY <1>7, <1>8, <5>1, <5>2, Sorts
          <5>4. u = q
            BY ONLY <1>5, <2>1, <3>1, <4>1, <5>3, u \in Holder, Sorts DEF Owned
          <5> QED
            BY <2>1, <2>3, <5>2, <5>4
        <4> QED
          BY <1>3, <4>1, <4>2
      <3>2. CASE c.functor[q] \in Slot /\ c.rep[c.functor[q]] = t
        <4>1. c.functor[q] \in L
          BY <1>2, <1>6, <2>1, <2>3, <3>2 DEF Led
        <4>2. h.rep[c.functor[q]] = t
          BY <1>7, <3>2
        <4> QED
          BY <1>3, <4>1, <4>2
      <3> QED
        BY <1>11, <3>1, <3>2 DEF Edge
    <2> QED
      BY <1>3, <2>1, <2>2, <2>3
  <1>12. ASSUME NEW q \in R
         PROVE  c.functor[q] # dst
    <2>1. q \in Rep
      BY <1>3
    <2>2. CASE \E s \in L : h.rep[s] = q
      BY <1>2, <1>10, <2>2
    <2>3. CASE h.functor[q] = "free"
      BY <1>2, <1>6, <2>1, <2>3 DEF Led
    <2> QED
      BY <1>3, <2>1, <2>2, <2>3
  <1> QED
    BY <1>9, <1>11, <1>12 DEF Apart

\* The slot at dst is given a copy of the rep of src.
LEMMA CloneExchange ==
    ASSUME NEW h, Inv(h, {}, {}, {}), Told(h, {}), NEW src \in Holder, ~Empty(h, src),
           Nesting(h, src) <= Cardinality(FreeReps(h)), FreeReps(h) # {},
           NEW dst \in Slot, dst \in h.alive, ~LeadsTo(h, src, dst),
           NEW r, r = Min(FreeReps(h)), NEW g, g = Exchange(Clone(h, src, r), dst, r)
    PROVE  Sound(h, g)
  <1>1. r \in Rep /\ h.functor[r] = "free"
    BY LeastFree
  <1>2. PICK c : c = Clone(h, src, r)
    OBVIOUS
  <1>3. CloneMade(h, {}, src, r, c)
    BY <1>1, <1>2, CloneKeeps
  <1>4. Inv(c, {r}, {}, {}) /\ Grown(h, src, c) /\ Complete(c, {r})
    <2>1. {} \cup {r} = {r}
      OBVIOUS
    <2>2. Inv(c, {} \cup {r}, {}, {}) /\ Grown(h, src, c) /\ Complete(c, {r})
      BY <1>3 DEF CloneMade
    <2> QED
      BY ONLY <2>1, <2>2
  <1>5. Told(c, {}) /\ (Conns(h) => Conns(c)) /\ dst \in c.alive
    BY <1>4 DEF Grown
  <1>6. PICK R : Apart(c, r, dst, R)
    BY <1>3, CloneApart
  <1>7. g = Exchange(c, dst, r)
    BY <1>2
  <1>8. Inv(g, {}, {}, {}) /\ Told(g, {}) /\ (Conns(c) => Conns(g))
    BY <1>1, <1>4, <1>5, <1>6, <1>7, ExchangeKeeps
  <1> QED
    BY <1>5, <1>8 DEF Sound

\* There is a rep for the copy of a slot that can be called.
LEMMA RoomForOne ==
    ASSUME NEW h \in Heap, NEW src \in Holder, ~Empty(h, src),
           Nesting(h, src) <= Cardinality(FreeReps(h))
    PROVE  FreeReps(h) # {}
  <1>1. PICK n \in Nat : MaxCalls = n + 1
    BY HeapAssumption DEF MaxCalls
  <1>2. PICK W : W = NestingWithin[n]
    OBVIOUS
  <1>3. Nesting(h, src) = NestingUsing(W, h, src)
    BY <1>1, <1>2, NestingUnfolds DEF Nesting
  <1>4. h.rep[src] \in Holder
    BY HeapFields, Sorts DEF Empty
  <1>5. W[h][h.rep[src]] \in Nat
    BY <1>2, <1>4, NestingUnfolds
  <1>6. NestingUsing(W, h, src) \in Nat \ {0}
    BY ONLY <1>5, ~Empty(h, src) DEF NestingUsing
  <1>7. FreeReps(h) = {} => Cardinality(FreeReps(h)) = 0
    BY FS_EmptySet
  <1> QED
    BY <1>3, <1>6, <1>7

\* The arguments of an assignment.
Assignable(h, dst, src) ==
    /\ Inv(h, {}, {}, {}) /\ Told(h, {}) /\ src \in Holder
    /\ dst \in Slot /\ dst \in h.alive
    /\ Nesting(h, src) <= Cardinality(FreeReps(h))
    /\ h.rep[src] = h.rep[dst] \/ ~LeadsTo(h, src, dst)

\* operator=(const slot_base&)
LEMMA AssignKeeps ==
    ASSUME NEW h, NEW dst, NEW src, Assignable(h, dst, src), NEW g, g = Assign(h, dst, src)
    PROVE  Sound(h, g)
  <1> USE Sorts
  <1>1. /\ Inv(h, {}, {}, {}) /\ Told(h, {}) /\ src \in Holder
        /\ dst \in Slot /\ dst \in Holder /\ dst \in h.alive
        /\ Nesting(h, src) <= Cardinality(FreeReps(h))
        /\ h.rep[src] = h.rep[dst] \/ ~LeadsTo(h, src, dst)
    BY DEF Assignable
  <1>2. h \in Heap /\ Sound(h, h)
    BY <1>1 DEF Inv, Sound
  <1>3. CASE h.rep[src] = h.rep[dst]
    <2>1. g = SameBlocked(h, dst, src)
      BY <1>3 DEF Assign
    <2>2. Alike(h, g)
      BY <1>1, <1>2, <2>1, SameBlockedAlike
    <2> QED
      BY <1>2, <2>2, AlikeSound
  <1>4. CASE h.rep[src] # h.rep[dst] /\ Empty(h, src)
    <2>1. g = DeleteRepWithCheck(h, dst)
      BY <1>4 DEF Assign
    <2> QED
      BY <1>1, <2>1, DeleteWithCheckKeeps
  <1>5. CASE h.rep[src] # h.rep[dst] /\ ~Empty(h, src)
    <2>1. PICK r : r = Min(FreeReps(h))
      OBVIOUS
    <2>2. PICK e : e = Exchange(Clone(h, src, r), dst, r)
      OBVIOUS
    <2>3. g = SameBlocked(e, dst, src)
      BY <1>5, <2>1, <2>2 DEF Assign
    <2>4. FreeReps(h) # {}
      BY <1>1, <1>2, <1>5, RoomForOne
    <2>5. Sound(h, e)
      BY ONLY <1>1, <1>5, <2>1, <2>2, <2>4, CloneExchange
    <2>6. e \in Heap
      BY <2>5 DEF Sound, Inv
    <2>7. Alike(e, g)
      BY <1>1, <2>3, <2>6, SameBlockedAlike
    <2> QED
      BY <2>5, <2>7, AlikeSound
  <1> QED
    BY <1>3, <1>4, <1>5

\* A call of a rep that is moved does not lead to the slot dst.
LEMMA StealApart ==
    ASSUME NEW h \in Heap, NEW src \in Holder, NEW r \in Rep, h.rep[src] = r,
           NEW dst \in Slot, ~LeadsTo(h, src, dst), NEW k, k = Steal(h, src)
    PROVE  \E R : Apart(k, r, dst, R)
  <1> USE Sorts
  <1>1. PICK L \in SUBSET Holder : src \in L /\ Closed(h, L) /\ dst \notin L
    BY DEF LeadsTo
  <1>2. PICK R \in SUBSET Rep : \A q \in Rep : q \in R <=> \E s \in L : h.rep[s] = q
    <2>1. \A q \in Rep : q \in {x \in Rep : \E s \in L : h.rep[s] = x}
                         <=> \E s \in L : h.rep[s] = q
      OBVIOUS
    <2> QED
      BY <2>1
  <1>3. /\ \A s \in Holder : k.rep[s] = IF s = src THEN Null ELSE h.rep[s]
        /\ k.functor = h.functor
    BY StealFields
  <1>4. ASSUME NEW q \in R
        PROVE  /\ h.functor[q] = "inner" => q \in L
               /\ h.functor[q] \in Slot => h.functor[q] \in L
    <2>1. PICK s \in L : h.rep[s] = q /\ q # Null
      BY <1>2
    <2> QED
      BY ONLY <1>1, <2>1 DEF Closed
  <1>5. ASSUME NEW q \in R, NEW t \in Rep, Edge(k, q, t)
        PROVE  t \in R
    <2>1. \E s \in L : k.rep[s] = t
      BY ONLY <1>3, <1>4, <1>5 DEF Edge
    <2>2. \E s \in L : h.rep[s] = t
      BY <1>3, <2>1
    <2> QED
      BY <1>2, <2>2
  <1>6. \A q \in R : k.functor[q] # dst
    BY <1>1, <1>3, <1>4
  <1>7. r \in R
    BY <1>1, <1>2
  <1> QED
    BY <1>5, <1>6, <1>7 DEF Apart

\* operator=(slot_base&&)
LEMMA MoveAssignKeeps ==
    ASSUME NEW h, NEW dst, NEW src, Assignable(h, dst, src), NEW g, g = MoveAssign(h, dst, src)
    PROVE  Sound(h, g)
  <1> USE Sorts
  <1>1. /\ Inv(h, {}, {}, {}) /\ Told(h, {}) /\ src \in Holder
        /\ dst \in Slot /\ dst \in Holder /\ dst \in h.alive
        /\ Nesting(h, src) <= Cardinality(FreeReps(h))
        /\ h.rep[src] = h.rep[dst] \/ ~LeadsTo(h, src, dst)
    BY DEF Assignable
  <1>2. h \in Heap /\ Sound(h, h)
    BY <1>1 DEF Inv, Sound
  <1>3. PICK h1 : h1 = SameBlocked(h, dst, src)
    OBVIOUS
  <1>4. Alike(h, h1)
    BY <1>1, <1>2, <1>3, SameBlockedAlike
  <1>5. Sound(h, h1)
    BY <1>2, <1>4, AlikeSound
  <1>6. CASE h.rep[src] = h.rep[dst]
    <2>1. g = h1
      BY <1>3, <1>6 DEF MoveAssign
    <2> QED
      BY <1>5, <2>1
  <1>7. CASE h.rep[src] # h.rep[dst] /\ Empty(h, src)
    <2>1. g = DeleteRepWithCheck(h, dst)
      BY <1>7 DEF MoveAssign
    <2> QED
      BY <1>1, <2>1, DeleteWithCheckKeeps
  <1>8. CASE h.rep[src] # h.rep[dst] /\ ~Empty(h, src)
    <2>1. /\ Inv(h1, {}, {}, {}) /\ Told(h1, {}) /\ (Conns(h) => Conns(h1))
          /\ h1 \in Heap /\ dst \in h1.alive /\ h1.rep = h.rep /\ h1.parent = h.parent
      BY <1>1, <1>4, <1>5 DEF Sound, Alike
    <2>2. /\ FreeReps(h1) = FreeReps(h) /\ ~Empty(h1, src) /\ ~LeadsTo(h1, src, dst)
          /\ Nesting(h1, src) <= Cardinality(FreeReps(h1))
      BY <1>1, <1>2, <1>4, <1>8, AlikeSame
    <2>3. PICK r : r = h.rep[src]
      OBVIOUS
    <2>4. CASE h.parent[r] # Null
      <3>1. PICK new : new = Min(FreeReps(h1))
        OBVIOUS
      <3>2. g = Exchange(Clone(h1, src, new), dst, new)
        BY <1>3, <1>8, <2>2, <2>3, <2>4, <3>1 DEF MoveAssign
      <3>3. FreeReps(h1) # {}
        BY <1>1, <2>1, <2>2, RoomForOne
      <3>4. Sound(h1, g)
        BY ONLY <1>1, <2>1, <2>2, <3>1, <3>2, <3>3, CloneExchange
      <3> QED
        BY <2>1, <3>4 DEF Sound
    <2>5. CASE h.parent[r] = Null
      <3>1. PICK k : k = Steal(h1, src)
        OBVIOUS
      <3>2. g = Exchange(k, dst, r)
        BY <1>3, <1>8, <2>3, <2>5, <3>1 DEF MoveAssign
      <3>3. r \in Rep /\ h1.rep[src] = r /\ h1.parent[r] = Null
        BY <1>2, <1>8, <2>1, <2>3, <2>5, HeapFields DEF Empty
      <3>4. Inv(k, {r}, {}, {}) /\ Told(k, {}) /\ (Conns(h1) => Conns(k)) /\ Complete(k, {r})
        BY <1>1, <2>1, <3>1, <3>3, StealKeeps
      <3>5. PICK R : Apart(k, r, dst, R)
        BY <1>1, <2>1, <2>2, <3>1, <3>3, StealApart
      <3>6. dst \in k.alive
        BY <1>1, <2>1, <3>1, <3>3, StealFields
      <3>7. Inv(g, {}, {}, {}) /\ Told(g, {}) /\ (Conns(k) => Conns(g))
        BY <1>1, <3>2, <3>3, <3>4, <3>5, <3>6, ExchangeKeeps
      <3> QED
        BY <2>1, <3>4, <3>7 DEF Sound
    <2> QED
      BY <2>4, <2>5
  <1> QED
    BY <1>6, <1>7, <1>8

\* The slot s begins to exist.
LEMMA BeginKeeps ==
    ASSUME NEW h, Inv(h, {}, {}, {}), Told(h, {}), NEW s \in Slot, s \notin h.alive,
           NEW g, g = Begin(h, s)
    PROVE  /\ Sound(h, g) /\ Vacant(g, {}, s) /\ g \in Heap
           /\ g.rep = h.rep /\ g.functor = h.functor /\ g.call = h.call /\ g.parent = h.parent
           /\ g.dead = h.dead /\ g.listed = h.listed
           /\ \A t : t \in g.alive <=> t \in h.alive \/ t = s
  <1> USE Sorts
  <1>1. h \in Heap
    BY DEF Inv
  <1>2. h.alive \cup {s} \in SUBSET Slot
    BY <1>1, HeapFields
  <1>3. g \in Heap
    BY ONLY <1>1, <1>2, g = Begin(h, s) DEF Heap, Begin
  <1>4. /\ g.alive = h.alive \cup {s}
        /\ g.rep = h.rep /\ g.call = h.call
        /\ g.functor = h.functor /\ g.watch = h.watch /\ g.told = h.told
        /\ g.conn = h.conn /\ g.dead = h.dead /\ g.listed = h.listed
        /\ g.misused = h.misused /\ g.parent = h.parent
    BY ONLY <1>1, g = Begin(h, s) DEF Heap, Begin
  <1>5. \A t : t \in g.alive <=> t \in h.alive \/ t = s
    BY <1>4
  <1>6. /\ ~h.misused /\ Watching(h) /\ Owned(h, {}) /\ Acyclic(h) /\ Refers(h) /\ Parents(h)
        /\ Callable(h, {}) /\ Nested(h, {})
    BY DEF Inv
  <1>7. \A q, t : Edge(g, q, t) <=> Edge(h, q, t)
    BY ONLY <1>4 DEF Edge
  <1>8. Watching(g) /\ Owned(g, {})
    BY ONLY <1>4, <1>5, <1>6 DEF Watching, Owned
  <1>9. Acyclic(g) /\ Refers(g) /\ Parents(g)
    BY ONLY <1>4, <1>5, <1>6, <1>7 DEF Acyclic, Refers, Parents
  <1>10. Callable(g, {}) /\ Nested(g, {})
    BY ONLY <1>4, <1>6 DEF Callable, Nested
  <1>11. Told(g, {}) /\ (Conns(h) => Conns(g))
    BY ONLY <1>4, Told(h, {}) DEF Told, Conns
  <1>12. Vacant(g, {}, s)
    <2>1. h.rep[s] = Null
      BY <1>6 DEF Owned
    <2>2. \A q \in Rep : h.functor[q] # s
      BY <1>6 DEF Refers
    <2> QED
      BY <1>4, <1>5, <2>1, <2>2 DEF Vacant
  <1>13. Sound(h, g)
    BY <1>3, <1>4, <1>6, <1>8, <1>9, <1>10, <1>11 DEF Sound, Inv
  <1> QED
    BY ONLY <1>3, <1>4, <1>5, <1>12, <1>13

\* A new rep gets its functor and its slot.
Placing(h, r, f, s) ==
    /\ Inv(h, {r}, {}, {}) /\ Told(h, {}) /\ Fitting(h, r, f)
    /\ s \in Slot /\ s \in h.alive /\ h.rep[s] = Null /\ f # s
    /\ \A q \in Rep : h.functor[q] # s

LEMMA PlacedKeeps ==
    ASSUME NEW h, NEW r, NEW f, NEW s, Placing(h, r, f, s),
           NEW g, g = [NewRep(h, r, f) EXCEPT !.rep[s] = r]
    PROVE  Sound(h, g)
  <1> USE Sorts
  <1>1. /\ Inv(h, {r}, {}, {}) /\ Told(h, {}) /\ Fitting(h, r, f)
        /\ s \in Slot /\ s \in h.alive /\ h.rep[s] = Null /\ f # s
        /\ \A q \in Rep : h.functor[q] # s
    BY DEF Placing
  <1>2. h \in Heap /\ r \in Rep
    BY <1>1 DEF Inv, Owned
  <1>3. PICK n : n = NewRep(h, r, f)
    OBVIOUS
  <1>4. /\ Inv(n, {r}, {}, {}) /\ Told(n, {}) /\ (Conns(h) => Conns(n))
        /\ n.functor = [h.functor EXCEPT ![r] = f]
        /\ n.rep = h.rep /\ n.alive = h.alive
    <2>1. r \in {r}
      OBVIOUS
    <2> QED
      BY <1>1, <1>3, <2>1, NewRepKeeps
  <1>5. \A q \in Rep : n.functor[q] = IF q = r THEN f ELSE h.functor[q]
    <2>1. h.functor \in [Rep -> Object \cup Slot \cup {"inner", "gone", "free"}]
      BY <1>2, HeapFields
    <2> QED
      BY ONLY <1>4, <2>1
  <1>6. Vacant(n, {}, s)
    BY <1>1, <1>4, <1>5 DEF Vacant
  <1>7. Complete(n, {r})
    BY <1>1, <1>2, <1>4, <1>5 DEF Complete, Fitting
  <1>8. g = Given(n, s, r)
    BY <1>3 DEF Given
  <1>9. Giving(n, s, r)
    BY ONLY <1>1, <1>4, <1>6, <1>7 DEF Giving
  <1>10. Sound(n, g)
    BY ONLY <1>8, <1>9, GivenKeeps
  <1> QED
    BY <1>4, <1>10 DEF Sound

\* The slot s begins to exist, and the memory of its rep r is taken.
MemoryTaken(h, s, r, t) ==
    /\ Inv(t, {r}, {}, {}) /\ Told(t, {}) /\ (Conns(h) => Conns(t))
    /\ t \in Heap /\ r \in Rep /\ h.functor[r] = "free"
    /\ t.functor[r] = "gone" /\ t.rep[r] = Null
    /\ s \in Slot /\ s \in t.alive /\ t.rep[s] = Null
    /\ \A q \in Rep : t.functor[q] # s
    /\ t.rep = h.rep /\ t.call = h.call /\ t.dead = h.dead /\ t.listed = h.listed
    /\ \A x \in h.alive : x \in t.alive /\ x # s
    /\ \A q \in h.call : t.functor[q] = h.functor[q]
    /\ Cardinality(FreeReps(h)) = Cardinality(FreeReps(t)) + 1
    /\ Cardinality(FreeReps(t)) \in Nat

LEMMA TakenForSlot ==
    ASSUME NEW h, Inv(h, {}, {}, {}), Told(h, {}), NEW s \in Slot, s \notin h.alive,
           FreeReps(h) # {}, NEW r, r = Min(FreeReps(h)), NEW t, t = Taken(Begin(h, s), r)
    PROVE  MemoryTaken(h, s, r, t)
  <1> USE Sorts
  <1>1. r \in Rep /\ h.functor[r] = "free"
    BY LeastFree
  <1>2. PICK b : b = Begin(h, s)
    OBVIOUS
  <1>3. /\ Sound(h, b) /\ Vacant(b, {}, s) /\ b \in Heap
        /\ b.rep = h.rep /\ b.functor = h.functor /\ b.call = h.call /\ b.parent = h.parent
        /\ b.dead = h.dead /\ b.listed = h.listed
        /\ \A x : x \in b.alive <=> x \in h.alive \/ x = s
    BY <1>2, BeginKeeps
  <1>4. Inv(b, {}, {}, {}) /\ Told(b, {}) /\ (Conns(h) => Conns(b))
    BY <1>3 DEF Sound
  <1>5. t = Taken(b, r) /\ b.functor[r] = "free"
    BY <1>1, <1>2, <1>3
  <1>6. /\ Inv(t, {r}, {}, {}) /\ Told(t, {}) /\ (Conns(b) => Conns(t))
    <2>1. {} \cup {r} = {r}
      OBVIOUS
    <2>2. Inv(t, {} \cup {r}, {}, {}) /\ Told(t, {}) /\ (Conns(b) => Conns(t))
      BY <1>1, <1>4, <1>5, TakenKeeps
    <2> QED
      BY ONLY <2>1, <2>2
  <1>7. /\ t \in Heap
        /\ \A x \in Rep : t.functor[x] = IF x = r THEN "gone" ELSE b.functor[x]
        /\ t.call = b.call /\ t.rep = b.rep /\ t.alive = b.alive /\ t.listed = b.listed
        /\ t.dead = b.dead
    BY ONLY <1>1, <1>3, <1>5, TakenFields
  <1>8. h.rep[r] = Null /\ r \notin h.call
    BY <1>1, FreeAlone
  <1>9. t.functor[r] = "gone" /\ t.rep[r] = Null
    BY <1>1, <1>3, <1>7, <1>8
  <1>10. s \in t.alive /\ t.rep[s] = Null /\ \A q \in Rep : t.functor[q] # s
    BY <1>3, <1>7 DEF Vacant
  <1>11. \A x \in h.alive : x \in t.alive /\ x # s
    BY <1>3, <1>7
  <1>12. \A q \in h.call : t.functor[q] = h.functor[q]
    <2>1. h.call \subseteq Rep
      BY DEF Inv, Heap
    <2> QED
      BY <1>3, <1>7, <1>8, <2>1
  <1>13. /\ Cardinality(FreeReps(h)) = Cardinality(FreeReps(t)) + 1
         /\ Cardinality(FreeReps(t)) \in Nat
    <2>1. FreeReps(b) = FreeReps(h)
      BY <1>3 DEF FreeReps
    <2> QED
      <3>1. b \in Heap
        BY <1>3
      <3>2. /\ Cardinality(FreeReps(t)) \in Nat
            /\ Cardinality(FreeReps(b)) = Cardinality(FreeReps(t)) + 1
        BY ONLY <1>1, <1>5, <3>1, TakenFree
      <3> QED
        BY ONLY <2>1, <3>2
  <1> QED
    BY <1>1, <1>3, <1>4, <1>6, <1>7, <1>9, <1>10, <1>11, <1>12, <1>13 DEF MemoryTaken

\* slot(const T_functor&)
LEMMA NewSlotKeeps ==
    ASSUME NEW h, Inv(h, {}, {}, {}), Told(h, {}), NEW s \in Slot, s \notin h.alive,
           FreeReps(h) # {}, NEW r, r = Min(FreeReps(h)),
           NEW f \in (Object \ h.dead) \cup (h.alive \ h.listed),
           NEW g, g = [NewRep(Taken(Begin(h, s), r), r, f) EXCEPT !.rep[s] = r]
    PROVE  Sound(h, g)
  <1> USE Sorts
  <1>1. PICK t : t = Taken(Begin(h, s), r)
    OBVIOUS
  <1>2. MemoryTaken(h, s, r, t)
    BY <1>1, TakenForSlot
  <1>3. f # s
    <2>1. h.alive \subseteq Slot
      BY DEF Inv, Heap
    <2> QED
      BY <2>1
  <1>4. f \in (Object \ t.dead) \cup (t.alive \ t.listed) \cup {"inner"}
    BY <1>2 DEF MemoryTaken
  <1>5. Placing(t, r, f, s)
    BY ONLY <1>2, <1>3, <1>4 DEF Placing, Fitting, MemoryTaken
  <1>6. Sound(t, g)
    BY <1>1, <1>5, PlacedKeeps
  <1> QED
    BY <1>2, <1>6 DEF MemoryTaken, Sound

\* slot(const T_functor&), of a functor that contains a slot
LEMMA NewOuterSlotKeeps ==
    ASSUME NEW h, Inv(h, {}, {}, {}), Told(h, {}), NEW s \in Slot, s \notin h.alive,
           NEW src \in Holder, Room(h, src, 1), NEW r, r = Min(FreeReps(h)),
           NEW k, k = CopySlot(Taken(Begin(h, s), r), r, src),
           NEW g, g = [NewRep(k, r, "inner") EXCEPT !.rep[s] = r]
    PROVE  Sound(h, g)
  <1> USE Sorts
  <1>1. PICK t : t = Taken(Begin(h, s), r)
    OBVIOUS
  <1>2. h \in Heap /\ MaxCalls \in Nat
    BY DEF Inv
  <1>3. Nesting(h, src) \in Nat
    BY <1>2, NestingUnfolds DEF Nesting
  <1>4. Nesting(h, src) + 1 <= Cardinality(FreeReps(h))
    BY DEF Room
  <1>5. FreeReps(h) # {}
    <2>1. FreeReps(h) = {} => Cardinality(FreeReps(h)) = 0
      BY FS_EmptySet
    <2> QED
      BY <1>3, <1>4, <2>1
  <1>6. MemoryTaken(h, s, r, t)
    BY <1>1, <1>5, TakenForSlot
  <1>7. /\ Inv(t, {r}, {}, {}) /\ Told(t, {}) /\ (Conns(h) => Conns(t))
        /\ t \in Heap /\ r \in Rep
        /\ t.functor[r] = "gone" /\ t.rep[r] = Null
        /\ s \in Slot /\ s \in t.alive /\ t.rep[s] = Null
        /\ \A q \in Rep : t.functor[q] # s
        /\ t.rep = h.rep /\ t.call = h.call
        /\ \A q \in h.call : t.functor[q] = h.functor[q]
        /\ Cardinality(FreeReps(h)) = Cardinality(FreeReps(t)) + 1
        /\ Cardinality(FreeReps(t)) \in Nat
    BY <1>6 DEF MemoryTaken
  <1>8. Nesting(t, src) = Nesting(h, src)
    BY <1>2, <1>7, NestingSame DEF Nesting
  <1>9. Nesting(t, src) <= Cardinality(FreeReps(t))
    BY ONLY <1>3, <1>4, <1>7, <1>8
  <1>10. Copying(t, {r}, r, src)
    BY <1>7 DEF Copying, Vacant
  <1>11. CopyMade(t, {r}, r, src, k)
    BY <1>1, <1>9, <1>10, CopyKeeps
  <1>12. /\ Inv(k, {r}, {}, {}) /\ Grown(t, src, k) /\ Kept(t, k, r)
         /\ k.rep[r] # Null => k.rep[r] \in k.call /\ k.parent[k.rep[r]] = Null
    BY <1>11 DEF CopyMade
  <1>13. /\ Told(k, {}) /\ (Conns(t) => Conns(k)) /\ k.alive = t.alive
         /\ \A q \in Rep : t.functor[q] # "free" => k.functor[q] = t.functor[q]
         /\ \A q \in Rep : t.functor[q] = "free" /\ k.functor[q] \in Slot =>
               Led(t, src, k.functor[q])
    BY <1>12 DEF Grown
  <1>14. k.functor[r] = "gone"
    BY <1>7, <1>13
  <1>15. Fitting(k, r, "inner")
    BY ONLY <1>12, <1>14 DEF Fitting
  <1>16. \A q \in Rep : k.functor[q] # s
    <2>1. \A q \in Rep : t.functor[q] # "free" => k.functor[q] # s
      BY <1>7, <1>13
    <2>2. \A q \in Rep : t.functor[q] = "free" => k.functor[q] # s
      BY ONLY <1>7, <1>13 DEF Led
    <2> QED
      BY <2>1, <2>2
  <1>17. s \in k.alive /\ k.rep[s] = Null /\ "inner" # s
    BY <1>7, <1>12, <1>13 DEF Kept
  <1>18. Placing(k, r, "inner", s)
    BY <1>7, <1>12, <1>13, <1>15, <1>16, <1>17 DEF Placing
  <1>19. PICK f : f = "inner"
    OBVIOUS
  <1>20. Sound(k, g)
    BY <1>18, <1>19, PlacedKeeps
  <1> QED
    BY <1>7, <1>13, <1>20 DEF Sound

\* The arguments of a copy or a move to a new slot.
Movable(h, dst, src) ==
    /\ Inv(h, {}, {}, {}) /\ Told(h, {}) /\ src \in Holder
    /\ dst \in Slot /\ Vacant(h, {}, dst)
    /\ Nesting(h, src) <= Cardinality(FreeReps(h))

\* slot(const slot&)
LEMMA CopySound ==
    ASSUME NEW h, NEW dst, NEW src, Movable(h, dst, src), NEW g, g = CopySlot(h, dst, src)
    PROVE  Sound(h, g)
  <1>1. Copying(h, {}, dst, src) /\ Nesting(h, src) <= Cardinality(FreeReps(h))
    BY Sorts DEF Movable, Copying
  <1>2. CopyMade(h, {}, dst, src, g)
    BY <1>1, CopyKeeps
  <1> QED
    BY <1>2 DEF CopyMade, Grown, Sound

\* slot(slot&&)
LEMMA MoveSound ==
    ASSUME NEW h, NEW dst, NEW src, Movable(h, dst, src), NEW g, g = MoveSlot(h, dst, src)
    PROVE  Sound(h, g)
  <1> USE Sorts
  <1>1. /\ Inv(h, {}, {}, {}) /\ Told(h, {}) /\ src \in Holder
        /\ dst \in Slot /\ dst \in Holder /\ Vacant(h, {}, dst)
    BY DEF Movable
  <1>2. h \in Heap
    BY <1>1 DEF Inv
  <1>3. CASE h.rep[src] = Null \/ h.parent[h.rep[src]] # Null
    <2>1. g = CopySlot(h, dst, src)
      BY <1>3 DEF MoveSlot
    <2> QED
      BY <2>1, CopySound
  <1>4. CASE h.rep[src] # Null /\ h.parent[h.rep[src]] = Null
    <2>1. PICK r : r = h.rep[src]
      OBVIOUS
    <2>2. r \in Rep
      <3>1. h.rep[src] \in Rep \cup {Null}
        BY <1>1, <1>2, HeapFields
      <3> QED
        BY ONLY <1>4, <2>1, <3>1
    <2>3. PICK k : k = Steal(h, src)
      OBVIOUS
    <2>4. PICK b : b = (src \in h.blocked)
      OBVIOUS
    <2>5. g = Copied(k, dst, r, b)
      BY <1>4, <2>1, <2>3, <2>4 DEF MoveSlot
    <2>6. Inv(k, {r}, {}, {}) /\ Told(k, {}) /\ (Conns(h) => Conns(k)) /\ Complete(k, {r})
      BY <1>1, <1>4, <2>1, <2>2, <2>3, StealKeeps
    <2>7. /\ \A s \in Holder : k.rep[s] = IF s = src THEN Null ELSE h.rep[s]
          /\ k.functor = h.functor /\ k.alive = h.alive
      BY <1>1, <1>2, <2>1, <2>2, <2>3, StealFields
    <2>8. {r} \ {r} = {} /\ r \in {r}
      OBVIOUS
    <2>9. Vacant(k, {r} \ {r}, dst)
      BY <1>1, <2>7, <2>8 DEF Vacant
    <2>10. Inv(g, {r} \ {r}, {}, {}) /\ Told(g, {}) /\ (Conns(k) => Conns(g))
      BY <1>1, <2>5, <2>6, <2>8, <2>9, CopiedKeeps
    <2>11. Inv(g, {}, {}, {})
      BY ONLY <2>8, <2>10
    <2> QED
      BY <2>6, <2>10, <2>11 DEF Sound
  <1> QED
    BY <1>3, <1>4

\* The slot s, which has a rep, becomes an element of a list.
Listing(h, s, r, g) ==
    /\ Inv(h, {}, {}, {}) /\ Told(h, {})
    /\ s \in Slot /\ r \in Rep /\ h.rep[s] = r /\ h.parent[r] = Null
    /\ \A q \in Rep : h.functor[q] # s
    /\ g \in Heap
    /\ \A q \in Rep : g.parent[q] = IF q = r THEN s ELSE h.parent[q]
    /\ \A x : x \in g.listed <=> x \in h.listed \/ x = s
    /\ g.rep = h.rep /\ g.alive = h.alive /\ g.call = h.call /\ g.functor = h.functor
    /\ g.watch = h.watch /\ g.told = h.told /\ g.conn = h.conn /\ g.dead = h.dead
    /\ g.misused = h.misused

LEMMA ListingKeeps ==
    ASSUME NEW h, NEW s, NEW r, NEW g, Listing(h, s, r, g)
    PROVE  Sound(h, g)
  <1> USE Sorts
  <1>1. /\ Inv(h, {}, {}, {}) /\ Told(h, {})
        /\ s \in Slot /\ r \in Rep /\ h.rep[s] = r /\ h.parent[r] = Null
        /\ \A q \in Rep : h.functor[q] # s
        /\ g \in Heap
        /\ \A q \in Rep : g.parent[q] = IF q = r THEN s ELSE h.parent[q]
        /\ \A x : x \in g.listed <=> x \in h.listed \/ x = s
        /\ g.rep = h.rep /\ g.alive = h.alive /\ g.call = h.call /\ g.functor = h.functor
        /\ g.watch = h.watch /\ g.told = h.told /\ g.conn = h.conn /\ g.dead = h.dead
        /\ g.misused = h.misused
    BY DEF Listing
  <1>2. /\ h \in Heap /\ ~h.misused /\ Watching(h) /\ Owned(h, {}) /\ Acyclic(h) /\ Refers(h)
        /\ Parents(h) /\ Callable(h, {}) /\ Nested(h, {})
    BY <1>1 DEF Inv
  <1>3. \A q, t : Edge(g, q, t) <=> Edge(h, q, t)
    BY ONLY <1>1 DEF Edge
  <1>4. \A t \in Holder : h.rep[t] = r => t = s
    BY <1>1, <1>2 DEF Owned
  <1>5. Watching(g) /\ Owned(g, {}) /\ Callable(g, {})
    BY ONLY <1>1, <1>2 DEF Watching, Owned, Callable
  <1>6. Acyclic(g)
    BY ONLY <1>2, <1>3 DEF Acyclic
  <1>7. Refers(g)
    BY ONLY <1>1, <1>2 DEF Refers
  <1>8. Parents(g)
    <2>1. ASSUME NEW q \in Rep, g.parent[q] # Null
          PROVE  /\ g.functor[q] # "free"
                 /\ g.parent[q] \in Rep => Edge(g, g.parent[q], q)
                 /\ g.parent[q] \in Slot => g.rep[g.parent[q]] = q /\ g.parent[q] \in g.listed
      <3>1. CASE q = r
        <4>1. h.functor[r] # "free"
          BY <1>1, <1>2 DEF Owned
        <4>2. s \notin Rep
          BY <1>1
        <4> QED
          BY ONLY <1>1, <3>1, <4>1, <4>2
      <3>2. CASE q # r
        <4>1. g.parent[q] = h.parent[q] /\ h.parent[q] # Null
          BY <1>1, <2>1, <3>2
        <4>2. /\ h.functor[q] # "free"
              /\ h.parent[q] \in Rep => Edge(h, h.parent[q], q)
              /\ h.parent[q] \in Slot => h.rep[h.parent[q]] = q /\ h.parent[q] \in h.listed
          BY ONLY <1>2, <4>1, q \in Rep DEF Parents
        <4> QED
          BY ONLY <1>1, <1>3, <4>1, <4>2
      <3> QED
        BY <3>1, <3>2
    <2> QED
      BY <2>1 DEF Parents
  <1>9. Nested(g, {})
    <2>1. ASSUME NEW q \in g.call, g.functor[q] = "inner", g.rep[q] # Null
          PROVE  g.rep[q] \in g.call /\ g.parent[g.rep[q]] = q
      <3>1. q \in h.call /\ q \in Rep
        BY <1>1, <1>2, HeapFields
      <3>2. h.rep[q] \in h.call /\ h.parent[h.rep[q]] = q
        BY ONLY <1>1, <1>2, <2>1, <3>1 DEF Nested
      <3>3. h.rep[q] # r /\ h.rep[q] \in Rep
        BY <1>1, <1>2, <1>4, <3>1, <3>2, HeapFields
      <3> QED
        BY ONLY <1>1, <3>2, <3>3
    <2> QED
      BY <2>1 DEF Nested
  <1>10. Told(g, {})
    <2>1. ASSUME NEW t \in g.listed
          PROVE  g.rep[t] # Null /\ g.parent[g.rep[t]] = t
      <3>1. CASE t = s
        <4>1. r # Null
          BY <1>1
        <4> QED
          BY ONLY <1>1, <3>1, <4>1
      <3>2. CASE t # s
        <4>1. t \in h.listed
          BY <1>1, <3>2
        <4>2. t \in Holder
          BY <1>2, <4>1, HeapFields
        <4>3. h.rep[t] # Null /\ h.parent[h.rep[t]] = t
          BY <1>1, <4>1 DEF Told
        <4>4. h.rep[t] \in Rep \cup {Null}
          BY <1>2, <4>2, HeapFields
        <4> QED
          BY ONLY <1>1, <1>4, <3>2, <4>2, <4>3, <4>4
      <3> QED
        BY <3>1, <3>2
    <2> QED
      BY <2>1 DEF Told
  <1>11. Conns(h) => Conns(g)
    BY ONLY <1>1 DEF Conns
  <1> QED
    BY <1>1, <1>2, <1>5, <1>6, <1>7, <1>8, <1>9, <1>10, <1>11 DEF Sound, Inv

\* slot_base::set_parent()
LEMMA SetParentKeeps ==
    ASSUME NEW h, Inv(h, {}, {}, {}), Told(h, {}), NEW s \in Slot, s \in h.alive,
           \A q \in Rep : h.functor[q] # s,
           h.rep[s] # Null => h.parent[h.rep[s]] = Null, FreeReps(h) # {},
           NEW g, g = SetParent(h, s)
    PROVE  Sound(h, g)
  <1> USE Sorts
  <1>1. h \in Heap
    BY DEF Inv
  <1>2. PICK r : r = IF h.rep[s] # Null THEN h.rep[s] ELSE Min(FreeReps(h))
    OBVIOUS
  <1>3. PICK d : d = IF h.rep[s] # Null THEN h ELSE [Taken(h, r) EXCEPT !.rep[s] = r]
    OBVIOUS
  <1>4. g = [d EXCEPT !.parent[r] = s, !.listed = @ \cup {s}]
    BY ONLY <1>2, <1>3, g = SetParent(h, s) DEF SetParent
  <1>5. /\ Sound(h, d) /\ r \in Rep /\ d.rep[s] = r /\ d.parent[r] = Null
        /\ \A q \in Rep : d.functor[q] # s
    <2>1. CASE h.rep[s] # Null
      <3>1. d = h /\ r = h.rep[s]
        BY <1>2, <1>3, <2>1
      <3>2. h.rep[s] \in Rep \cup {Null}
        BY <1>1, HeapFields
      <3>3. Sound(h, h)
        BY DEF Sound
      <3>4. h.rep[s] \in Rep
        BY ONLY <2>1, <3>2
      <3> QED
        BY <2>1, <3>1, <3>3, <3>4
    <2>2. CASE h.rep[s] = Null
      <3>1. r \in Rep /\ h.functor[r] = "free"
        BY <1>2, <2>2, LeastFree
      <3>2. PICK t : t = Taken(h, r)
        OBVIOUS
      <3>3. Inv(t, {r}, {}, {}) /\ Told(t, {}) /\ (Conns(h) => Conns(t))
        <4>1. {} \cup {r} = {r}
          OBVIOUS
        <4>2. Inv(t, {} \cup {r}, {}, {}) /\ Told(t, {}) /\ (Conns(h) => Conns(t))
          BY <3>1, <3>2, TakenKeeps
        <4> QED
          BY ONLY <4>1, <4>2
      <3>4. /\ \A x \in Rep : t.functor[x] = IF x = r THEN "gone" ELSE h.functor[x]
            /\ t.parent = h.parent /\ t.rep = h.rep /\ t.alive = h.alive
        BY ONLY <1>1, <3>1, <3>2, TakenFields
      <3>5. h.rep[r] = Null /\ h.parent[r] = Null
        BY <3>1, FreeAlone
      <3>6. Complete(t, {r})
        BY <3>4, <3>5 DEF Complete
      <3>7. \A q \in Rep : t.functor[q] # s
        BY <3>4
      <3>8. Vacant(t, {}, s)
        BY <2>2, <3>4, <3>7 DEF Vacant
      <3>9. d = Given(t, s, r)
        BY <1>3, <2>2, <3>2 DEF Given
      <3>10. /\ Sound(t, d)
             /\ d.rep[s] = r
             /\ d.parent = t.parent /\ d.functor = t.functor
        <4>1. /\ Sound(t, d)
              /\ \A x \in Holder : d.rep[x] = IF x = s THEN r ELSE t.rep[x]
              /\ d.call = t.call /\ d.parent = t.parent /\ d.functor = t.functor
              /\ d.alive = t.alive /\ d.listed = t.listed
          <5>1. Giving(t, s, r)
            BY ONLY <3>3, <3>6, <3>8, s \in Slot DEF Giving
          <5> QED
            BY ONLY <3>9, <5>1, GivenKeeps
        <4>2. s \in Holder
          BY ONLY s \in Slot, Sorts
        <4> QED
          BY ONLY <4>1, <4>2
      <3>11. Sound(h, d)
        BY <3>3, <3>10 DEF Sound
      <3> QED
        BY <3>1, <3>4, <3>5, <3>7, <3>10, <3>11
    <2> QED
      BY <2>1, <2>2
  <1>6. d \in Heap /\ Inv(d, {}, {}, {}) /\ Told(d, {}) /\ (Conns(h) => Conns(d))
    BY <1>5 DEF Sound, Inv
  <1>7. /\ [d.parent EXCEPT ![r] = s] \in [Rep -> Holder \cup {Null}]
        /\ d.parent \in [Rep -> Holder \cup {Null}]
        /\ d.listed \cup {s} \in SUBSET Slot
    BY <1>6, HeapFields
  <1>8. g \in Heap
    BY ONLY <1>4, <1>6, <1>7 DEF Heap
  <1>9. /\ g.parent = [d.parent EXCEPT ![r] = s] /\ g.listed = d.listed \cup {s}
        /\ g.rep = d.rep /\ g.alive = d.alive /\ g.call = d.call /\ g.functor = d.functor
        /\ g.watch = d.watch /\ g.told = d.told /\ g.conn = d.conn /\ g.dead = d.dead
        /\ g.misused = d.misused
    BY ONLY <1>4, <1>6 DEF Heap
  <1>10. \A q \in Rep : g.parent[q] = IF q = r THEN s ELSE d.parent[q]
    BY ONLY <1>7, <1>9
  <1>11. \A x : x \in g.listed <=> x \in d.listed \/ x = s
    BY ONLY <1>9
  <1>12. Listing(d, s, r, g)
    BY ONLY <1>5, <1>6, <1>8, <1>9, <1>10, <1>11, s \in Slot DEF Listing
  <1>13. Sound(d, g)
    BY <1>12, ListingKeeps
  <1> QED
    BY <1>6, <1>13 DEF Sound

\* slot_base::disconnect() of a slot that has a rep
LEMMA DisconnectSound ==
    ASSUME NEW h, Inv(h, {}, {}, {}), Told(h, {}), NEW s \in Slot, h.rep[s] # Null,
           NEW g, g = Disconnect(h, h.rep[s])
    PROVE  Sound(h, g)
  <1>1. h \in Heap /\ Owned(h, {})
    BY DEF Inv
  <1>2. h.rep[s] \in Rep /\ h.functor[h.rep[s]] # "free"
    <2>1. h.rep[s] \in Rep \cup {Null}
      BY <1>1, HeapFields, Sorts
    <2>2. h.functor[h.rep[s]] # "free"
      BY <1>1, Sorts DEF Owned
    <2> QED
      BY ONLY <2>1, <2>2, h.rep[s] # Null
  <1>3. PICK r \in Rep : r = h.rep[s]
    BY <1>2
  <1>4. Connected(h, {}, {}, r)
    BY <1>2, <1>3 DEF Connected
  <1>5. Disconnected(h, {}, r, g)
    BY <1>3, <1>4, DisconnectKeeps
  <1> QED
    BY <1>5 DEF Disconnected, Sound

\* ~trackable()
LEMMA EndObjectKeeps ==
    ASSUME NEW h, Inv(h, {}, {}, {}), Told(h, {}), NEW o \in Object,
           NEW e, e = [h EXCEPT !.dead = @ \cup {o}], NEW g, g = Notified(e, o)
    PROVE  Sound(h, g)
  <1>1. /\ h \in Heap /\ ~h.misused /\ Watching(h) /\ Owned(h, {}) /\ Acyclic(h) /\ Refers(h)
        /\ Parents(h) /\ Callable(h, {}) /\ Nested(h, {})
    BY DEF Inv
  <1>2. h.dead \cup {o} \in SUBSET Object
    BY <1>1, HeapFields
  <1>3. e \in Heap
    BY ONLY <1>1, <1>2, e = [h EXCEPT !.dead = @ \cup {o}] DEF Heap
  <1>4. /\ e.dead = h.dead \cup {o}
        /\ e.rep = h.rep /\ e.alive = h.alive /\ e.call = h.call
        /\ e.functor = h.functor /\ e.watch = h.watch /\ e.told = h.told
        /\ e.conn = h.conn /\ e.listed = h.listed
        /\ e.misused = h.misused /\ e.parent = h.parent
    BY ONLY <1>1, e = [h EXCEPT !.dead = @ \cup {o}] DEF Heap
  <1>5. \A q, t : Edge(e, q, t) <=> Edge(h, q, t)
    BY ONLY <1>4 DEF Edge
  <1>6. Watching(e) /\ Owned(e, {}) /\ Refers(e) /\ Nested(e, {}) /\ Told(e, {})
    BY ONLY <1>1, <1>4, Told(h, {}) DEF Watching, Owned, Refers, Nested, Told
  <1>7. Acyclic(e) /\ Parents(e)
    BY ONLY <1>1, <1>4, <1>5 DEF Acyclic, Parents
  <1>8. Callable(e, {o})
    <2>1. (e.dead \ {o}) \cup {"gone", "free"} \subseteq (h.dead \ {}) \cup {"gone", "free"}
      BY <1>4
    <2> QED
      BY ONLY <1>1, <1>4, <2>1 DEF Callable
  <1>9. Conns(h) => Conns(e)
    BY ONLY <1>4 DEF Conns
  <1>10. Ending(e, o)
    BY <1>1, <1>3, <1>4, <1>6, <1>7, <1>8 DEF Ending, Inv
  <1>11. AllNotified(e, g)
    BY <1>10, NotifiedKeeps
  <1> QED
    BY <1>9, <1>11 DEF AllNotified, Sound

-----------------------------------------------------------------------------
(***************************************************************************)
(* What an assignment copies, and what it leaves of the slots it copies    *)
(* from.                                                                   *)
(***************************************************************************)
\* The slots inside of functors.
Inners(h) == {q \in Rep : h.functor[q] = "inner"}

\* Slots in functors are gone in g; the others are blocked as they were.
Thinned(h, g) ==
    /\ Inners(g) \subseteq Inners(h)
    /\ \A s \in Slot \cup Inners(g) : s \in g.blocked <=> s \in h.blocked

\* Slots in functors are new in g; the others are blocked as they were.
Extended(h, g) ==
    /\ Inners(h) \subseteq Inners(g)
    /\ \A s \in Slot \cup Inners(h) : s \in g.blocked <=> s \in h.blocked

LEMMA SameThinned ==
    ASSUME NEW h, NEW g, g.functor = h.functor, g.blocked = h.blocked
    PROVE  Thinned(h, g) /\ Extended(h, g)
  BY DEF Thinned, Extended, Inners

LEMMA MisuseThinned ==
    ASSUME NEW h \in Heap, NEW g, g = Misuse(h)
    PROVE  Thinned(h, g) /\ Extended(h, g)
  <1>1. g.functor = h.functor /\ g.blocked = h.blocked
    BY ONLY h \in Heap, g = Misuse(h) DEF Misuse, Heap
  <1> QED
    BY <1>1, SameThinned

LEMMA ThinnedTwice ==
    ASSUME NEW h, NEW g, NEW k, Thinned(h, g), Thinned(g, k)
    PROVE  Thinned(h, k)
  BY DEF Thinned

LEMMA ExtendedTwice ==
    ASSUME NEW h, NEW g, NEW k, Extended(h, g), Extended(g, k)
    PROVE  Extended(h, k)
  BY DEF Extended

LEMMA UnboundBlocked ==
    ASSUME NEW h \in Heap, NEW r \in Rep
    PROVE  Unbound(h, r).blocked = h.blocked
  <1>1. PICK u, g : u = Unbind(h, r) /\ g = Unbound(h, r)
    OBVIOUS
  <1>2. u.blocked = h.blocked
    <2>1. CASE h.functor[r] \in Object
      <3>1. PICK f, w : u = [h EXCEPT !.watch[f] = w]
        BY <1>1, <2>1 DEF Unbind
      <3> QED
        BY ONLY <3>1, h \in Heap DEF Heap
    <2>2. CASE h.functor[r] \notin Object
      <3>1. PICK s : u = ReleaseSlot(h, s, r)
        BY <1>1, <2>2 DEF Unbind
      <3>2. u = h \/ \E q : u = [h EXCEPT !.parent[q] = Null]
        BY <3>1 DEF ReleaseSlot
      <3> QED
        BY ONLY <3>2, h \in Heap DEF Heap
    <2> QED
      BY <2>1, <2>2
  <1>3. u \in Heap
    BY <1>1, UnbindFields DEF UnbindRel
  <1>4. g = [u EXCEPT !.call = @ \ {r}, !.functor[r] = "gone"]
    BY <1>1 DEF Unbound
  <1>5. g.blocked = u.blocked
    BY ONLY <1>3, <1>4 DEF Heap
  <1> QED
    BY <1>1, <1>2, <1>5

\* The functor of r does not contain a slot any more.
LEMMA UnboundThinned ==
    ASSUME NEW h \in Heap, NEW r \in Rep, h.functor[r] \notin {"gone", "free"},
           NEW g, g = Unbound(h, r)
    PROVE  g \in Heap /\ Thinned(h, g) /\ r \notin Inners(g)
  <1>0. UnboundRel(h, r, g)
    BY ONLY h \in Heap, r \in Rep, h.functor[r] \notin {"gone", "free"},
            g = Unbound(h, r), UnboundFields
  <1>1. g \in Heap /\ g.functor = [h.functor EXCEPT ![r] = "gone"]
    BY ONLY <1>0 DEF UnboundRel
  <1>2. g.blocked = h.blocked
    BY UnboundBlocked
  <1>3. \A q \in Rep : g.functor[q] = IF q = r THEN "gone" ELSE h.functor[q]
    BY <1>1, HeapFields
  <1> QED
    BY ONLY <1>1, <1>2, <1>3, r \in Rep DEF Thinned, Inners

LEMMA FreedThinned ==
    ASSUME NEW h \in Heap, NEW r \in Rep, NEW g, g = Freed(h, r)
    PROVE  g \in Heap /\ Thinned(h, g)
  <1>1. /\ g \in Heap
        /\ g.functor = [h.functor EXCEPT ![r] = "free"]
        /\ g.parent = [h.parent EXCEPT ![r] = Null]
        /\ g.told = [h.told EXCEPT ![r] = {}]
        /\ g.conn = [c \in Conn |-> IF c \in h.told[r] THEN Null ELSE h.conn[c]]
        /\ g.blocked = h.blocked \ {r}
        /\ g.rep = h.rep /\ g.alive = h.alive /\ g.call = h.call
        /\ g.watch = h.watch /\ g.dead = h.dead /\ g.listed = h.listed
        /\ g.misused = h.misused /\ g.defers = h.defers /\ g.garbage = h.garbage
    <2>1. AsFreed(h, r, g)
      BY ONLY h \in Heap, r \in Rep, g = Freed(h, r), FreedFields
    <2> QED
      BY ONLY <2>1 DEF AsFreed
  <1>2. r \notin Slot
    BY Sorts
  <1>3. \A q \in Rep : g.functor[q] = IF q = r THEN "free" ELSE h.functor[q]
    BY <1>1, HeapFields
  <1>4. r \notin Inners(g)
    BY ONLY <1>3, r \in Rep DEF Inners
  <1>5. Inners(g) \subseteq Inners(h)
    BY ONLY <1>3 DEF Inners
  <1> QED
    BY ONLY <1>1, <1>2, <1>4, <1>5 DEF Thinned

LEMMA EmptiedThinned ==
    ASSUME NEW h \in Heap, NEW r \in Rep, r \notin Inners(h), NEW g, g = Emptied(h, r)
    PROVE  Thinned(h, g)
  <1>1. g.blocked = h.blocked \ {r} /\ g.functor = h.functor
    BY ONLY h \in Heap, g = Emptied(h, r) DEF Emptied, Heap
  <1>2. r \notin Slot
    BY Sorts
  <1> QED
    BY <1>1, <1>2 DEF Thinned, Inners

\* destroy() of a rep changes no blocked_ but those of the slots it destroys.
LEMMA DestroyingThinned ==
    ASSUME NEW D \in [Heap -> [Rep -> Heap]],
           \A h \in Heap, r \in Rep : Thinned(h, D[h][r]),
           NEW h \in Heap, NEW r \in Rep, NEW g, g = DestroyUsing(D, h, r)
    PROVE  Thinned(h, g)
  <1> USE Sorts
  <1>1. CASE h.functor[r] = "free"
    BY <1>1, MisuseThinned DEF DestroyUsing
  <1>2. CASE h.functor[r] = "gone"
    <2>1. g = [h EXCEPT !.call = @ \ {r}]
      BY <1>2 DEF DestroyUsing
    <2>2. g.blocked = h.blocked /\ g.functor = h.functor
      BY ONLY <2>1, h \in Heap DEF Heap
    <2> QED
      BY <2>2, SameThinned
  <1>3. CASE h.functor[r] \notin {"free", "gone"} /\ h.rep[r] = Null
    <2>1. g = Unbound(h, r)
      BY <1>3 DEF DestroyUsing
    <2> QED
      BY <1>3, <2>1, UnboundThinned
  <1>4. CASE h.functor[r] \notin {"free", "gone"} /\ h.rep[r] # Null
    <2>1. PICK u : u = Unbound(h, r)
      OBVIOUS
    <2>2. u \in Heap /\ Thinned(h, u) /\ r \notin Inners(u)
      BY <1>4, <2>1, UnboundThinned
    <2>3. PICK i : i = h.rep[r]
      OBVIOUS
    <2>4. i \in Rep
      BY <1>4, <2>3, HeapFields
    <2>5. PICK d : d = D[u][i]
      OBVIOUS
    <2>6. d \in Heap /\ Thinned(u, d)
      BY <2>2, <2>4, <2>5
    <2>7. PICK f : f = Freed(d, i)
      OBVIOUS
    <2>8. f \in Heap /\ Thinned(d, f)
      BY ONLY <2>4, <2>6, <2>7, FreedThinned
    <2>9. g = Emptied(f, r)
      BY <1>4, <2>1, <2>3, <2>5, <2>7 DEF DestroyUsing
    <2>10. Thinned(u, f)
      BY ONLY <2>6, <2>8, ThinnedTwice
    <2>11. r \notin Inners(f)
      BY ONLY <2>2, <2>10 DEF Thinned
    <2>12. Thinned(f, g)
      BY ONLY <2>8, <2>9, <2>11, r \in Rep, EmptiedThinned
    <2> QED
      BY ONLY <2>2, <2>10, <2>12, ThinnedTwice
  <1> QED
    BY <1>1, <1>2, <1>3, <1>4

LEMMA DestroyThinned ==
    ASSUME NEW h \in Heap, NEW r \in Rep
    PROVE  Thinned(h, Destroy(h, r))
  <1> DEFINE P == {n \in Nat : \A k \in Heap, q \in Rep : Thinned(k, DestroyWithin[n][k][q])}
  <1>1. 0 \in P
    <2>1. ASSUME NEW k \in Heap, NEW q \in Rep
          PROVE  Thinned(k, DestroyWithin[0][k][q])
      <3>1. DestroyWithin[0][k][q] = Misuse(k)
        BY DestroyUnfolds
      <3> QED
        BY <3>1, MisuseThinned
    <2> QED
      BY <2>1
  <1>2. ASSUME NEW n \in P
        PROVE  n + 1 \in P
    <2>1. n \in Nat /\ \A k \in Heap, q \in Rep : Thinned(k, DestroyWithin[n][k][q])
      OBVIOUS
    <2>2. DestroyWithin[n] \in [Heap -> [Rep -> Heap]]
      BY <2>1, DestroyUnfolds
    <2>3. \A k \in Heap, q \in Rep : Thinned(k, DestroyUsing(DestroyWithin[n], k, q))
      BY <2>1, <2>2, DestroyingThinned
    <2>4. \A k \in Heap, q \in Rep :
              DestroyWithin[n + 1][k][q] = DestroyUsing(DestroyWithin[n], k, q)
      BY <2>1, DestroyUnfolds
    <2> QED
      BY <2>1, <2>3, <2>4
  <1>3. P \in SUBSET Nat
    OBVIOUS
  <1> HIDE DEF P
  <1>4. \A n \in Nat : n \in P
    BY <1>1, <1>2, <1>3, AllNumbers
  <1>5. MaxCalls \in P
    BY <1>4, Sorts
  <1> QED
    BY <1>5 DEF P, Destroy

LEMMA DeleteThinned ==
    ASSUME NEW h \in Heap, NEW r \in Rep
    PROVE  Thinned(h, DeleteRep(h, r))
  <1>1. PICK d : d = Destroy(h, r)
    OBVIOUS
  <1>2. d \in Heap /\ Thinned(h, d)
    BY <1>1, DestroyInHeap, DestroyThinned
  <1>3. Thinned(d, Freed(d, r))
    BY <1>2, FreedThinned
  <1> QED
    BY <1>1, <1>2, <1>3, ThinnedTwice DEF DeleteRep

LEMMA NewRepBlocked ==
    ASSUME NEW h \in Heap, NEW r \in Rep,
           NEW f \in Object \cup Slot \cup {"inner", "gone", "free"}, NEW g, g = NewRep(h, r, f)
    PROVE  g.blocked = h.blocked /\ g.functor = [h.functor EXCEPT ![r] = f]
  <1>1. PICK m : m = [h EXCEPT !.functor[r] = f, !.call = @ \cup {r}, !.parent[r] = Null]
    OBVIOUS
  <1>2. /\ [h.functor EXCEPT ![r] = f] \in [Rep -> Object \cup Slot \cup {"inner", "gone", "free"}]
        /\ h.call \cup {r} \in SUBSET Rep
        /\ [h.parent EXCEPT ![r] = Null] \in [Rep -> Holder \cup {Null}]
    BY HeapFields, Sorts
  <1>3. m \in Heap /\ m.blocked = h.blocked /\ m.functor = [h.functor EXCEPT ![r] = f]
    BY ONLY <1>1, <1>2, h \in Heap DEF Heap
  <1>4. g = Bind(m, r)
    BY <1>1 DEF NewRep
  <1>5. g.blocked = m.blocked /\ g.functor = m.functor
    <2>1. CASE m.functor[r] \in Object
      <3>1. PICK e, w : g = [m EXCEPT !.watch[e] = w]
        BY <1>4, <2>1 DEF Bind
      <3> QED
        BY ONLY <3>1, <1>3 DEF Heap
    <2>2. CASE m.functor[r] \notin Object
      <3>1. PICK s : g = AdoptSlot(m, s, r)
        BY <1>4, <2>2 DEF Bind
      <3>2. g = m \/ \E q : g = [m EXCEPT !.parent[q] = r]
        BY <3>1 DEF AdoptSlot
      <3> QED
        BY ONLY <3>2, <1>3 DEF Heap
    <2> QED
      BY <2>1, <2>2
  <1> QED
    BY <1>3, <1>5

\* The functor of a rep is made that contained no slot.
LEMMA NewRepExtended ==
    ASSUME NEW h \in Heap, NEW r \in Rep, NEW k \in Heap, Extended(h, k), r \notin Inners(h),
           NEW f \in Object \cup Slot \cup {"inner", "gone", "free"}
    PROVE  Extended(h, NewRep(k, r, f))
  <1>1. PICK g : g = NewRep(k, r, f)
    OBVIOUS
  <1>2. g.blocked = k.blocked /\ g.functor = [k.functor EXCEPT ![r] = f]
    BY <1>1, NewRepBlocked
  <1>3. \A q \in Rep : q # r => g.functor[q] = k.functor[q]
    BY <1>2, HeapFields
  <1>4. Extended(h, g)
    BY ONLY <1>2, <1>3, Extended(h, k), r \notin Inners(h) DEF Extended, Inners
  <1> QED
    BY <1>1, <1>4

LEMMA TakenExtended ==
    ASSUME NEW h \in Heap, NEW r \in Rep, r \notin Inners(h), NEW g, g = Taken(h, r)
    PROVE  g \in Heap /\ Extended(h, g) /\ r \notin Inners(g)
  <1>1. g.blocked = h.blocked
    <2>1. g = [h EXCEPT !.functor[r] = "gone"]
      BY DEF Taken
    <2> QED
      BY ONLY <2>1, h \in Heap DEF Heap
  <1>2. g \in Heap /\ \A q \in Rep : g.functor[q] = IF q = r THEN "gone" ELSE h.functor[q]
    BY TakenFields
  <1> QED
    BY ONLY <1>1, <1>2, r \in Rep, r \notin Inners(h) DEF Extended, Inners

\* The copies that D makes, to slots in functors that are yet to be made,
\* change no blocked_ of the slots that exist.
Spares(D) ==
    /\ D \in [Heap -> [Holder -> [Holder -> Heap]]]
    /\ \A h \in Heap, dst \in Rep, src \in Holder :
          dst \notin Inners(h) => Extended(h, D[h][dst][src])

LEMMA CloningExtended ==
    ASSUME NEW D, Spares(D), NEW h \in Heap, NEW src \in Holder, h.rep[src] # Null,
           NEW r \in Rep, r \notin Inners(h)
    PROVE  Extended(h, CloneUsing(D, h, src, r))
  <1> USE Sorts
  <1>1. PICK q : q = h.rep[src]
    OBVIOUS
  <1>a. h.rep[src] \in Rep \cup {Null}
    BY HeapFields
  <1>2. q \in Rep /\ q \in Holder /\ r \in Holder
    BY ONLY <1>1, <1>a, h.rep[src] # Null, r \in Rep, Sorts
  <1>3. PICK f : f = h.functor[q]
    OBVIOUS
  <1>4. f \in Object \cup Slot \cup {"inner", "gone", "free"}
    <2>1. h.functor \in [Rep -> Object \cup Slot \cup {"inner", "gone", "free"}]
      BY HeapFields
    <2> QED
      BY ONLY <2>1, <1>2, <1>3
  <1>5. PICK t : t = Taken(h, r)
    OBVIOUS
  <1>6. t \in Heap /\ Extended(h, t) /\ r \notin Inners(t)
    BY <1>5, TakenExtended
  <1>7. PICK k : k = IF f = "inner" THEN D[t][r][q] ELSE t
    OBVIOUS
  <1>8. k \in Heap /\ Extended(h, k)
    <2>1. CASE f = "inner"
      <3>1. k = D[t][r][q]
        BY <1>7, <2>1
      <3>2. D[t][r][q] \in Heap /\ Extended(t, D[t][r][q])
        BY ONLY <1>2, <1>6, Spares(D), r \in Rep DEF Spares
      <3> QED
        BY <1>6, <3>1, <3>2, ExtendedTwice
    <2>2. CASE f # "inner"
      BY <1>6, <1>7, <2>2
    <2> QED
      BY <2>1, <2>2
  <1>9. Extended(h, NewRep(k, r, f))
    BY <1>4, <1>8, NewRepExtended
  <1> QED
    BY <1>1, <1>3, <1>5, <1>7, <1>9 DEF CloneUsing

LEMMA CopyingExtended ==
    ASSUME NEW D, Spares(D), NEW h \in Heap, NEW dst \in Rep, NEW src \in Holder,
           dst \notin Inners(h)
    PROVE  Extended(h, CopyUsing(D, h, dst, src))
  <1> USE Sorts
  <1>1. ASSUME NEW k \in Heap, Extended(h, k), NEW r, NEW b
        PROVE  Extended(h, Copied(k, dst, r, b))
    <2>1. PICK g : g = Copied(k, dst, r, b)
      OBVIOUS
    <2>2. PICK B : B = IF b THEN k.blocked \cup {dst} ELSE k.blocked \ {dst}
      OBVIOUS
    <2>3. g = [k EXCEPT !.rep[dst] = r, !.blocked = B]
      BY <2>1, <2>2 DEF Copied
    <2>4. g.blocked = B /\ g.functor = k.functor
      BY ONLY <2>3, k \in Heap DEF Heap
    <2>5. dst \notin Slot
      OBVIOUS
    <2>6. Inners(g) = Inners(k)
      BY <2>4 DEF Inners
    <2>7. \A s \in Slot \cup Inners(h) : s \in g.blocked <=> s \in k.blocked
      BY ONLY <2>2, <2>4, <2>5, dst \notin Inners(h)
    <2> QED
      BY ONLY <2>1, <2>6, <2>7, Extended(h, k) DEF Extended
  <1>2. CASE h.rep[src] = Null \/ Empty(h, src)
    <2>1. Extended(h, h)
      BY SameThinned
    <2> QED
      BY <1>1, <1>2, <2>1 DEF CopyUsing
  <1>3. CASE h.rep[src] # Null /\ ~Empty(h, src) /\ FreeReps(h) = {}
    BY <1>3, MisuseThinned DEF CopyUsing
  <1>4. CASE h.rep[src] # Null /\ ~Empty(h, src) /\ FreeReps(h) # {}
    <2>1. PICK r \in Rep : r = Min(FreeReps(h)) /\ h.functor[r] = "free"
      BY <1>4, LeastFree
    <2>2. PICK k : k = CloneUsing(D, h, src, r)
      OBVIOUS
    <2>3. k \in Heap
      BY <1>4, <2>2, CloneTyped DEF Spares
    <2>4. Extended(h, k)
      BY <1>4, <2>1, <2>2, CloningExtended DEF Inners
    <2>5. \A b : Extended(h, Copied(k, dst, r, b))
      BY <1>1, <2>3, <2>4
    <2> QED
      BY <1>4, <2>1, <2>2, <2>5 DEF CopyUsing
  <1> QED
    BY <1>2, <1>3, <1>4

\* clone() changes no blocked_ but those of new slots.
LEMMA CloneExtended ==
    ASSUME NEW h \in Heap, NEW src \in Holder, h.rep[src] # Null, NEW r \in Rep,
           h.functor[r] = "free"
    PROVE  Extended(h, Clone(h, src, r))
  <1> DEFINE P == {n \in Nat : Spares(CopyWithin[n])}
  <1>1. 0 \in P
    <2>1. ASSUME NEW k \in Heap, NEW d \in Rep, NEW s \in Holder
          PROVE  Extended(k, CopyWithin[0][k][d][s])
      <3>1. CopyWithin[0][k][d][s] = Misuse(k)
        BY CopyUnfolds, Sorts
      <3> QED
        BY <3>1, MisuseThinned
    <2> QED
      BY <2>1, CopyUnfolds DEF Spares
  <1>2. ASSUME NEW n \in P
        PROVE  n + 1 \in P
    <2>1. n \in Nat /\ Spares(CopyWithin[n])
      OBVIOUS
    <2>2. \A k \in Heap, d \in Rep, s \in Holder :
              d \notin Inners(k) => Extended(k, CopyUsing(CopyWithin[n], k, d, s))
      BY <2>1, CopyingExtended
    <2>3. \A k \in Heap, d \in Rep, s \in Holder :
              CopyWithin[n + 1][k][d][s] = CopyUsing(CopyWithin[n], k, d, s)
      BY <2>1, CopyUnfolds, Sorts
    <2>4. n + 1 \in Nat /\ CopyWithin[n + 1] \in [Heap -> [Holder -> [Holder -> Heap]]]
      BY <2>1, CopyUnfolds
    <2>5. PICK D : D = CopyWithin[n + 1]
      OBVIOUS
    <2>6. \A k \in Heap, d \in Rep, s \in Holder :
              d \notin Inners(k) => Extended(k, D[k][d][s])
      BY <2>2, <2>3, <2>5
    <2>7. Spares(D)
      BY <2>4, <2>5, <2>6 DEF Spares
    <2> QED
      BY <2>4, <2>5, <2>7
  <1>3. P \in SUBSET Nat
    OBVIOUS
  <1> HIDE DEF P
  <1>4. \A n \in Nat : n \in P
    BY <1>1, <1>2, <1>3, AllNumbers
  <1>5. Spares(CopyWithin[MaxCalls])
    BY <1>4, Sorts DEF P
  <1>6. r \notin Inners(h)
    BY DEF Inners
  <1> QED
    BY <1>5, <1>6, CloningExtended DEF Clone

\* A clone is of the functor that it is cloned from, and can be called.
LEMMA CloneCopies ==
    ASSUME NEW h, Inv(h, {}, {}, {}), Told(h, {}), NEW src \in Holder, ~Empty(h, src),
           NEW r, NEW c, c = Clone(h, src, r), CloneMade(h, {}, src, r, c)
    PROVE  /\ c.functor[r] = h.functor[h.rep[src]] /\ r \in c.call
           /\ Extended(h, c)
  <1>1. h \in Heap /\ Callable(h, {})
    BY DEF Inv
  <1>2. r \in Rep /\ r \in c.call
    BY DEF CloneMade
  <1>3. PICK f : f = h.functor[h.rep[src]]
    OBVIOUS
  <1>4. h.rep[src] \in h.call /\ h.rep[src] \in Rep /\ h.rep[src] # Null /\ h.rep[src] \in Holder
    <2>1. h.call \in SUBSET Rep
      BY <1>1, HeapFields
    <2>2. h.rep[src] \in h.call
      BY DEF Empty
    <2> QED
      BY ONLY <2>1, <2>2, Sorts
  <1>5. f \in Object \cup Slot \cup {"inner"}
    <2>1. f \notin {"gone", "free"}
      BY <1>1, <1>3, <1>4 DEF Callable
    <2>2. f \in Object \cup Slot \cup {"inner", "gone", "free"}
      BY <1>1, <1>3, <1>4, HeapFields
    <2> QED
      BY <2>1, <2>2
  <1>6. PICK t : t = Taken(h, r)
    OBVIOUS
  <1>7. t \in Heap
    BY <1>1, <1>2, <1>6, TakenFields
  <1>8. PICK k : k = IF f = "inner" THEN CopyWithin[MaxCalls][t][r][h.rep[src]] ELSE t
    OBVIOUS
  <1>9. k \in Heap
    <2>1. PICK D : D = CopyWithin[MaxCalls]
      OBVIOUS
    <2>2. D \in [Heap -> [Holder -> [Holder -> Heap]]]
      BY <2>1, CopyUnfolds, Sorts
    <2>3. r \in Holder
      BY <1>2, Sorts
    <2>4. \A q \in Holder : D[t][r][q] \in Heap
      BY ONLY <1>7, <2>2, <2>3
    <2>5. D[t][r][h.rep[src]] \in Heap
      BY ONLY <1>4, <2>4
    <2> QED
      BY ONLY <1>7, <1>8, <2>1, <2>5
  <1>10. c = NewRep(k, r, f)
    BY ONLY <1>3, <1>6, <1>8, c = Clone(h, src, r) DEF Clone, CloneUsing
  <1>11. c.functor = [k.functor EXCEPT ![r] = f]
    <2>1. NewRepRel(k, r, f, c)
      BY ONLY <1>2, <1>5, <1>9, <1>10, NewRepFields
    <2> QED
      BY ONLY <2>1 DEF NewRepRel
  <1>12. c.functor[r] = f
    BY <1>2, <1>9, <1>11, HeapFields
  <1>13. Extended(h, c)
    BY <1>1, <1>2, <1>4, CloneExtended DEF CloneMade
  <1> QED
    BY <1>2, <1>3, <1>12, <1>13

\* The slot at s can be called, and has the functor f.
Has(h, s, f) == ~Empty(h, s) /\ h.functor[h.rep[s]] = f

\* "Silently exchange the slot_rep": nothing happens to the new one.
LEMMA ExchangeGives ==
    ASSUME NEW h, NEW r \in Rep, Inv(h, {r}, {}, {}), Told(h, {}), Complete(h, {r}),
           NEW dst \in Slot, r \in h.call, NEW g, g = Exchange(h, dst, r)
    PROVE  Has(g, dst, h.functor[r]) /\ Thinned(h, g)
  <1> USE Sorts
  <1>1. h \in Heap
    BY DEF Inv
  <1>2. dst \in Holder
    OBVIOUS
  <1>3. CASE h.rep[dst] = Null
    <2>1. g = [h EXCEPT !.rep[dst] = r]
      BY <1>3 DEF Exchange
    <2>2. /\ g.rep = [h.rep EXCEPT ![dst] = r] /\ g.call = h.call
          /\ g.functor = h.functor /\ g.alive = h.alive /\ g.blocked = h.blocked
      BY ONLY <1>1, <2>1 DEF Heap
    <2>3. g.rep[dst] = r
      BY <1>1, <1>2, <2>2, HeapFields
    <2> QED
      BY ONLY <2>2, <2>3, r \in h.call, SameThinned DEF Has, Empty
  <1>4. CASE h.rep[dst] # Null
    <2>1. PICK old : old = h.rep[dst]
      OBVIOUS
    <2>2. old \in Rep
      BY <1>1, <1>2, <1>4, <2>1, HeapFields
    <2>3. PICK p : p = h.parent[old]
      OBVIOUS
    <2>4. PICK h1 : h1 = [h EXCEPT !.parent[r] = p]
      OBVIOUS
    <2>5. PICK d, m : d = DeleteRep(h1, old) /\ m = [d EXCEPT !.parent[r] = Null]
      OBVIOUS
    <2>6. Exchanging(h, r, dst, old, p, h1, d, m)
      BY ONLY <2>1, <2>2, <2>3, <2>4, <2>5, Inv(h, {r}, {}, {}), Told(h, {}),
              Complete(h, {r}), r \in Rep, dst \in Slot DEF Exchanging
    <2>7. ExchangeRel(h, r, dst, old, p, d, m)
      BY <2>6, ExchangeDeletes
    <2>8. /\ d \in Heap /\ m.functor[r] = h.functor[r]
          /\ d.functor = m.functor /\ r \in d.call
      <3>1. r \in {r}
        OBVIOUS
      <3> QED
        BY ONLY <2>7, <3>1, r \in h.call DEF ExchangeRel, Deleted
    <2>9. h1 \in Heap /\ Thinned(h, h1)
      <3>1. p \in Holder \cup {Null}
        BY <1>1, <2>2, <2>3, HeapFields
      <3>2. [h.parent EXCEPT ![r] = p] \in [Rep -> Holder \cup {Null}]
        BY <1>1, <3>1, HeapFields
      <3>3. h1 \in Heap /\ h1.functor = h.functor /\ h1.blocked = h.blocked
        BY ONLY <1>1, <2>4, <3>2 DEF Heap
      <3> QED
        BY ONLY <3>3, SameThinned
    <2>10. Thinned(h, d)
      BY <2>2, <2>5, <2>9, DeleteThinned, ThinnedTwice
    <2>11. g = [d EXCEPT !.rep[dst] = r]
      BY <1>4, <2>1, <2>3, <2>4, <2>5 DEF Exchange
    <2>12. /\ g.rep = [d.rep EXCEPT ![dst] = r] /\ g.call = d.call
           /\ g.functor = d.functor /\ g.blocked = d.blocked
      BY ONLY <2>8, <2>11 DEF Heap
    <2>13. g.rep[dst] = r
      BY <1>2, <2>8, <2>12, HeapFields
    <2>14. Thinned(h, g)
      BY ONLY <2>10, <2>12, SameThinned, ThinnedTwice
    <2> QED
      BY ONLY <2>8, <2>12, <2>13, <2>14 DEF Has, Empty
  <1> QED
    BY <1>3, <1>4

\* The slots of the user, and those in functors that are still there in g, are
\* blocked as they were.
BlockedAlike(h, g) ==
    \A s \in Slot \cup (Inners(h) \cap Inners(g)) : s \in g.blocked <=> s \in h.blocked

\* The slot at dst is given a copy of the rep of src.
LEMMA CloneGiven ==
    ASSUME NEW h, Inv(h, {}, {}, {}), Told(h, {}), NEW src \in Holder, ~Empty(h, src),
           Nesting(h, src) <= Cardinality(FreeReps(h)), NEW dst \in Slot,
           NEW r, r = Min(FreeReps(h)), NEW g, g = Exchange(Clone(h, src, r), dst, r)
    PROVE  Has(g, dst, h.functor[h.rep[src]]) /\ BlockedAlike(h, g)
  <1>1. FreeReps(h) # {}
    BY RoomForOne DEF Inv
  <1>2. r \in Rep /\ h.functor[r] = "free"
    BY <1>1, LeastFree
  <1>3. PICK c : c = Clone(h, src, r)
    OBVIOUS
  <1>4. CloneMade(h, {}, src, r, c)
    BY <1>2, <1>3, CloneKeeps
  <1>5. Inv(c, {r}, {}, {}) /\ Told(c, {}) /\ Complete(c, {r})
    <2>1. {} \cup {r} = {r}
      OBVIOUS
    <2>2. Inv(c, {} \cup {r}, {}, {}) /\ Grown(h, src, c) /\ Complete(c, {r})
      BY <1>4 DEF CloneMade
    <2> QED
      BY ONLY <2>1, <2>2 DEF Grown
  <1>6. /\ c.functor[r] = h.functor[h.rep[src]] /\ r \in c.call
        /\ Extended(h, c)
    BY <1>3, <1>4, CloneCopies
  <1>7. g = Exchange(c, dst, r)
    BY <1>3
  <1>8. Has(g, dst, c.functor[r]) /\ Thinned(c, g)
    BY ONLY <1>2, <1>5, <1>6, <1>7, dst \in Slot, ExchangeGives
  <1>9. BlockedAlike(h, g)
    BY ONLY <1>6, <1>8 DEF BlockedAlike, Extended, Thinned
  <1> QED
    BY <1>6, <1>8, <1>9

\* The slot at src is there to be read.
Present(h, src) == src \in h.alive \/ src \in Inners(h)

\* blocked_ of a slot that exists is copied, and of no other.
LEMMA SameBlockedCopies ==
    ASSUME NEW h \in Heap, NEW dst \in Slot, NEW src, Present(h, src),
           NEW g, g = SameBlocked(h, dst, src)
    PROVE  dst \in g.blocked <=> src \in h.blocked
  <1>1. PICK b : b = IF src \in h.blocked THEN h.blocked \cup {dst} ELSE h.blocked \ {dst}
    OBVIOUS
  <1>2. src \in h.alive \/ (src \in Rep /\ h.functor[src] = "inner")
    BY DEF Present, Inners
  <1>3. g = [h EXCEPT !.blocked = b]
    BY <1>1, <1>2 DEF SameBlocked
  <1>4. g.blocked = b
    BY ONLY <1>3, h \in Heap DEF Heap
  <1> QED
    BY ONLY <1>1, <1>4

\* What an assignment of the slot at src to the one at dst makes of h.
Assigned(h, dst, src, g) ==
    /\ Has(g, dst, h.functor[h.rep[src]])
    /\ Present(g, src) => (dst \in g.blocked <=> src \in h.blocked)

\* operator=(const slot_base&): src may be gone when its blocked_ is read.
LEMMA AssignCopies ==
    ASSUME NEW h, NEW dst, NEW src, Assignable(h, dst, src), Present(h, src), ~Empty(h, src),
           NEW g, g = Assign(h, dst, src)
    PROVE  Assigned(h, dst, src, g)
  <1> USE Sorts
  <1>1. /\ Inv(h, {}, {}, {}) /\ Told(h, {}) /\ src \in Holder
        /\ dst \in Slot /\ dst \in Holder
        /\ Nesting(h, src) <= Cardinality(FreeReps(h))
    BY DEF Assignable
  <1>2. h \in Heap
    BY <1>1 DEF Inv
  <1>3. CASE h.rep[src] = h.rep[dst]
    <2>1. g = SameBlocked(h, dst, src)
      BY <1>3 DEF Assign
    <2>2. g.rep = h.rep /\ g.call = h.call /\ g.functor = h.functor
      BY <1>1, <1>2, <2>1, SameBlockedAlike DEF Alike
    <2>3. dst \in g.blocked <=> src \in h.blocked
      BY <1>1, <1>2, <2>1, SameBlockedCopies
    <2> QED
      BY ONLY <1>3, <2>2, <2>3, ~Empty(h, src) DEF Assigned, Has, Empty
  <1>4. CASE h.rep[src] # h.rep[dst]
    <2>1. PICK r : r = Min(FreeReps(h))
      OBVIOUS
    <2>2. PICK e : e = Exchange(Clone(h, src, r), dst, r)
      OBVIOUS
    <2>3. g = SameBlocked(e, dst, src)
      BY <1>1, <1>4, <2>1, <2>2 DEF Assign
    <2>4. Has(e, dst, h.functor[h.rep[src]]) /\ BlockedAlike(h, e)
      BY ONLY <1>1, <2>1, <2>2, ~Empty(h, src), CloneGiven
    <2>5. e \in Heap
      <3>1. FreeReps(h) # {}
        BY <1>1, <1>2, RoomForOne
      <3>2. dst \in h.alive /\ ~LeadsTo(h, src, dst)
        BY <1>4 DEF Assignable
      <3>3. Sound(h, e)
        BY ONLY <1>1, <2>1, <2>2, <3>1, <3>2, ~Empty(h, src), CloneExchange
      <3> QED
        BY <3>3 DEF Sound, Inv
    <2>6. g.rep = e.rep /\ g.call = e.call /\ g.functor = e.functor /\ g.alive = e.alive
      BY <1>1, <2>3, <2>5, SameBlockedAlike DEF Alike
    <2>7. ASSUME Present(g, src)
          PROVE  dst \in g.blocked <=> src \in h.blocked
      <3>1. Present(e, src)
        BY ONLY <2>6, <2>7 DEF Present, Inners
      <3>2. dst \in g.blocked <=> src \in e.blocked
        BY ONLY <1>1, <2>3, <2>5, <3>1, SameBlockedCopies
      <3>3. h.alive \subseteq Slot /\ e.alive \subseteq Slot
        BY <1>2, <2>5, HeapFields
      <3>4. src \in Slot \cup (Inners(h) \cap Inners(e))
        BY ONLY <3>1, <3>3, Present(h, src) DEF Present
      <3> QED
        BY ONLY <2>4, <3>2, <3>4 DEF BlockedAlike
    <2> QED
      BY ONLY <2>4, <2>6, <2>7 DEF Assigned, Has, Empty
  <1> QED
    BY <1>3, <1>4

LEMMA StealBlocked ==
    ASSUME NEW h \in Heap, NEW src \in Holder, NEW r \in Rep, h.rep[src] = r
    PROVE  Steal(h, src).blocked = h.blocked \ {src}
  <1>1. PICK n, g : n = NotifyConnections(h, r) /\ g = Steal(h, src)
    OBVIOUS
  <1>2. /\ n \in Heap
        /\ n.told = [h.told EXCEPT ![r] = {}]
        /\ n.conn = [c \in Conn |-> IF c \in h.told[r] THEN Null ELSE h.conn[c]]
        /\ n.rep = h.rep /\ n.blocked = h.blocked
        /\ n.alive = h.alive /\ n.call = h.call /\ n.functor = h.functor
        /\ n.parent = h.parent /\ n.watch = h.watch
        /\ n.dead = h.dead /\ n.listed = h.listed /\ n.misused = h.misused
    BY ONLY <1>1, h \in Heap, r \in Rep, NotifyFields
  <1>3. g = [n EXCEPT !.rep[src] = Null, !.blocked = @ \ {src}]
    BY <1>1 DEF Steal
  <1>4. g.blocked = n.blocked \ {src}
    BY ONLY <1>2, <1>3 DEF Heap
  <1> QED
    BY <1>1, <1>2, <1>4

\* operator=(slot_base&&): blocked_ of src is read while src is there.
LEMMA MoveAssignCopies ==
    ASSUME NEW h, NEW dst, NEW src, Assignable(h, dst, src), Present(h, src), ~Empty(h, src),
           NEW g, g = MoveAssign(h, dst, src)
    PROVE  Assigned(h, dst, src, g)
  <1> USE Sorts
  <1>1. /\ Inv(h, {}, {}, {}) /\ Told(h, {}) /\ src \in Holder
        /\ dst \in Slot /\ dst \in Holder
        /\ Nesting(h, src) <= Cardinality(FreeReps(h)) /\ ~Empty(h, src)
    BY DEF Assignable
  <1>2. h \in Heap /\ Sound(h, h)
    BY <1>1 DEF Inv, Sound
  <1>3. PICK h1 : h1 = SameBlocked(h, dst, src)
    OBVIOUS
  <1>4. Alike(h, h1) /\ Sound(h, h1)
    BY <1>1, <1>2, <1>3, SameBlockedAlike, AlikeSound
  <1>5. dst \in h1.blocked <=> src \in h.blocked
    BY <1>1, <1>2, <1>3, SameBlockedCopies
  <1>6. /\ h1 \in Heap /\ h1.rep = h.rep /\ h1.call = h.call /\ h1.functor = h.functor
        /\ h1.parent = h.parent /\ Inv(h1, {}, {}, {}) /\ Told(h1, {})
    BY <1>4 DEF Alike, Sound
  <1>7. PICK f : f = h.functor[h.rep[src]]
    OBVIOUS
  <1>8. CASE h.rep[src] = h.rep[dst]
    <2>1. g = h1
      BY <1>3, <1>8 DEF MoveAssign
    <2> QED
      BY ONLY <1>1, <1>5, <1>6, <1>8, <2>1 DEF Assigned, Has, Empty
  <1>9. CASE h.rep[src] # h.rep[dst]
    <2>1. PICK r : r = h.rep[src]
      OBVIOUS
    <2>2. CASE h.parent[r] # Null
      <3>1. PICK new : new = Min(FreeReps(h1))
        OBVIOUS
      <3>2. /\ FreeReps(h1) = FreeReps(h) /\ ~Empty(h1, src)
            /\ Nesting(h1, src) <= Cardinality(FreeReps(h1))
        BY <1>1, <1>2, <1>4, AlikeSame
      <3>3. g = Exchange(Clone(h1, src, new), dst, new)
        BY <1>1, <1>3, <1>9, <2>1, <2>2, <3>1, <3>2 DEF MoveAssign
      <3>4. /\ Has(g, dst, h1.functor[h1.rep[src]]) /\ BlockedAlike(h1, g)
        BY ONLY <1>1, <1>6, <3>1, <3>2, <3>3, CloneGiven
      <3> QED
        BY ONLY <1>1, <1>5, <1>6, <3>4 DEF Assigned, BlockedAlike
    <2>3. CASE h.parent[r] = Null
      <3>1. PICK k : k = Steal(h1, src)
        OBVIOUS
      <3>2. g = Exchange(k, dst, r)
        BY <1>1, <1>3, <1>9, <2>1, <2>3, <3>1 DEF MoveAssign
      <3>3. r \in Rep /\ h1.rep[src] = r /\ h1.parent[r] = Null /\ r \in h1.call
        <4>1. h.call \in SUBSET Rep /\ h.rep[src] \in h.call
          BY <1>1, <1>2, HeapFields DEF Empty
        <4> QED
          BY ONLY <1>6, <2>1, <2>3, <4>1
      <3>4. Inv(k, {r}, {}, {}) /\ Told(k, {}) /\ Complete(k, {r})
        BY <1>1, <1>6, <3>1, <3>3, StealKeeps
      <3>5. k.functor = h1.functor /\ k.call = h1.call
        BY <1>1, <1>6, <3>1, <3>3, StealFields
      <3>6. k.blocked = h1.blocked \ {src}
        BY <1>1, <1>6, <3>1, <3>3, StealBlocked
      <3>7. Has(g, dst, k.functor[r]) /\ Thinned(k, g)
        BY <1>1, <3>2, <3>3, <3>4, <3>5, ExchangeGives
      <3>8. dst # src
        BY <1>9
      <3>9. dst \in g.blocked <=> dst \in h1.blocked
        BY ONLY <1>1, <3>6, <3>7, <3>8 DEF Thinned
      <3> QED
        BY ONLY <1>5, <1>6, <2>1, <3>5, <3>7, <3>9 DEF Assigned
    <2> QED
      BY <2>2, <2>3
  <1> QED
    BY <1>8, <1>9

-----------------------------------------------------------------------------
(***************************************************************************)
(* Every step keeps the heap in order.                                     *)
(***************************************************************************)
\* The invariant that is inductive: OwnedOnce needs that no slot contains
\* itself, through others, or destroy() would meet the rep that it destroys;
\* ParentExists, that what contains a slot can be called only if the slot can.
IInv ==
    /\ Inv(heap, {}, {}, {}) /\ Told(heap, {})
    /\ made \in [Conn -> Slot \cup {Null}]

\* A heap in which a call begins, and one in which it ends, differ in what the
\* lists do and in what is read of a slot that is gone.
LEMMA BegunAlike ==
    ASSUME Inv(heap, {}, {}, {}), Told(heap, {}), NEW h \in Begun
    PROVE  Alike(heap, h) /\ Sound(heap, h) /\ h \in Heap
  <1>1. heap \in Heap /\ Sound(heap, heap)
    BY DEF Inv, Sound
  <1>2. PICK d \in BOOLEAN : h = [heap EXCEPT !.defers = d]
    BY DEF Begun
  <1>3. h \in Heap
    BY ONLY <1>1, <1>2 DEF Heap
  <1>4. /\ h.rep = heap.rep /\ h.alive = heap.alive /\ h.call = heap.call
        /\ h.functor = heap.functor /\ h.parent = heap.parent /\ h.watch = heap.watch
        /\ h.told = heap.told /\ h.conn = heap.conn
        /\ h.dead = heap.dead /\ h.listed = heap.listed /\ h.misused = heap.misused
    BY ONLY <1>1, <1>2 DEF Heap
  <1>5. Alike(heap, h)
    BY ONLY <1>3, <1>4 DEF Alike
  <1> QED
    BY <1>1, <1>3, <1>5, AlikeSound

LEMMA EndsSound ==
    ASSUME made \in [Conn -> Slot \cup {Null}],
           NEW h, Sound(heap, h), NEW g, Sound(h, g), Ends(g)
    PROVE  IInv' /\ (Conns(heap) => Conns(heap)')
  <1>1. g \in Heap
    BY DEF Sound, Inv
  <1>2. PICK e : e = [g EXCEPT !.defers = FALSE, !.garbage = FALSE]
    OBVIOUS
  <1>3. e \in Heap
    BY ONLY <1>1, <1>2 DEF Heap
  <1>4. /\ e.rep = g.rep /\ e.alive = g.alive /\ e.call = g.call
        /\ e.functor = g.functor /\ e.parent = g.parent /\ e.watch = g.watch
        /\ e.told = g.told /\ e.conn = g.conn
        /\ e.dead = g.dead /\ e.listed = g.listed /\ e.misused = g.misused
    BY ONLY <1>1, <1>2 DEF Heap
  <1>5. Alike(g, e)
    BY ONLY <1>3, <1>4 DEF Alike
  <1>6. Sound(h, e)
    BY <1>5, AlikeSound
  <1>7. Sound(heap, e)
    BY <1>6 DEF Sound
  <1>8. heap' = e /\ made' = made
    BY <1>2 DEF Ends
  <1>9. Inv(e, {}, {}, {}) /\ Told(e, {}) /\ (Conns(heap) => Conns(e))
    BY <1>7 DEF Sound
  <1> QED
    BY <1>8, <1>9 DEF IInv

\* A step leaves the heap in order.
Step == IInv' /\ (~EmptyConn /\ Conns(heap) => Conns(heap)')

LEMMA NewDefaultSlotStep ==
    ASSUME IInv, NEW s \in Slot, NewDefaultSlot(s)
    PROVE  Step
  <1>1. PICK h \in Begun : s \notin heap.alive /\ Ends(Begin(h, s))
    BY DEF NewDefaultSlot
  <1>2. Alike(heap, h) /\ Sound(heap, h)
    BY BegunAlike DEF IInv
  <1>3. Inv(h, {}, {}, {}) /\ Told(h, {}) /\ s \notin h.alive
    BY <1>1, <1>2 DEF Sound, Alike
  <1>4. Sound(h, Begin(h, s))
    BY <1>3, BeginKeeps
  <1> QED
    BY <1>1, <1>2, <1>4, EndsSound DEF IInv, Step

LEMMA NewSlotStep ==
    ASSUME IInv, NEW s \in Slot, NEW f \in (Object \ heap.dead) \cup (heap.alive \ heap.listed),
           NewSlot(s, f)
    PROVE  Step
  <1>1. PICK r : r = Min(FreeReps(heap))
    OBVIOUS
  <1>2. PICK h \in Begun : Ends([NewRep(Taken(Begin(h, s), r), r, f) EXCEPT !.rep[s] = r])
    BY <1>1 DEF NewSlot
  <1>3. s \notin heap.alive /\ FreeReps(heap) # {}
    BY DEF NewSlot
  <1>4. Alike(heap, h) /\ Sound(heap, h) /\ heap \in Heap
    BY BegunAlike DEF IInv, Inv
  <1>5. Inv(h, {}, {}, {}) /\ Told(h, {})
    BY <1>4 DEF Sound
  <1>6. FreeReps(h) = FreeReps(heap)
    BY <1>4, AlikeSame
  <1>7. h.alive = heap.alive /\ h.dead = heap.dead /\ h.listed = heap.listed
    BY <1>4 DEF Alike
  <1>8. PICK g : g = [NewRep(Taken(Begin(h, s), r), r, f) EXCEPT !.rep[s] = r]
    OBVIOUS
  <1>9. Sound(h, g)
    BY <1>1, <1>3, <1>5, <1>6, <1>7, <1>8, NewSlotKeeps
  <1> QED
    BY <1>2, <1>4, <1>8, <1>9, EndsSound DEF IInv, Step

LEMMA NewOuterSlotStep ==
    ASSUME IInv, NEW s \in Slot, NEW t \in heap.alive, NewOuterSlot(s, t)
    PROVE  Step
  <1>1. PICK r : r = Min(FreeReps(heap))
    OBVIOUS
  <1>2. PICK h \in Begun :
            Ends([NewRep(CopySlot(Taken(Begin(h, s), r), r, t), r, "inner") EXCEPT !.rep[s] = r])
    BY <1>1 DEF NewOuterSlot
  <1>3. s \notin heap.alive /\ Room(heap, t, 1)
    BY DEF NewOuterSlot
  <1>4. Alike(heap, h) /\ Sound(heap, h) /\ heap \in Heap
    BY BegunAlike DEF IInv, Inv
  <1>5. Inv(h, {}, {}, {}) /\ Told(h, {})
    BY <1>4 DEF Sound
  <1>6. t \in Holder
    BY <1>4, HeapFields, Sorts
  <1>7. FreeReps(h) = FreeReps(heap) /\ Room(h, t, 1)
    BY <1>3, <1>4, <1>6, AlikeSame DEF Room
  <1>8. h.alive = heap.alive
    BY <1>4 DEF Alike
  <1>9. PICK k : k = CopySlot(Taken(Begin(h, s), r), r, t)
    OBVIOUS
  <1>10. PICK g : g = [NewRep(k, r, "inner") EXCEPT !.rep[s] = r]
    OBVIOUS
  <1>11. r = Min(FreeReps(h)) /\ s \notin h.alive
    BY <1>1, <1>3, <1>7, <1>8
  <1>12. Sound(h, g)
    BY ONLY <1>5, <1>6, <1>7, <1>9, <1>10, <1>11, s \in Slot, NewOuterSlotKeeps
  <1>13. Ends(g)
    BY <1>2, <1>9, <1>10
  <1> QED
    BY <1>4, <1>12, <1>13, EndsSound DEF IInv, Step

LEMMA CopyOrMoveStep ==
    ASSUME IInv, NEW s \in Slot, NEW t \in Source, CopyOrMove(s, t)
    PROVE  Step
  <1>1. PICK h \in Begun :
            Ends(CopySlot(Begin(h, s), s, t)) \/ Ends(MoveSlot(Begin(h, s), s, t))
    BY DEF CopyOrMove
  <1>2. s \notin heap.alive /\ Room(heap, t, 0)
    BY DEF CopyOrMove
  <1>3. Alike(heap, h) /\ Sound(heap, h) /\ heap \in Heap /\ h \in Heap
    BY BegunAlike DEF IInv, Inv
  <1>4. Inv(h, {}, {}, {}) /\ Told(h, {}) /\ s \notin h.alive
    BY <1>2, <1>3 DEF Sound, Alike
  <1>5. t \in Holder
    BY <1>3, HeapFields, Sorts DEF Source
  <1>6. PICK b : b = Begin(h, s)
    OBVIOUS
  <1>7. /\ Sound(h, b) /\ Vacant(b, {}, s) /\ b \in Heap
        /\ b.rep = h.rep /\ b.functor = h.functor /\ b.call = h.call
    BY <1>4, <1>6, BeginKeeps
  <1>8. Nesting(b, t) <= Cardinality(FreeReps(b))
    <2>1. Nesting(heap, t) + 0 <= Cardinality(FreeReps(heap))
      BY <1>2 DEF Room
    <2>2. Nesting(h, t) = Nesting(heap, t) /\ FreeReps(h) = FreeReps(heap)
      BY <1>3, <1>5, AlikeSame
    <2>3. Nesting(b, t) = Nesting(h, t)
      BY <1>3, <1>5, <1>7, NestingSame, Sorts DEF Nesting
    <2>4. FreeReps(b) = FreeReps(h)
      BY <1>7 DEF FreeReps
    <2>5. Nesting(heap, t) \in Nat
      BY <1>3, <1>5, NestingUnfolds, Sorts DEF Nesting
    <2> QED
      BY ONLY <2>1, <2>2, <2>3, <2>4, <2>5
  <1>9. Movable(b, s, t)
    BY <1>5, <1>7, <1>8 DEF Movable, Sound
  <1>10. Sound(b, CopySlot(b, s, t)) /\ Sound(b, MoveSlot(b, s, t))
    BY <1>9, CopySound, MoveSound
  <1>11. Sound(heap, b)
    BY <1>3, <1>7 DEF Sound
  <1> QED
    BY <1>1, <1>6, <1>10, <1>11, EndsSound DEF IInv, Step

\* The assignment is that of a heap that differs in what the lists do only.
LEMMA AssignSlotBegins ==
    ASSUME IInv, NEW s \in Slot, NEW t \in Source, AssignSlot(s, t)
    PROVE  \E e : /\ Alike(heap, e) /\ Sound(heap, e) /\ Assignable(e, s, t)
                  /\ e.blocked = heap.blocked
                  /\ Ends(Assign(e, s, t)) \/ Ends(MoveAssign(e, s, t))
  <1>1. PICK b \in BOOLEAN, h \in Begun :
            \/ Ends(Assign([h EXCEPT !.garbage = b], s, t))
            \/ Ends(MoveAssign([h EXCEPT !.garbage = b], s, t))
    BY DEF AssignSlot
  <1>2. s \in heap.alive /\ (s # t => ~LeadsTo(heap, t, s)) /\ Room(heap, t, 0)
    BY DEF AssignSlot
  <1>3. Alike(heap, h) /\ Sound(heap, h) /\ heap \in Heap /\ h \in Heap
    BY BegunAlike DEF IInv, Inv
  <1>a. h.blocked = heap.blocked
    <2>1. PICK d : h = [heap EXCEPT !.defers = d]
      BY DEF Begun
    <2> QED
      BY ONLY <1>3, <2>1 DEF Heap
  <1>4. t \in Holder
    BY <1>3, HeapFields, Sorts DEF Source
  <1>5. PICK e : e = [h EXCEPT !.garbage = b]
    OBVIOUS
  <1>6. e \in Heap
    BY ONLY <1>3, <1>5, b \in BOOLEAN DEF Heap
  <1>7. /\ e.rep = h.rep /\ e.alive = h.alive /\ e.call = h.call
        /\ e.functor = h.functor /\ e.parent = h.parent /\ e.watch = h.watch
        /\ e.told = h.told /\ e.conn = h.conn /\ e.blocked = h.blocked
        /\ e.dead = h.dead /\ e.listed = h.listed /\ e.misused = h.misused
    BY ONLY <1>3, <1>5 DEF Heap
  <1>8. Alike(h, e) /\ Sound(heap, e)
    <2>1. Alike(h, e)
      BY ONLY <1>6, <1>7 DEF Alike
    <2> QED
      BY <1>3, <2>1, AlikeSound
  <1>9. Alike(heap, e)
    BY ONLY <1>3, <1>8 DEF Alike
  <1>10. Nesting(e, t) <= Cardinality(FreeReps(e))
    <2>1. Nesting(heap, t) + 0 <= Cardinality(FreeReps(heap))
      BY <1>2 DEF Room
    <2>2. Nesting(e, t) = Nesting(heap, t) /\ FreeReps(e) = FreeReps(heap)
      BY <1>3, <1>4, <1>9, AlikeSame
    <2>3. Nesting(heap, t) \in Nat
      BY <1>3, <1>4, NestingUnfolds, Sorts DEF Nesting
    <2> QED
      BY ONLY <2>1, <2>2, <2>3
  <1>11. e.rep[t] = e.rep[s] \/ ~LeadsTo(e, t, s)
    <2>1. LeadsTo(e, t, s) <=> LeadsTo(heap, t, s)
      BY <1>3, <1>9, AlikeSame
    <2> QED
      BY ONLY <1>2, <2>1
  <1>12. s \in e.alive
    BY ONLY <1>2, <1>9 DEF Alike
  <1>13. Assignable(e, s, t)
    BY ONLY <1>4, <1>8, <1>10, <1>11, <1>12, s \in Slot DEF Assignable, Sound
  <1> QED
    BY <1>1, <1>a, <1>5, <1>7, <1>8, <1>9, <1>13

LEMMA AssignSlotStep ==
    ASSUME IInv, NEW s \in Slot, NEW t \in Source, AssignSlot(s, t)
    PROVE  Step
  <1>1. PICK e : /\ Sound(heap, e) /\ Assignable(e, s, t)
                 /\ Ends(Assign(e, s, t)) \/ Ends(MoveAssign(e, s, t))
    BY AssignSlotBegins
  <1>2. Sound(e, Assign(e, s, t)) /\ Sound(e, MoveAssign(e, s, t))
    BY <1>1, AssignKeeps, MoveAssignKeeps
  <1> QED
    BY <1>1, <1>2, EndsSound DEF IInv, Step

LEMMA AssignSlotTakes ==
    ASSUME IInv, NEW s \in Slot, NEW t \in Source, AssignSlot(s, t), ~Empty(heap, t)
    PROVE  TakesOver(s, t)
  <1>1. PICK e : /\ Alike(heap, e) /\ Assignable(e, s, t) /\ e.blocked = heap.blocked
                 /\ Ends(Assign(e, s, t)) \/ Ends(MoveAssign(e, s, t))
    BY AssignSlotBegins
  <1>2. PICK g : /\ g = Assign(e, s, t) \/ g = MoveAssign(e, s, t)
                 /\ Ends(g)
    BY <1>1
  <1>3. Present(heap, t)
    BY DEF Source, Present, Inners
  <1>4. /\ e.rep = heap.rep /\ e.call = heap.call /\ e.functor = heap.functor
        /\ e.alive = heap.alive
    BY <1>1 DEF Alike
  <1>5. Present(e, t) /\ ~Empty(e, t)
    BY ONLY <1>3, <1>4, ~Empty(heap, t) DEF Present, Inners, Empty
  <1>6. Assigned(e, s, t, g)
    BY ONLY <1>1, <1>2, <1>5, AssignCopies, MoveAssignCopies
  <1>7. g \in Heap
    BY <1>1, <1>2, AssignKeeps, MoveAssignKeeps DEF Sound, Inv
  <1>8. heap' = [g EXCEPT !.defers = FALSE, !.garbage = FALSE]
    BY <1>2 DEF Ends
  <1>9. /\ heap'.rep = g.rep /\ heap'.call = g.call /\ heap'.functor = g.functor
        /\ heap'.blocked = g.blocked /\ heap'.alive = g.alive
    BY ONLY <1>7, <1>8 DEF Heap
  <1>10. /\ g.rep[s] \in g.call /\ g.functor[g.rep[s]] = heap.functor[heap.rep[t]]
         /\ Present(g, t) => (s \in g.blocked <=> t \in heap.blocked)
    BY ONLY <1>1, <1>4, <1>6 DEF Assigned, Has, Empty
  <1>11. t \in Existing' <=> Present(g, t)
    BY ONLY <1>9 DEF Existing, Present, Inners
  <1> QED
    BY ONLY <1>9, <1>10, <1>11 DEF Empty, TakesOver

LEMMA EndSlotStep ==
    ASSUME IInv, NEW s \in Slot, EndSlot(s)
    PROVE  Step
  <1>1. PICK h \in Begun : ~Referred(s) /\ Ends(DestroySlot(h, s))
    BY DEF EndSlot
  <1>2. Alike(heap, h) /\ Sound(heap, h)
    BY BegunAlike DEF IInv
  <1>3. PICK U : U = {}
    OBVIOUS
  <1>4. PICK g : g = DestroySlot(h, s)
    OBVIOUS
  <1>5. Inv(h, U, {}, {}) /\ Told(h, {s}) /\ Complete(h, U)
    BY <1>2, <1>3 DEF Sound, Told, Complete
  <1>6. \A q \in Rep : h.functor[q] # s
    BY <1>1, <1>2 DEF Referred, Alike
  <1>7. Inv(g, U, {}, {}) /\ Told(g, {}) /\ (Conns(h) => Conns(g))
    BY <1>4, <1>5, <1>6, DestroySlotKeeps
  <1>8. Sound(h, g)
    BY <1>3, <1>7 DEF Sound
  <1> QED
    BY <1>1, <1>2, <1>4, <1>8, EndsSound DEF IInv, Step

LEMMA ListSlotStep ==
    ASSUME IInv, NEW s \in Slot, ListSlot(s)
    PROVE  Step
  <1>1. PICK h \in Begun : Ends(SetParent(h, s))
    BY DEF ListSlot
  <1>2. s \in heap.alive /\ ~Referred(s) /\ ~HasParent(s) /\ FreeReps(heap) # {}
    BY DEF ListSlot
  <1>3. Alike(heap, h) /\ Sound(heap, h) /\ heap \in Heap
    BY BegunAlike DEF IInv, Inv
  <1>4. /\ Inv(h, {}, {}, {}) /\ Told(h, {}) /\ s \in h.alive
        /\ \A q \in Rep : h.functor[q] # s
        /\ h.rep[s] # Null => h.parent[h.rep[s]] = Null
    BY <1>2, <1>3 DEF Sound, Referred, HasParent, Alike
  <1>5. FreeReps(h) # {}
    BY <1>2, <1>3, AlikeSame
  <1>6. Sound(h, SetParent(h, s))
    BY <1>4, <1>5, SetParentKeeps
  <1> QED
    BY <1>1, <1>3, <1>6, EndsSound DEF IInv, Step

LEMMA DisconnectSlotStep ==
    ASSUME IInv, NEW s \in Slot, DisconnectSlot(s)
    PROVE  Step
  <1>1. PICK h \in Begun : heap.rep[s] # Null /\ Ends(Disconnect(h, h.rep[s]))
    BY DEF DisconnectSlot
  <1>2. Alike(heap, h) /\ Sound(heap, h)
    BY BegunAlike DEF IInv
  <1>3. Inv(h, {}, {}, {}) /\ Told(h, {}) /\ h.rep[s] # Null
    BY <1>1, <1>2 DEF Sound, Alike
  <1>4. Sound(h, Disconnect(h, h.rep[s]))
    BY <1>3, DisconnectSound
  <1> QED
    BY <1>1, <1>2, <1>4, EndsSound DEF IInv, Step

LEMMA BlockSlotStep ==
    ASSUME IInv, NEW s \in Slot, BlockSlot(s)
    PROVE  Step
  <1> USE Sorts
  <1>1. PICK h \in Begun :
            Ends([h EXCEPT !.blocked = IF s \in @ THEN @ \ {s} ELSE @ \cup {s}])
    BY DEF BlockSlot
  <1>2. Alike(heap, h) /\ Sound(heap, h) /\ h \in Heap
    BY BegunAlike DEF IInv
  <1>3. PICK b : b = IF s \in h.blocked THEN h.blocked \ {s} ELSE h.blocked \cup {s}
    OBVIOUS
  <1>4. PICK g : g = [h EXCEPT !.blocked = b]
    OBVIOUS
  <1>5. b \in SUBSET Holder
    <2>1. h.blocked \in SUBSET Holder /\ s \in Holder
      BY <1>2, HeapFields
    <2> QED
      BY ONLY <1>3, <2>1
  <1>6. g \in Heap
    BY ONLY <1>2, <1>4, <1>5 DEF Heap
  <1>7. /\ g.rep = h.rep /\ g.alive = h.alive /\ g.call = h.call
        /\ g.functor = h.functor /\ g.parent = h.parent /\ g.watch = h.watch
        /\ g.told = h.told /\ g.conn = h.conn
        /\ g.dead = h.dead /\ g.listed = h.listed /\ g.misused = h.misused
    BY ONLY <1>2, <1>4 DEF Heap
  <1>8. Alike(h, g)
    BY ONLY <1>6, <1>7 DEF Alike
  <1>9. Sound(h, h)
    BY <1>2 DEF Sound
  <1>10. Sound(h, g)
    BY <1>8, <1>9, AlikeSound
  <1>11. Ends(g)
    BY <1>1, <1>3, <1>4
  <1> QED
    BY <1>2, <1>10, <1>11, EndsSound DEF IInv, Step

LEMMA EndObjectStep ==
    ASSUME IInv, NEW o \in Object, EndObject(o)
    PROVE  Step
  <1>1. PICK h \in Begun : Ends(Notified([h EXCEPT !.dead = @ \cup {o}], o))
    BY DEF EndObject
  <1>2. Alike(heap, h) /\ Sound(heap, h)
    BY BegunAlike DEF IInv
  <1>3. Inv(h, {}, {}, {}) /\ Told(h, {})
    BY <1>2 DEF Sound
  <1>4. Sound(h, Notified([h EXCEPT !.dead = @ \cup {o}], o))
    BY <1>3, EndObjectKeeps
  <1> QED
    BY <1>1, <1>2, <1>4, EndsSound DEF IInv, Step

LEMMA DisconnectThroughStep ==
    ASSUME IInv, NEW c \in Conn, DisconnectThrough(c)
    PROVE  Step
  <1>1. PICK h \in Begun : Ends(Disconnect(h, h.rep[h.conn[c]]))
    BY DEF DisconnectThrough
  <1>2. heap.conn[c] \in heap.alive /\ heap.rep[heap.conn[c]] # Null
    BY DEF DisconnectThrough
  <1>3. Alike(heap, h) /\ Sound(heap, h) /\ heap \in Heap
    BY BegunAlike DEF IInv, Inv
  <1>4. PICK s : s = h.conn[c]
    OBVIOUS
  <1>5. s \in Slot /\ h.rep[s] # Null
    <2>1. heap.alive \in SUBSET Slot
      BY <1>3, HeapFields
    <2> QED
      BY <1>2, <1>3, <1>4, <2>1 DEF Alike
  <1>6. Inv(h, {}, {}, {}) /\ Told(h, {})
    BY <1>3 DEF Sound
  <1>7. Sound(h, Disconnect(h, h.rep[s]))
    BY <1>5, <1>6, DisconnectSound
  <1> QED
    BY <1>1, <1>3, <1>4, <1>7, EndsSound DEF IInv, Step

\* Only the connections have changed.
Rewired(h, g) ==
    /\ g \in Heap
    /\ g.rep = h.rep /\ g.alive = h.alive /\ g.call = h.call /\ g.functor = h.functor
    /\ g.parent = h.parent /\ g.watch = h.watch
    /\ g.dead = h.dead /\ g.listed = h.listed /\ g.misused = h.misused

LEMMA RewiredKeeps ==
    ASSUME NEW h, Inv(h, {}, {}, {}), Told(h, {}), NEW g, Rewired(h, g)
    PROVE  Inv(g, {}, {}, {}) /\ Told(g, {})
  <1>1. /\ h \in Heap /\ ~h.misused /\ Watching(h) /\ Owned(h, {}) /\ Acyclic(h) /\ Refers(h)
        /\ Parents(h) /\ Callable(h, {}) /\ Nested(h, {})
    BY DEF Inv
  <1>2. /\ g \in Heap
        /\ g.rep = h.rep /\ g.alive = h.alive /\ g.call = h.call /\ g.functor = h.functor
        /\ g.parent = h.parent /\ g.watch = h.watch
        /\ g.dead = h.dead /\ g.listed = h.listed /\ g.misused = h.misused
    BY DEF Rewired
  <1>3. \A q, t : Edge(g, q, t) <=> Edge(h, q, t)
    BY ONLY <1>2 DEF Edge
  <1>4. /\ Watching(g) /\ Owned(g, {}) /\ Refers(g) /\ Nested(g, {}) /\ Told(g, {})
        /\ Callable(g, {})
    BY ONLY <1>1, <1>2, Told(h, {})
       DEF Watching, Owned, Refers, Nested, Told, Callable
  <1>5. Acyclic(g) /\ Parents(g)
    BY ONLY <1>1, <1>2, <1>3 DEF Acyclic, Parents
  <1> QED
    BY ONLY <1>1, <1>2, <1>4, <1>5 DEF Inv

\* The callback of a connection is removed.
LEMMA UnwatchedKeeps ==
    ASSUME NEW h \in Heap, NEW c \in Conn, NEW g, g = Unwatched(h, c)
    PROVE  Rewired(h, g) /\ g.conn[c] = Null /\ (Conns(h) => Conns(g))
  <1> USE Sorts
  <1>1. h.told \in [Rep -> SUBSET Conn] /\ h.conn \in [Conn -> Slot \cup {Null}]
    BY HeapFields
  <1>2. PICK s : s = h.conn[c]
    OBVIOUS
  <1>3. s \in Slot \cup {Null}
    BY <1>1, <1>2
  <1>4. PICK k : k = [h.conn EXCEPT ![c] = Null]
    OBVIOUS
  <1>5. k \in [Conn -> Slot \cup {Null}]
    BY ONLY <1>1, <1>4
  <1>6. CASE s # Null /\ h.rep[s] # Null
    <2>1. h.rep[s] \in Rep \cup {Null}
      BY <1>3, <1>6, HeapFields
    <2>2. PICK r \in Rep : r = h.rep[s]
      BY <2>1, <1>6
    <2>3. PICK w : w = [h.told EXCEPT ![r] = @ \ {c}]
      OBVIOUS
    <2>4. w \in [Rep -> SUBSET Conn]
      BY ONLY <1>1, <2>3
    <2>5. g = [h EXCEPT !.told = w, !.conn = k]
      BY ONLY <1>2, <1>4, <1>6, <2>2, <2>3, g = Unwatched(h, c) DEF Unwatched
    <2>6. g \in Heap
      BY ONLY <1>5, <2>4, <2>5, h \in Heap DEF Heap
    <2>7. /\ g.rep = h.rep /\ g.alive = h.alive /\ g.call = h.call /\ g.functor = h.functor
          /\ g.parent = h.parent /\ g.watch = h.watch
          /\ g.dead = h.dead /\ g.listed = h.listed /\ g.misused = h.misused
          /\ g.told = w /\ g.conn = k
      BY ONLY <2>5, h \in Heap DEF Heap
    <2>8. ASSUME Conns(h)
          PROVE  Conns(g)
      <3>1. \A d \in Conn : k[d] # Null => d # c /\ k[d] = h.conn[d]
        BY ONLY <1>1, <1>4
      <3>2. \A d \in Conn : d # c => k[d] = h.conn[d]
        BY ONLY <1>1, <1>4
      <3>3. \A d \in Conn, q \in Rep : d # c => (d \in w[q] <=> d \in h.told[q])
        BY ONLY <1>1, <2>3
      <3>4. \A q \in Rep : c \in w[q] => c \in h.told[q] /\ q # r
        BY ONLY <1>1, <2>3
      <3>5. \A q \in Rep : c \in h.told[q] => q = r
        BY <2>8, <1>2, <2>2 DEF Conns
      <3>6. k[c] = Null
        BY ONLY <1>1, <1>4, c \in Conn
      <3>7. \A d \in Conn : k[d] # Null => h.rep[k[d]] # Null
        BY <2>8, <3>1 DEF Conns
      <3>8. \A d \in Conn, q \in Rep : d \in w[q] <=> k[d] # Null /\ h.rep[k[d]] = q
        <4>1. \A d \in Conn, q \in Rep :
                  d # c => (d \in w[q] <=> k[d] # Null /\ h.rep[k[d]] = q)
          BY <2>8, <3>2, <3>3 DEF Conns
        <4>2. \A q \in Rep : ~(c \in w[q])
          BY <3>4, <3>5
        <4> QED
          BY ONLY <4>1, <4>2, <3>6
      <3> QED
        BY ONLY <2>7, <3>7, <3>8 DEF Conns
    <2>9. g.conn[c] = Null
      BY ONLY <1>1, <1>4, <2>7, c \in Conn
    <2> QED
      BY ONLY <2>6, <2>7, <2>8, <2>9 DEF Rewired
  <1>7. CASE ~(s # Null /\ h.rep[s] # Null)
    <2>1. g = [h EXCEPT !.conn = k]
      BY ONLY <1>2, <1>4, <1>7, g = Unwatched(h, c) DEF Unwatched
    <2>2. g \in Heap
      BY ONLY <1>5, <2>1, h \in Heap DEF Heap
    <2>3. /\ g.rep = h.rep /\ g.alive = h.alive /\ g.call = h.call /\ g.functor = h.functor
          /\ g.parent = h.parent /\ g.watch = h.watch
          /\ g.dead = h.dead /\ g.listed = h.listed /\ g.misused = h.misused
          /\ g.told = h.told /\ g.conn = k
      BY ONLY <2>1, h \in Heap DEF Heap
    <2>4. g.conn[c] = Null
      BY ONLY <1>1, <1>4, <2>3, c \in Conn
    <2>5. ASSUME Conns(h)
          PROVE  Conns(g)
      <3>1. s = Null
        BY <1>2, <1>7, <2>5 DEF Conns
      <3>2. k = h.conn
        BY ONLY <1>1, <1>2, <1>4, <3>1
      <3> QED
        BY ONLY <2>3, <2>5, <3>2 DEF Conns
    <2> QED
      BY ONLY <2>2, <2>3, <2>4, <2>5 DEF Rewired
  <1> QED
    BY <1>6, <1>7

\* The callback of a connection is added to the rep of the slot s.
LEMMA WatchedKeeps ==
    ASSUME NEW h \in Heap, NEW c \in Conn, NEW s \in Slot, NEW g, g = Watched(h, c, s)
    PROVE  /\ Rewired(h, g)
           /\ Conns(h) /\ h.conn[c] = Null /\ h.rep[s] # Null => Conns(g)
  <1> USE Sorts
  <1>1. h.told \in [Rep -> SUBSET Conn] /\ h.conn \in [Conn -> Slot \cup {Null}]
    BY HeapFields
  <1>2. PICK k : k = [h.conn EXCEPT ![c] = s]
    OBVIOUS
  <1>3. k \in [Conn -> Slot \cup {Null}]
    BY ONLY <1>1, <1>2, s \in Slot
  <1>4. CASE h.rep[s] # Null
    <2>1. h.rep[s] \in Rep \cup {Null}
      BY HeapFields
    <2>2. PICK r \in Rep : r = h.rep[s]
      BY <1>4, <2>1
    <2>3. PICK w : w = [h.told EXCEPT ![r] = @ \cup {c}]
      OBVIOUS
    <2>4. w \in [Rep -> SUBSET Conn]
      BY ONLY <1>1, <2>3, c \in Conn
    <2>5. g = [h EXCEPT !.told = w, !.conn = k]
      BY ONLY <1>2, <1>4, <2>2, <2>3, g = Watched(h, c, s) DEF Watched
    <2>6. g \in Heap
      BY ONLY <1>3, <2>4, <2>5, h \in Heap DEF Heap
    <2>7. /\ g.rep = h.rep /\ g.alive = h.alive /\ g.call = h.call /\ g.functor = h.functor
          /\ g.parent = h.parent /\ g.watch = h.watch
          /\ g.dead = h.dead /\ g.listed = h.listed /\ g.misused = h.misused
          /\ g.told = w /\ g.conn = k
      BY ONLY <2>5, h \in Heap DEF Heap
    <2>8. ASSUME Conns(h), h.conn[c] = Null
          PROVE  Conns(g)
      <3>1. \A d \in Conn : d # c => k[d] = h.conn[d]
        BY ONLY <1>1, <1>2
      <3>2. k[c] = s
        BY ONLY <1>1, <1>2, c \in Conn
      <3>3. \A d \in Conn, q \in Rep : d # c => (d \in w[q] <=> d \in h.told[q])
        BY ONLY <1>1, <2>3
      <3>4. \A q \in Rep : c \in w[q] <=> q = r \/ c \in h.told[q]
        BY ONLY <1>1, <2>3
      <3>5. \A q \in Rep : c \notin h.told[q]
        BY <2>8 DEF Conns
      <3>6. \A d \in Conn : k[d] # Null => h.rep[k[d]] # Null
        BY <1>4, <2>8, <3>1, <3>2 DEF Conns
      <3>7. \A d \in Conn, q \in Rep : d \in w[q] <=> k[d] # Null /\ h.rep[k[d]] = q
        <4>1. \A d \in Conn, q \in Rep :
                  d # c => (d \in w[q] <=> k[d] # Null /\ h.rep[k[d]] = q)
          BY <2>8, <3>1, <3>3 DEF Conns
        <4>2. \A q \in Rep : c \in w[q] <=> k[c] # Null /\ h.rep[k[c]] = q
          BY <2>2, <3>2, <3>4, <3>5
        <4> QED
          BY ONLY <4>1, <4>2
      <3> QED
        BY ONLY <2>7, <3>6, <3>7 DEF Conns
    <2> QED
      BY ONLY <1>4, <2>6, <2>7, <2>8 DEF Rewired
  <1>5. CASE h.rep[s] = Null
    <2>1. g = [h EXCEPT !.conn = k]
      BY ONLY <1>2, <1>5, g = Watched(h, c, s) DEF Watched
    <2>2. g \in Heap
      BY ONLY <1>3, <2>1, h \in Heap DEF Heap
    <2>3. /\ g.rep = h.rep /\ g.alive = h.alive /\ g.call = h.call /\ g.functor = h.functor
          /\ g.parent = h.parent /\ g.watch = h.watch
          /\ g.dead = h.dead /\ g.listed = h.listed /\ g.misused = h.misused
      BY ONLY <2>1, h \in Heap DEF Heap
    <2> QED
      BY ONLY <1>5, <2>2, <2>3 DEF Rewired
  <1> QED
    BY <1>4, <1>5

LEMMA EndConnectionStep ==
    ASSUME IInv, NEW c \in Conn, EndConnection(c)
    PROVE  Step
  <1> USE Sorts
  <1>1. Inv(heap, {}, {}, {}) /\ Told(heap, {}) /\ heap \in Heap
    BY DEF IInv, Inv
  <1>2. heap' = Unwatched(heap, c) /\ made' = [made EXCEPT ![c] = Null]
    BY DEF EndConnection
  <1>3. PICK g : g = Unwatched(heap, c)
    OBVIOUS
  <1>4. Rewired(heap, g) /\ (Conns(heap) => Conns(g))
    BY <1>1, <1>3, UnwatchedKeeps
  <1>5. Inv(g, {}, {}, {}) /\ Told(g, {})
    BY <1>1, <1>4, RewiredKeeps
  <1>6. made' \in [Conn -> Slot \cup {Null}]
    BY <1>2 DEF IInv
  <1>7. heap' = g
    BY <1>2, <1>3
  <1> QED
    BY <1>4, <1>5, <1>6, <1>7 DEF IInv, Step

LEMMA ConnectStep ==
    ASSUME IInv, NEW c \in Conn, NEW s \in Slot, Connect(c, s)
    PROVE  Step
  <1>1. Inv(heap, {}, {}, {}) /\ Told(heap, {}) /\ heap \in Heap
    BY DEF IInv, Inv
  <1>2. /\ heap.rep[s] = Null => EmptyConn
        /\ heap' = Watched(Unwatched(heap, c), c, s) /\ made' = [made EXCEPT ![c] = s]
    BY DEF Connect
  <1>3. PICK u : u = Unwatched(heap, c)
    OBVIOUS
  <1>4. PICK g : g = Watched(u, c, s)
    OBVIOUS
  <1>5. Rewired(heap, u) /\ u.conn[c] = Null /\ (Conns(heap) => Conns(u))
    BY <1>1, <1>3, UnwatchedKeeps
  <1>6. u \in Heap /\ u.rep = heap.rep
    BY <1>5 DEF Rewired
  <1>7. Rewired(u, g) /\ (Conns(u) /\ u.conn[c] = Null /\ u.rep[s] # Null => Conns(g))
    BY <1>4, <1>6, WatchedKeeps
  <1>8. Inv(u, {}, {}, {}) /\ Told(u, {})
    BY <1>1, <1>5, RewiredKeeps
  <1>9. Inv(g, {}, {}, {}) /\ Told(g, {})
    BY <1>7, <1>8, RewiredKeeps
  <1>10. ~EmptyConn /\ Conns(heap) => Conns(g)
    BY <1>2, <1>5, <1>6, <1>7
  <1>11. made' \in [Conn -> Slot \cup {Null}]
    BY <1>2 DEF IInv
  <1>12. heap' = g
    BY <1>2, <1>3, <1>4
  <1> QED
    BY <1>9, <1>10, <1>11, <1>12 DEF IInv, Step

LEMMA NextStep ==
    ASSUME IInv, [Next]_vars
    PROVE  Step
  <1>1. CASE \E s \in Slot : NewDefaultSlot(s) \/ EndSlot(s) \/ ListSlot(s)
                                \/ DisconnectSlot(s) \/ BlockSlot(s)
    BY <1>1, NewDefaultSlotStep, EndSlotStep, ListSlotStep, DisconnectSlotStep, BlockSlotStep
  <1>2. CASE \E s \in Slot,
                f \in (Object \ heap.dead) \cup (heap.alive \ heap.listed) : NewSlot(s, f)
    BY <1>2, NewSlotStep
  <1>3. CASE \E s \in Slot, t \in heap.alive : NewOuterSlot(s, t)
    BY <1>3, NewOuterSlotStep
  <1>4. CASE \E s \in Slot, t \in Source : CopyOrMove(s, t) \/ AssignSlot(s, t)
    BY <1>4, CopyOrMoveStep, AssignSlotStep
  <1>5. CASE \E o \in Object : EndObject(o)
    BY <1>5, EndObjectStep
  <1>6. CASE \E c \in Conn : EndConnection(c) \/ DisconnectThrough(c)
    BY <1>6, EndConnectionStep, DisconnectThroughStep
  <1>7. CASE \E c \in Conn, s \in Slot : Connect(c, s)
    BY <1>7, ConnectStep
  <1>8. CASE UNCHANGED vars
    BY <1>8 DEF vars, IInv, Step
  <1> QED
    BY <1>1, <1>2, <1>3, <1>4, <1>5, <1>6, <1>7, <1>8 DEF Next

LEMMA InitHeap ==
    ASSUME Init
    PROVE  IInv /\ Conns(heap)
  <1> USE Sorts
  <1>1. PICK nobody \in [Holder -> Rep \cup {Null}] : nobody = [s \in Holder |-> Null]
    OBVIOUS
  <1>2. PICK free \in [Rep -> Object \cup Slot \cup {"inner", "gone", "free"}] :
            free = [r \in Rep |-> "free"]
    OBVIOUS
  <1>3. PICK orphan \in [Rep -> Holder \cup {Null}] : orphan = [r \in Rep |-> Null]
    OBVIOUS
  <1>4. PICK none \in [Object -> Seq(Rep)] : none = [o \in Object |-> <<>>]
    <2>1. PICK q : q = <<>> /\ q \in Seq(Rep)
      BY EmptySeq
    <2>2. [o \in Object |-> q] \in [Object -> Seq(Rep)]
      BY ONLY <2>1
    <2> QED
      BY <2>1, <2>2
  <1>5. PICK silent \in [Rep -> SUBSET Conn] : silent = [r \in Rep |-> {}]
    OBVIOUS
  <1>6. PICK unset \in [Conn -> Slot \cup {Null}] : unset = [c \in Conn |-> Null]
    OBVIOUS
  <1>7. heap = [rep |-> nobody, blocked |-> {}, alive |-> {}, call |-> {}, functor |-> free,
                parent |-> orphan, watch |-> none, told |-> silent, conn |-> unset,
                dead |-> {}, listed |-> {}, misused |-> FALSE, defers |-> FALSE,
                garbage |-> FALSE]
    BY <1>1, <1>2, <1>3, <1>4, <1>5, <1>6 DEF Init
  <1>8. heap \in Heap
    BY ONLY <1>7, nobody \in [Holder -> Rep \cup {Null}],
            free \in [Rep -> Object \cup Slot \cup {"inner", "gone", "free"}],
            orphan \in [Rep -> Holder \cup {Null}], none \in [Object -> Seq(Rep)],
            silent \in [Rep -> SUBSET Conn], unset \in [Conn -> Slot \cup {Null}]
       DEF Heap
  <1>9. /\ heap.rep = nobody /\ heap.alive = {} /\ heap.call = {} /\ heap.functor = free
        /\ heap.parent = orphan /\ heap.watch = none /\ heap.told = silent
        /\ heap.conn = unset /\ heap.dead = {} /\ heap.listed = {} /\ ~heap.misused
    BY ONLY <1>7
  <1>10. /\ \A s \in Holder : heap.rep[s] = Null
         /\ \A r \in Rep : heap.functor[r] = "free" /\ heap.parent[r] = Null
                               /\ heap.told[r] = {}
         /\ \A o \in Object : heap.watch[o] = <<>>
         /\ \A c \in Conn : heap.conn[c] = Null
    BY ONLY <1>1, <1>2, <1>3, <1>4, <1>5, <1>6, <1>9
  <1>11. Watching(heap)
    <2> SUFFICES ASSUME NEW o \in Object
                 PROVE  IsInjective(heap.watch[o])
                        /\ ToSet(heap.watch[o]) = {r \in Rep : heap.functor[r] = o}
      BY DEF Watching
    <2>1. heap.watch[o] = <<>>
      BY <1>10
    <2>2. IsInjective(<<>>)
      BY DEF IsInjective
    <2>3. ToSet(<<>>) = {}
      BY DEF ToSet
    <2>4. o # "free"
      BY Sorts
    <2>5. {r \in Rep : heap.functor[r] = o} = {}
      BY ONLY <1>10, <2>4
    <2> QED
      BY <2>1, <2>2, <2>3, <2>5
  <1>12. \A q \in Rep, t \in Rep : ~Edge(heap, q, t)
    BY <1>10 DEF Edge
  <1>13. Acyclic(heap)
    BY ONLY <1>12 DEF Acyclic
  <1>14. Owned(heap, {}) /\ Refers(heap) /\ Parents(heap)
    BY <1>10 DEF Owned, Refers, Parents
  <1>15. Callable(heap, {}) /\ Nested(heap, {}) /\ Told(heap, {})
    BY ONLY <1>9 DEF Callable, Nested, Told
  <1>16. Conns(heap)
    BY <1>10 DEF Conns
  <1>17. made \in [Conn -> Slot \cup {Null}]
    BY DEF Init
  <1> QED
    BY <1>8, <1>9, <1>11, <1>13, <1>14, <1>15, <1>16, <1>17 DEF IInv, Inv

-----------------------------------------------------------------------------
(***************************************************************************)
(* The theorems.                                                           *)
(***************************************************************************)
\* In every state, no rep is owned twice or leaked, no slot contains itself,
\* every parent holds the slot it is the parent of, and what can be called
\* refers to what exists. (slot_base.cc:78-246; slot.h:289-317)
THEOREM SpecIInv == Spec => []IInv
  <1>1. Init => IInv
    BY InitHeap
  <1>2. IInv /\ [Next]_vars => IInv'
    BY NextStep DEF Step
  <1> QED
    BY <1>1, <1>2, PTL DEF Spec

LEMMA IInvTyped == IInv => TypeOK
  BY DEF IInv, Inv, Watching, TypeOK

LEMMA IInvOwned ==
    ASSUME IInv
    PROVE  OwnedOnce
  <1> USE Sorts
  <1>1. heap \in Heap /\ ~heap.misused /\ Owned(heap, {})
    BY DEF IInv, Inv
  <1>2. ASSUME NEW r \in Rep, heap.functor[r] = "free"
        PROVE  {s \in Holder : heap.rep[s] = r} = {}
    BY <1>1, <1>2 DEF Owned
  <1>3. ASSUME NEW r \in Rep, heap.functor[r] # "free"
        PROVE  /\ Cardinality({s \in Holder : heap.rep[s] = r}) = 1
               /\ {s \in Holder : heap.rep[s] = r} \subseteq Existing
    <2>1. PICK s \in Holder : heap.rep[s] = r
      BY <1>1, <1>3 DEF Owned
    <2>2. r # Null
      BY Sorts
    <2>3. \A t \in Holder : heap.rep[t] = r => t = s
      BY <1>1, <2>1, <2>2 DEF Owned
    <2>4. {t \in Holder : heap.rep[t] = r} = {s}
      BY <2>1, <2>3
    <2>5. s \in Existing
      BY <1>1, <2>1, <2>2, Sorts DEF Owned, Existing
    <2>6. Cardinality({s}) = 1
      BY FS_Singleton
    <2> QED
      BY <2>4, <2>5, <2>6
  <1> QED
    BY <1>1, <1>2, <1>3 DEF OwnedOnce

LEMMA IInvParents ==
    ASSUME IInv
    PROVE  ParentExists
  <1>1. heap \in Heap /\ Parents(heap)
    BY DEF IInv, Inv
  <1> SUFFICES ASSUME NEW r \in Rep, heap.parent[r] # Null
               PROVE  IF heap.parent[r] \in Rep
                      THEN \/ heap.functor[heap.parent[r]] = "inner"
                              /\ heap.rep[heap.parent[r]] = r
                           \/ heap.functor[heap.parent[r]] \in Slot
                              /\ heap.rep[heap.functor[heap.parent[r]]] = r
                      ELSE heap.rep[heap.parent[r]] = r
    BY DEF ParentExists
  <1>2. heap.parent[r] \in Rep => Edge(heap, heap.parent[r], r)
    BY <1>1 DEF Parents
  <1>3. heap.parent[r] \in Slot => heap.rep[heap.parent[r]] = r
    BY <1>1 DEF Parents
  <1>4. heap.parent[r] \in Rep \/ heap.parent[r] \in Slot
    <2>1. heap.parent[r] \in Holder \cup {Null}
      BY <1>1, HeapFields
    <2> QED
      BY <2>1, heap.parent[r] # Null, Sorts
  <1> QED
    BY <1>2, <1>3, <1>4 DEF Edge

LEMMA IInvCalled ==
    ASSUME IInv
    PROVE  NothingGoneIsCalled
  <1>1. Callable(heap, {}) /\ Nested(heap, {})
    BY DEF IInv, Inv
  <1>2. heap.dead \ {} = heap.dead /\ heap.call \ {} = heap.call
    OBVIOUS
  <1> QED
    BY <1>1, <1>2 DEF Callable, Nested, NothingGoneIsCalled

LEMMA IInvListed == IInv => ListKeepsItsSlots
  BY DEF IInv, Told, ListKeepsItsSlots

LEMMA ConnsRegistered ==
    ASSUME IInv, Conns(heap)
    PROVE  ConnectionsRegistered
  <1>1. heap \in Heap /\ Owned(heap, {})
    BY DEF IInv, Inv
  <1>2. ASSUME NEW c \in Conn, heap.conn[c] # Null
        PROVE  heap.conn[c] \in heap.alive
    <2>1. heap.conn[c] \in Slot
      BY <1>1, <1>2, HeapFields
    <2>2. heap.rep[heap.conn[c]] # Null
      BY <1>2 DEF Conns
    <2> QED
      BY <1>1, <2>1, <2>2 DEF Owned
  <1> QED
    BY <1>2 DEF Conns, ConnectionNotDangling, ConnectionsRegistered

\* Every field of the heap keeps its type, and the callbacks of an object are
\* those of the reps that refer to it, each of them once. (slot.h:77-105)
THEOREM SpecTypeOK == Spec => []TypeOK
  BY SpecIInv, IInvTyped, PTL

\* Whatever slots are made, copied, moved, assigned, disconnected or deleted,
\* every rep belongs to exactly one slot that exists, and none is used after
\* it was deleted. (slot_base.cc:78-87, 96-246)
THEOREM SpecOwnedOnce == Spec => []OwnedOnce
  BY SpecIInv, IInvOwned, PTL

\* The parent that a rep notifies holds the slot that the rep belongs to.
\* (slot.h:300-317; slot_base.h:90-103)
THEOREM SpecParentExists == Spec => []ParentExists
  BY SpecIInv, IInvParents, PTL

\* A slot that can be called refers to nothing that is gone, however deep the
\* slots are nested that it contains. (slot.h:289-293)
THEOREM SpecNothingGoneIsCalled == Spec => []NothingGoneIsCalled
  BY SpecIInv, IInvCalled, PTL

\* A list stays the parent of its elements, also after assignments to them.
\* (slot_base.cc:193-197, 239-243)
THEOREM SpecListKeepsItsSlots == Spec => []ListKeepsItsSlots
  BY SpecIInv, IInvListed, PTL

\* As long as no connection is made to a slot without a rep, connections are
\* registered where they point to, and are empty when their slot is gone.
\* (connection.h:109; weak_raw_ptr.h:36-75)
THEOREM SpecConnectionsRegistered ==
    ASSUME ~EmptyConn
    PROVE  Spec => []ConnectionsRegistered
  <1>1. Init => IInv /\ Conns(heap)
    BY InitHeap
  <1>2. IInv /\ Conns(heap) /\ [Next]_vars => IInv' /\ Conns(heap)'
    BY NextStep DEF Step
  <1>3. IInv /\ Conns(heap) => ConnectionsRegistered
    BY ConnsRegistered
  <1> QED
    BY <1>1, <1>2, <1>3, PTL DEF Spec

\* A slot that a valid one is assigned to can be called, has the functor that
\* the other one had, and is blocked if that was, whatever reps, slots and
\* callbacks the assignment has deleted; unless it has deleted the slot that it
\* copies from, whose blocked_ is then read too late. (slot_base.cc:173-246)
THEOREM SpecAssignmentTakes == Spec => AssignmentTakes
  <1>1. IInv /\ [Next]_vars =>
            [\A s \in Slot, t \in Source :
                 ~Empty(heap, t) /\ ~TakesOver(s, t) => ~AssignSlot(s, t)]_vars
    BY AssignSlotTakes
  <1> QED
    BY <1>1, SpecIInv, PTL DEF Spec, AssignmentTakes

=============================================================================
