--------------------------- MODULE SignalLifeProofs ---------------------------
(***************************************************************************)
(* Proofs about the life of the slots of module Signal and of the          *)
(* signal_impl itself: when a removal is made up for, that a slot lives    *)
(* while it is executed, and that nothing stays behind.                    *)
(*                                                                         *)
(* The invariant IInv of SignalProofs says that the pointers of the        *)
(* functions on the stack are good. JInv, below, says in addition why a    *)
(* slot is in the state that it is in, and who is bound to change that. It *)
(* is inductive relative to IInv, and each of its parts gives one of the   *)
(* theorems that follow it.                                                *)
(*                                                                         *)
(* From both invariants follows that Signal implements SignalContract: the *)
(* second part of the module.                                              *)
(***************************************************************************)
EXTENDS SignalProofs

\* The functions that have not returned. Their order matters to IInv alone.
Active == ToSet(stack)

Busy(F) == \E f \in F : f.op \in {"clear", "dtor"}

\* A slot that can be called has its functor, and tells the signal when it is
\* disconnected; what can tell the signal can be called. The functors whose
\* destructors run can not.
CallInv ==
    /\ \A s \in call : /\ functor[s] = "held"
                       /\ s \notin EmptySlot
                       /\ s \in Listed => s \in parent
    /\ \A s \in parent \ EmptySlot : s \in call /\ rep[s] = "live"
    /\ \A f \in Active : f.op \in FunctorDtor => functor[f.at] # "held"

\* A removal is put off only while some holder lasts, and never while the
\* list is being cleared.
DeferredInv == deferred => exec > 0 /\ ~Busy(Active)

\* An invalid slot in the list will be removed: by the sweep that is due, by
\* the clearing of the list, or by the sweep that has still to get to it.
PendingInv ==
    \A s \in Listed \cap Slot :
        \/ s \in call \cup EmptySlot
        \/ deferred
        \/ Busy(Active)
        \/ \E f \in Active : f.op = "sweep" /\ Before(slots, f.at, s)

\* A slot in the list loses its functor only to a trackable.
FunctorInv ==
    /\ \A s \in Listed \cap Slot :
          functor[s] = "held" \/ s \in EmptySlot \cup invalidated
    /\ \A f \in Active : f.op = "emit" /\ f.running => f.at \notin EmptySlot

\* A signal_impl that is being destroyed, or is, has no holder any more.
ImplInv == impl # "live" => \A f \in Active : ~KeepsImpl(f)

\* Whatever exists is owned: a functor by its rep, until its destructor is
\* run; a rep by the list, until it is deleted; the list by the signal_impl.
LifeInv ==
    /\ \A s \in Slot :
          /\ functor[s] = "held" => rep[s] = "live"
          /\ functor[s] = "dying" =>
                \E f \in Active : f.op \in FunctorDtor /\ f.at = s
          /\ rep[s] = "live" =>
                s \in Listed \/ \E f \in Active : f.op = "delete" /\ f.at = s
    /\ impl = "dead" => Listed = {}

JInv ==
    /\ CallInv
    /\ DeferredInv
    /\ PendingInv
    /\ FunctorInv
    /\ ImplInv
    /\ LifeInv

-----------------------------------------------------------------------------
(***************************************************************************)
(* The frames on the stack, whatever their order.                          *)
(***************************************************************************)
LEMMA FramesPush ==
    ASSUME NEW stk \in Seq(Frame), NEW f \in Frame
    PROVE  ToSet(Append(stk, f)) = ToSet(stk) \cup {f}
  <1>1. SUFFICES ASSUME NEW new, new = Append(stk, f)
                 PROVE  ToSet(new) = ToSet(stk) \cup {f}
    OBVIOUS
  <1>2. PICK n \in Nat : n = Len(stk)
    BY PushFacts
  <1>3. /\ DOMAIN stk = 1 .. n
        /\ DOMAIN new = 1 .. n + 1
        /\ new[n + 1] = f
        /\ \A i \in 1 .. n : new[i] = stk[i]
    BY <1>1, <1>2, PushFacts
  <1>4. QED
    BY <1>3 DEF ToSet

LEMMA FramesTop ==
    ASSUME TypeOK, stack # <<>>
    PROVE  /\ Active = ToSet(Caller) \cup {Top}
           /\ Caller \in Seq(Frame)
           /\ Top \in Frame
  <1>1. /\ Top \in Frame
        /\ Caller = CallerOf(stack)
        /\ stack \in Seq(Frame)
    BY TopFacts DEF TypeOK
  <1>2. PICK n \in Nat \ {0} : n = Len(stack)
    BY <1>1, PopFacts
  <1>3. /\ Caller \in Seq(Frame)
        /\ DOMAIN stack = 1 .. n
        /\ DOMAIN Caller = 1 .. n - 1
        /\ \A i \in 1 .. n - 1 : Caller[i] = stack[i]
    BY <1>1, <1>2, PopFacts
  <1>4. Top = stack[n]
    BY <1>2 DEF Top
  <1>5. Active = ToSet(Caller) \cup {Top}
    <2>1. \A i \in 1 .. n : i \in 1 .. n - 1 \/ i = n
      OBVIOUS
    <2>2. QED
      BY <1>3, <1>4, <2>1 DEF Active, ToSet
  <1>6. QED
    BY <1>1, <1>3, <1>5

LEMMA FramesContinue ==
    ASSUME TypeOK, stack # <<>>, NEW f \in Frame
    PROVE  ToSet(Continue(f)) = ToSet(Caller) \cup {f}
  BY FramesTop, FramesPush DEF Continue

\* What IInv says of a function on the stack.
LEMMA ActiveFacts ==
    ASSUME IInv, NEW f \in Active
    PROVE  /\ f \in Frame
           /\ f.op \in Dying => f.at \in Slot \ parent /\ rep[f.at] # "none"
           /\ f.op = "delete" => f.at \notin Listed
           /\ f.op \in {"clear", "dtor"} => Listed \cap parent = {}
           /\ f.op = "dtor" => impl # "live"
           /\ f.op = "sweep" => f.at \in (Listed \cap Slot) \cup {End}
           /\ f.op = "emit" /\ f.running => f.at \in Listed \cap Slot
           /\ f.op \in Holder => exec > 0
  <1>1. PICK i \in DOMAIN stack : f = stack[i]
    BY DEF Active, ToSet
  <1>2. stack \in Seq(Frame) /\ f \in Frame
    BY <1>1, ElementOfSeq, LenProperties DEF IInv, TypeOK
  <1>3. /\ f.op \in Dying => f.at \in Slot \ parent /\ rep[f.at] # "none"
        /\ f.op = "delete" => f.at \notin Listed
        /\ f.op \in {"clear", "dtor"} => Listed \cap parent = {}
    BY <1>1 DEF IInv, FramesInv, DyingInv, Listed
  <1>4. f.op = "dtor" => impl # "live"
    BY <1>1 DEF IInv, FramesInv, DtorInv
  <1>5. f.op = "sweep" => f.at \in (Listed \cap Slot) \cup {End}
    BY <1>1 DEF IInv, FramesInv, SweepInv, Listed
  <1>6. f.op = "emit" /\ f.running => f.at \in Listed \cap Slot
    <2>1. f.op = "emit" /\ f.running => f.at \in Slot /\ Before(slots, f.at, i)
      BY <1>1 DEF IInv, FramesInv, EmitInv
    <2>2. QED
      BY <2>1 DEF Before, Listed, ToSet
  <1>7. f.op \in Holder => exec > 0
    <2>1. exec \in Nat /\ exec = Cardinality(HolderDepths(stack))
      BY DEF IInv, TypeOK, ExecInv
    <2>2. exec = 0 => f.op \notin Holder
      BY <1>1, <1>2, <2>1, NoHolder
    <2>3. QED
      BY <2>1, <2>2
  <1>8. QED
    BY <1>2, <1>3, <1>4, <1>5, <1>6, <1>7

\* A signal that is being executed has a holder on the stack.
LEMMA SomeHolder ==
    ASSUME IInv, exec > 0
    PROVE  \E f \in Active : f.op \in Holder
  <1>1. HolderDepths(stack) # {}
    BY FS_EmptySet DEF IInv, ExecInv
  <1>2. QED
    BY <1>1 DEF HolderDepths, Active, ToSet

LEMMA BusyFacts ==
    /\ Busy(Active) <=> ListBusy
    /\ \A i \in DOMAIN stack : stack[i] \in Active
    /\ \A f \in Active : \E i \in DOMAIN stack : f = stack[i]
  BY DEF Busy, Active, ToSet, ListBusy

-----------------------------------------------------------------------------
(***************************************************************************)
(* The effect of the functions that several actions call.                  *)
(***************************************************************************)
LEMMA DeleteFacts ==
    ASSUME NEW s \in Slot, NEW stk \in Seq(Frame), DeleteRep(s, stk),
           NEW g, g = Call("delete", s)
    PROVE  /\ call' = call \ {s}
           /\ g.op = "delete" /\ g.at = s
           /\ functor[s] = "held" =>
                 /\ functor' = [functor EXCEPT ![s] = "dying"]
                 /\ Active' = ToSet(stk) \cup {g}
                 /\ UNCHANGED <<rep, invalidated>>
           /\ functor[s] # "held" =>
                 /\ rep' = [rep EXCEPT ![s] = "freed"]
                 /\ invalidated' = invalidated \ {s}
                 /\ Active' = ToSet(stk)
                 /\ functor' = functor
  <1>1. g \in Frame /\ g.op = "delete" /\ g.at = s
    BY CallIsFrame DEF FunctorDtor, Node
  <1>2. ToSet(Append(stk, g)) = ToSet(stk) \cup {g}
    BY <1>1, FramesPush
  <1>3. CASE functor[s] = "held"
    BY <1>1, <1>2, <1>3 DEF DeleteRep, Active
  <1>4. CASE functor[s] # "held"
    BY <1>1, <1>4 DEF DeleteRep, Free, Active
  <1>5. QED
    BY <1>3, <1>4

LEMMA ReleaseFacts ==
    ASSUME TypeOK, stack # <<>>, NEW q \in Seq(Node), Release(q),
           NEW g, g = Call("sweep", First(q))
    PROVE  /\ g.op = "sweep" /\ g.at = First(q)
           /\ exec = 1 /\ deferred =>
                 /\ Active' = ToSet(Caller) \cup {g}
                 /\ deferred' = FALSE /\ exec' = exec
           /\ ~(exec = 1 /\ deferred) =>
                 /\ Active' = ToSet(Caller)
                 /\ deferred' = deferred /\ exec' = exec - 1
  <1>1. g \in Frame /\ g.op = "sweep" /\ g.at = First(q)
    <2>1. First(q) \in Node \cup {End}
      BY FirstFacts, ElementOfSeq, LenProperties DEF ToSet
    <2>2. QED
      BY <2>1, CallIsFrame DEF Holder
  <1>2. ToSet(Continue(g)) = ToSet(Caller) \cup {g}
    BY <1>1, FramesContinue
  <1>3. QED
    BY <1>1, <1>2 DEF Release, Active

\* A slot leaves the list and is deleted, by a function called with the
\* frames F on the stack. New among them are at most the notification, the
\* erasing function or the sweep that brought this about.
LEMMA DeleteLife ==
    ASSUME IInv, JInv, NEW s \in Slot, NEW stk \in Seq(Frame), DeleteRep(s, stk),
           Listed' = Listed \ {s}, impl' = impl,
           parent' \subseteq parent, parent \ {s} \subseteq parent',
           s \in parent' => s \in EmptySlot,
           \A f \in ToSet(stk) :
               \/ f \in Active
               \/ f.op \in {"notify", "erase", "sweep"}
                     /\ (impl # "live" => ~KeepsImpl(f)),
           \A f \in Active : f.op \in FunctorDtor => f \in ToSet(stk)
    PROVE  CallInv' /\ FunctorInv' /\ ImplInv' /\ LifeInv'
  <1>1. PICK g : g = Call("delete", s)
    OBVIOUS
  <1>2. /\ call' = call \ {s}
        /\ g.op = "delete" /\ g.at = s
        /\ functor[s] = "held" =>
              /\ functor' = [functor EXCEPT ![s] = "dying"]
              /\ Active' = ToSet(stk) \cup {g}
              /\ UNCHANGED <<rep, invalidated>>
        /\ functor[s] # "held" =>
              /\ rep' = [rep EXCEPT ![s] = "freed"]
              /\ invalidated' = invalidated \ {s}
              /\ Active' = ToSet(stk)
              /\ functor' = functor
    BY <1>1, DeleteFacts
  <1>3. /\ functor \in [Slot -> {"none", "held", "dying"}]
        /\ rep \in [Slot -> {"none", "live", "freed"}]
        /\ call \subseteq Slot /\ parent \subseteq Slot
    BY DEF IInv, TypeOK
  <1>4. /\ \A t \in Slot \ {s} : functor'[t] = functor[t] /\ rep'[t] = rep[t]
        /\ functor[s] = "held" => functor'[s] = "dying" /\ rep'[s] = rep[s]
        /\ functor[s] # "held" => functor'[s] = functor[s] /\ rep'[s] = "freed"
    BY <1>2, <1>3
  <1>5. \A f \in Active' : \/ f \in Active
                           \/ f = g /\ functor[s] = "held"
                           \/ f.op \in {"notify", "erase", "sweep"}
                                 /\ (impl # "live" => ~KeepsImpl(f))
    BY <1>2
  <1>6. \A f \in Active : f.op \in FunctorDtor => f \in Active'
    BY <1>2
  <1>7. CallInv'
    <2>1. \A f \in Active' : f.op \in FunctorDtor => functor'[f.at] # "held"
      <3>1. ASSUME NEW f \in Active', f.op \in FunctorDtor
            PROVE  functor'[f.at] # "held"
        <4>1. f \in Active \/ f = g
          BY <1>5, <3>1 DEF FunctorDtor
        <4>2. CASE f \in Active
          <5>1. f.at \in Slot
            BY <3>1, <4>2, ActiveFacts DEF Dying
          <5>2. functor[f.at] # "held"
            BY <3>1, <4>2 DEF JInv, CallInv
          <5>3. QED
            BY <1>4, <5>1, <5>2
        <4>3. CASE f = g
          BY <1>2, <1>4, <4>3
        <4>4. QED
          BY <4>1, <4>2, <4>3
      <3>2. QED
        BY <3>1
    <2>2. ASSUME NEW t \in call'
          PROVE  functor'[t] = "held" /\ t \notin EmptySlot
                 /\ (t \in Listed' => t \in parent')
      BY <1>2, <1>3, <1>4 DEF JInv, CallInv
    <2>3. ASSUME NEW t \in parent' \ EmptySlot
          PROVE  t \in call' /\ rep'[t] = "live"
      BY <1>2, <1>3, <1>4 DEF JInv, CallInv
    <2>4. QED
      BY <2>1, <2>2, <2>3 DEF CallInv
  <1>8. FunctorInv'
    <2>1. \A t \in Listed' \cap Slot :
              functor'[t] = "held" \/ t \in EmptySlot \cup invalidated'
      BY <1>2, <1>4 DEF JInv, FunctorInv
    <2>2. \A f \in Active' : f.op = "emit" /\ f.running => f.at \notin EmptySlot
      BY <1>2, <1>5 DEF JInv, FunctorInv
    <2>3. QED
      BY <2>1, <2>2 DEF FunctorInv
  <1>9. ImplInv'
    <2>1. ~KeepsImpl(g)
      BY <1>2 DEF KeepsImpl
    <2>2. QED
      BY <1>5, <2>1 DEF JInv, ImplInv
  <1>10. LifeInv'
    <2>1. ASSUME NEW t \in Slot
          PROVE  /\ functor'[t] = "held" => rep'[t] = "live"
                 /\ functor'[t] = "dying" =>
                       \E f \in Active' : f.op \in FunctorDtor /\ f.at = t
                 /\ rep'[t] = "live" =>
                       t \in Listed' \/ \E f \in Active' : f.op = "delete" /\ f.at = t
      <3>1. CASE t = s /\ functor[s] = "held"
        BY <1>2, <1>4, <3>1 DEF FunctorDtor
      <3>2. CASE t = s /\ functor[s] # "held"
        BY <1>4, <1>6, <3>2 DEF JInv, LifeInv
      <3>3. CASE t # s
        <4>1. functor'[t] = functor[t] /\ rep'[t] = rep[t]
          BY <1>4, <3>3
        <4>2. "delete" \in FunctorDtor
          BY DEF FunctorDtor
        <4>3. QED
          BY <1>6, <3>3, <4>1, <4>2 DEF JInv, LifeInv
      <3>4. QED
        BY <3>1, <3>2, <3>3
    <2>2. impl' = "dead" => Listed' = {}
      BY DEF JInv, LifeInv
    <2>3. QED
      BY <2>1, <2>2 DEF LifeInv
  <1>11. QED
    BY <1>7, <1>8, <1>9, <1>10

\* A holder returns, or becomes the sweep that is due.
LEMMA ReleaseLife ==
    ASSUME IInv, JInv, stack # <<>>, Top.op \in Holder,
           slots' \in Seq(Node), Release(slots'),
           Listed' \cap Slot = Listed \cap Slot, Listed' \subseteq Listed,
           \A f \in Active, t \in Slot :
              f.op = "sweep" /\ Before(slots, f.at, t) => Before(slots', f.at, t),
           Top.op = "sweep" => Top.at = End,
           Top.op \in {"clear", "dtor"} => Listed' = {},
           UNCHANGED <<call, parent, rep, functor, invalidated>>,
           \/ impl' = impl
           \/ impl' = "dead" /\ impl # "live" /\ Listed' = {}
    PROVE  JInv'
  <1>1. PICK g : g = Call("sweep", First(slots'))
    OBVIOUS
  <1>2. /\ g.op = "sweep" /\ g.at = First(slots')
        /\ exec = 1 /\ deferred =>
              /\ Active' = ToSet(Caller) \cup {g}
              /\ deferred' = FALSE /\ exec' = exec
        /\ ~(exec = 1 /\ deferred) =>
              /\ Active' = ToSet(Caller)
              /\ deferred' = deferred /\ exec' = exec - 1
    BY <1>1, ReleaseFacts DEF IInv
  <1>3. Active = ToSet(Caller) \cup {Top}
    BY FramesTop DEF IInv
  <1>4. Top \in Active /\ exec \in Nat /\ exec > 0
    BY <1>3, ActiveFacts DEF IInv, TypeOK
  <1>5. \A f \in Active' : \/ f \in Active
                           \/ f = g /\ deferred
    BY <1>2, <1>3
  <1>6. \A f \in Active : f = Top \/ f \in Active'
    BY <1>2, <1>3
  <1>7. g.op \notin FunctorDtor /\ Top.op \notin FunctorDtor
    BY <1>2 DEF FunctorDtor, Holder
  <1>8. deferred => ~Busy(Active)
    BY DEF JInv, DeferredInv
  <1>9. CallInv'
    <2>1. call \subseteq Slot
      BY DEF IInv, TypeOK
    <2>2. QED
      BY <1>5, <1>7, <2>1 DEF JInv, CallInv
  <1>10. DeferredInv'
    <2>1. CASE exec = 1 /\ deferred
      BY <1>2, <2>1 DEF DeferredInv
    <2>2. CASE ~(exec = 1 /\ deferred)
      <3>1. Active' \subseteq Active /\ deferred' = deferred /\ exec' = exec - 1
        BY <1>2, <1>3, <2>2
      <3>2. deferred => exec' > 0
        BY <1>4, <2>2, <3>1
      <3>3. QED
        BY <1>8, <3>1, <3>2 DEF DeferredInv, Busy
    <2>3. QED
      BY <2>1, <2>2
  <1>11. PendingInv'
    <2>1. SUFFICES ASSUME NEW t \in Listed' \cap Slot, t \notin call \cup EmptySlot
                   PROVE  \/ deferred'
                          \/ Busy(Active')
                          \/ \E f \in Active' :
                                f.op = "sweep" /\ Before(slots', f.at, t)
      BY DEF PendingInv
    <2>2. CASE exec = 1 /\ deferred
      <3>1. Before(slots', First(slots'), t)
        <4>1. PICK j \in DOMAIN slots' : slots'[j] = t
          BY DEF Listed, ToSet
        <4>2. DOMAIN slots' = 1 .. Len(slots') /\ Len(slots') \in Nat
          BY LenProperties
        <4>3. 1 \in DOMAIN slots' /\ 1 <= j
          BY <4>1, <4>2
        <4>4. slots' # <<>>
          BY <4>1, EmptySeq
        <4>5. QED
          BY <4>1, <4>3, <4>4 DEF First, Before
      <3>2. QED
        BY <1>2, <2>2, <3>1
    <2>3. CASE ~(exec = 1 /\ deferred)
      <3>1. \/ deferred
            \/ Busy(Active)
            \/ \E f \in Active : f.op = "sweep" /\ Before(slots, f.at, t)
        BY <2>1 DEF JInv, PendingInv
      <3>2. CASE deferred
        BY <1>2, <2>3, <3>2
      <3>3. CASE Busy(Active)
        BY <1>6, <3>3 DEF Busy
      <3>4. CASE \E f \in Active : f.op = "sweep" /\ Before(slots, f.at, t)
        <4>1. PICK f \in Active : f.op = "sweep" /\ Before(slots, f.at, t)
          BY <3>4
        <4>2. f.at \in Listed
          BY <4>1 DEF Before, Listed, ToSet
        <4>3. f # Top
          <5>1. Listed \subseteq Node
            BY ElementOfSeq, LenProperties DEF IInv, TypeOK, Listed, ToSet
          <5>2. QED
            BY <4>1, <4>2, <5>1, NodesDisjoint
        <4>4. QED
          BY <1>6, <4>1, <4>3
      <3>5. QED
        BY <3>1, <3>2, <3>3, <3>4
    <2>4. QED
      BY <2>2, <2>3
  <1>12. FunctorInv'
    BY <1>2, <1>5 DEF JInv, FunctorInv
  <1>13. ImplInv'
    <2>1. impl # "live" => Top.op \in {"clear", "dtor"}
      BY <1>4 DEF JInv, ImplInv, KeepsImpl, Holder
    <2>2. impl # "live" => ~deferred
      BY <1>4, <1>8, <2>1 DEF Busy
    <2>3. QED
      BY <1>5, <2>2 DEF JInv, ImplInv
  <1>14. LifeInv'
    <2>1. "delete" \in FunctorDtor
      BY DEF FunctorDtor
    <2>2. \A f \in Active : f.op \in FunctorDtor => f \in Active'
      BY <1>6, <1>7
    <2>3. QED
      BY <2>1, <2>2 DEF JInv, LifeInv
  <1>15. QED
    BY <1>9, <1>10, <1>11, <1>12, <1>13, <1>14 DEF JInv

\* Nothing of what JInv speaks of changes but the iterator of the innermost
\* emission.
LEMMA MoveLife ==
    ASSUME IInv, JInv, TopIs("emit"), NEW f \in Frame, f.op = "emit",
           f.running => f.at \in call, stack' = Continue(f),
           UNCHANGED <<slots, exec, deferred, call, parent, rep, functor, impl,
                       invalidated>>
    PROVE  JInv'
  <1>1. stack # <<>> /\ Top.op = "emit"
    BY DEF TopIs
  <1>2. /\ Active = ToSet(Caller) \cup {Top}
        /\ Active' = ToSet(Caller) \cup {f}
    BY <1>1, FramesTop, FramesContinue DEF IInv, Active
  <1>3. /\ \A g \in Active' : g \in Active \/ g = f
        /\ \A g \in Active : g.op # "emit" => g \in Active'
        /\ Busy(Active') <=> Busy(Active)
    BY <1>1, <1>2 DEF Busy
  <1>4. CallInv'
    BY <1>3 DEF JInv, CallInv, FunctorDtor, Listed
  <1>5. DeferredInv' /\ PendingInv'
    BY <1>3 DEF JInv, DeferredInv, PendingInv, Listed
  <1>6. FunctorInv'
    BY <1>3 DEF JInv, FunctorInv, CallInv, Listed
  <1>7. ImplInv'
    <2>1. KeepsImpl(f) /\ KeepsImpl(Top) /\ Top \in Active
      BY <1>1, <1>2 DEF KeepsImpl
    <2>2. QED
      BY <1>3, <2>1 DEF JInv, ImplInv
  <1>8. LifeInv'
    BY <1>3 DEF JInv, LifeInv, FunctorDtor, Listed
  <1>9. QED
    BY <1>4, <1>5, <1>6, <1>7, <1>8 DEF JInv

LEMMA QuietLife ==
    ASSUME IInv, JInv,
           UNCHANGED <<slots, exec, deferred, call, parent, rep, functor, impl,
                       stack, invalidated>>
    PROVE  JInv'
  BY DEF JInv, CallInv, DeferredInv, PendingInv, FunctorInv, ImplInv, LifeInv,
         Active, Listed

-----------------------------------------------------------------------------
(***************************************************************************)
(* Every action preserves JInv.                                            *)
(***************************************************************************)
LEMMA EmissionMoves ==
    ASSUME IInv, JInv, EmitSkip \/ EmitInvoke \/ SlotReturns \/ SlotThrows
    PROVE  JInv'
  <1>1. TypeOK
    BY DEF IInv
  <1>2. CASE EmitSkip
    <2>1. TopIs("emit") /\ Top.at # TopMark
      BY <1>2 DEF EmitSkip, Emitting
    <2>2. QED
      BY <1>2, <2>1, NextSlot, MoveLife DEF EmitSkip
  <1>3. CASE EmitInvoke
    <2> DEFINE f == [Top EXCEPT !.running = TRUE]
    <2>1. TopIs("emit") /\ Top.at \in call
      BY <1>3 DEF EmitInvoke, Emitting, Empty
    <2>2. f \in Frame /\ f.op = "emit" /\ f.at = Top.at
      BY <2>1, EmissionFacts DEF Frame
    <2>3. stack' = Continue(f)
      BY <1>3 DEF EmitInvoke
    <2> HIDE DEF f
    <2>4. QED
      BY <1>3, <2>1, <2>2, <2>3, MoveLife DEF EmitInvoke
  <1>4. CASE SlotReturns
    <2>1. TopIs("emit") /\ Top.running
      BY <1>4 DEF SlotReturns
    <2>2. Top.at # TopMark
      BY <2>1, EmissionFacts, NodesDisjoint
    <2>3. QED
      BY <1>4, <2>1, <2>2, NextSlot, MoveLife DEF SlotReturns
  <1>5. CASE SlotThrows
    <2> DEFINE f == Call("emit", TopMark)
    <2>1. TopIs("emit")
      BY <1>5 DEF SlotThrows
    <2>2. f \in Frame /\ f.op = "emit" /\ f.running = FALSE
      BY <2>1, EmissionFacts DEF Call, Frame, Holder, Node
    <2>3. stack' = Continue(f)
      BY <1>5 DEF SlotThrows
    <2> HIDE DEF f
    <2>4. QED
      BY <1>5, <2>1, <2>2, <2>3, MoveLife DEF SlotThrows
  <1>6. QED
    BY <1>2, <1>3, <1>4, <1>5

LEMMA EmitEndLife ==
    ASSUME IInv, JInv, EmitEnd
    PROVE  JInv'
  <1>1. TopIs("emit") /\ stack # <<>> /\ Top.op = "emit"
    BY DEF EmitEnd, Emitting, TopIs
  <1>2. /\ TopMark \in Listed /\ TopMark \in Mark
        /\ slots \in Seq(Node) /\ IsInjective(slots)
    BY <1>1, EmissionFacts
  <1>3. slots' = Without(TopMark) /\ Release(slots')
    BY DEF EmitEnd
  <1>4. /\ slots' \in Seq(Node)
        /\ Listed' = Listed \ {TopMark}
        /\ \A a, b : Before(slots, a, b) /\ a # TopMark /\ b # TopMark
                         => Before(slots', a, b)
    BY <1>2, <1>3, WithoutFacts DEF Listed
  <1>5. TopMark \notin Slot \cup {End}
    BY <1>2, NodesDisjoint DEF Node
  <1>6. Listed' \cap Slot = Listed \cap Slot /\ Listed' \subseteq Listed
    BY <1>4, <1>5
  <1>7. \A f \in Active, t \in Slot :
            f.op = "sweep" /\ Before(slots, f.at, t) => Before(slots', f.at, t)
    <2>1. \A f \in Active : f.op = "sweep" => f.at # TopMark
      BY <1>5, ActiveFacts
    <2>2. QED
      BY <1>4, <1>5, <2>1
  <1>8. Top.op \in Holder /\ UNCHANGED <<call, parent, rep, functor, impl, invalidated>>
    BY <1>1 DEF Holder, EmitEnd
  <1>9. QED
    BY <1>1, <1>3, <1>4, <1>6, <1>7, <1>8, ReleaseLife

LEMMA HolderDoneLife ==
    ASSUME IInv, JInv, EraseDone \/ SweepEnd \/ ClearDone
    PROVE  JInv'
  <1>1. /\ stack # <<>>
        /\ Top.op \in Holder
        /\ Top.op = "sweep" => Top.at = End
        /\ Top.op \in {"clear", "dtor"} => slots = <<>>
        /\ Release(slots)
        /\ UNCHANGED <<slots, call, parent, rep, functor, invalidated>>
    BY DEF EraseDone, SweepEnd, ClearDone, Clearing, TopIs, Holder
  <1>2. slots' \in Seq(Node) /\ Listed' = Listed
    BY <1>1 DEF IInv, TypeOK, Listed
  <1>3. Top.op \in {"clear", "dtor"} => Listed = {}
    BY <1>1 DEF Listed, ToSet
  <1>4. \/ impl' = impl
        \/ impl' = "dead" /\ impl # "live" /\ Listed = {}
    <2>1. CASE EraseDone \/ SweepEnd
      BY <2>1 DEF EraseDone, SweepEnd
    <2>2. CASE ClearDone
      <3>1. Top \in Active
        BY <1>1, FramesTop DEF IInv
      <3>2. Top.op = "dtor" => impl # "live"
        BY <3>1, ActiveFacts
      <3>3. QED
        BY <1>1, <1>3, <2>2, <3>2 DEF ClearDone, TopIs
    <2>3. QED
      BY <2>1, <2>2
  <1>5. QED
    BY <1>1, <1>2, <1>3, <1>4, ReleaseLife

LEMMA NotifyResumeLife ==
    ASSUME IInv, JInv, NotifyResume
    PROVE  JInv'
  <1>1. PICK s : s = Top.at
    OBVIOUS
  <1>2. PICK g : g = Call("destroy", s)
    OBVIOUS
  <1>3. /\ stack # <<>> /\ Top.op = "notify"
        /\ UNCHANGED <<slots, exec, deferred, parent, rep, impl>>
        /\ rep[s] = "live" /\ functor[s] = "held" =>
              /\ functor' = [functor EXCEPT ![s] = "dying"]
              /\ call' = call \ {s}
              /\ invalidated' = invalidated \cup {s}
              /\ stack' = Continue(g)
        /\ ~(rep[s] = "live" /\ functor[s] = "held") =>
              /\ stack' = Caller
              /\ UNCHANGED <<call, functor, invalidated>>
    BY <1>1, <1>2 DEF NotifyResume, TopIs
  <1>4. s \in Slot \ parent
    BY <1>1, <1>3, DyingFacts DEF Dying
  <1>5. g \in Frame /\ g.op = "destroy" /\ g.at = s
    BY <1>2, <1>4, CallIsFrame DEF FunctorDtor, Node
  <1>6. /\ Active = ToSet(Caller) \cup {Top}
        /\ ToSet(Continue(g)) = ToSet(Caller) \cup {g}
    BY <1>3, <1>5, FramesTop, FramesContinue DEF IInv
  <1>7. /\ \A f \in Active' :
              \/ f \in Active
              \/ f = g /\ rep[s] = "live" /\ functor[s] = "held"
        /\ \A f \in Active : f.op # "notify" => f \in Active'
        /\ Busy(Active') <=> Busy(Active)
    <2>1. Active' = ToSet(stack')
      BY DEF Active
    <2>2. \/ Active' = ToSet(Caller)
          \/ Active' = ToSet(Caller) \cup {g} /\ rep[s] = "live" /\ functor[s] = "held"
      BY <1>3, <1>6, <2>1
    <2>3. Top.op \notin {"clear", "dtor"} /\ g.op \notin {"clear", "dtor"}
      BY <1>3, <1>5
    <2>4. Busy(Active') <=> Busy(Active)
      BY <1>6, <2>2, <2>3 DEF Busy
    <2>5. QED
      BY <1>3, <1>6, <2>2, <2>4
  <1>8. /\ functor \in [Slot -> {"none", "held", "dying"}]
        /\ call \subseteq Slot
    BY DEF IInv, TypeOK
  <1>9. Listed' = Listed /\ (s \in Listed => s \notin call)
    BY <1>3, <1>4 DEF Listed, JInv, CallInv
  <1>10. CallInv'
    <2>1. \A t \in call' : functor'[t] = functor[t] /\ t \in call
      BY <1>3, <1>8
    <2>2. \A t \in parent' \ EmptySlot : t \in call' /\ rep'[t] = "live"
      BY <1>3, <1>4 DEF JInv, CallInv
    <2>3. ASSUME NEW f \in Active', f.op \in FunctorDtor
          PROVE  functor'[f.at] # "held"
      <3>1. CASE f \in Active
        <4>1. functor[f.at] # "held" /\ f.at \in Slot
          BY <2>3, <3>1, ActiveFacts DEF JInv, CallInv, Dying
        <4>2. QED
          BY <1>3, <1>8, <4>1
      <3>2. CASE f \notin Active
        <4>1. f.at = s /\ functor' = [functor EXCEPT ![s] = "dying"]
          BY <1>3, <1>5, <1>7, <3>2
        <4>2. QED
          BY <1>4, <1>8, <4>1
      <3>3. QED
        BY <3>1, <3>2
    <2>4. QED
      BY <1>3, <1>9, <2>1, <2>2, <2>3 DEF JInv, CallInv
  <1>11. DeferredInv'
    BY <1>3, <1>7 DEF JInv, DeferredInv
  <1>12. PendingInv'
    <2>1. \A t \in Listed : t \in call => t \in call'
      BY <1>3, <1>9
    <2>2. QED
      BY <1>3, <1>7, <1>9, <2>1 DEF JInv, PendingInv
  <1>13. FunctorInv'
    <2>1. \A t \in Slot : functor[t] = "held" => functor'[t] = "held" \/ t \in invalidated'
      BY <1>3, <1>8
    <2>2. invalidated \subseteq invalidated'
      BY <1>3
    <2>3. QED
      BY <1>5, <1>7, <1>9, <2>1, <2>2 DEF JInv, FunctorInv
  <1>14. ImplInv'
    BY <1>3, <1>5, <1>7 DEF JInv, ImplInv, KeepsImpl
  <1>15. LifeInv'
    <2>1. ASSUME NEW t \in Slot
          PROVE  /\ functor'[t] = "held" => rep'[t] = "live"
                 /\ functor'[t] = "dying" =>
                       \E f \in Active' : f.op \in FunctorDtor /\ f.at = t
      <3>1. CASE functor'[t] = functor[t]
        BY <1>3, <1>7, <3>1 DEF JInv, LifeInv, FunctorDtor
      <3>2. CASE functor'[t] # functor[t]
        <4>1. t = s /\ functor'[t] = "dying" /\ g \in Active'
          BY <1>3, <1>4, <1>6, <1>8, <3>2 DEF Active
        <4>2. QED
          BY <1>5, <4>1 DEF FunctorDtor
      <3>3. QED
        BY <3>1, <3>2
    <2>2. QED
      BY <1>3, <1>7, <1>9, <2>1 DEF JInv, LifeInv
  <1>16. QED
    BY <1>10, <1>11, <1>12, <1>13, <1>14, <1>15 DEF JInv

LEMMA FunctorDoneLife ==
    ASSUME IInv, JInv, FunctorDone
    PROVE  JInv'
  <1>1. PICK s : s = Top.at
    OBVIOUS
  <1>2. /\ stack # <<>> /\ Top.op \in FunctorDtor
        /\ functor' = [functor EXCEPT ![s] = "none"]
        /\ stack' = Caller
        /\ UNCHANGED <<slots, exec, deferred, call, parent, impl>>
        /\ Top.op = "delete" =>
              /\ rep' = [rep EXCEPT ![s] = "freed"]
              /\ invalidated' = invalidated \ {s}
        /\ Top.op # "delete" => UNCHANGED <<rep, invalidated>>
    BY <1>1 DEF FunctorDone, TopIs, Free
  <1>3. Active = ToSet(Caller) \cup {Top} /\ Active' = ToSet(Caller)
    BY <1>2, FramesTop DEF IInv, Active
  <1>4. Top \in Active /\ Top.op \in Dying
    BY <1>2, <1>3 DEF Dying
  <1>5. /\ s \in Slot \ parent
        /\ Top.op = "delete" => s \notin Listed
        /\ functor[s] # "held"
    BY <1>1, <1>2, <1>4, ActiveFacts DEF JInv, CallInv
  <1>6. /\ functor \in [Slot -> {"none", "held", "dying"}]
        /\ rep \in [Slot -> {"none", "live", "freed"}]
        /\ call \subseteq Slot /\ parent \subseteq Slot
    BY DEF IInv, TypeOK
  <1>7. /\ \A t \in Slot \ {s} : functor'[t] = functor[t] /\ rep'[t] = rep[t]
        /\ functor'[s] = "none"
        /\ rep'[s] = IF Top.op = "delete" THEN "freed" ELSE rep[s]
    BY <1>2, <1>5, <1>6
  <1>8. /\ Active' \subseteq Active
        /\ \A f \in Active : f = Top \/ f \in Active'
        /\ Busy(Active') <=> Busy(Active)
        /\ Listed' = Listed
    <2>1. Top.op \notin {"clear", "dtor"}
      BY <1>2 DEF FunctorDtor
    <2>2. QED
      BY <1>2, <1>3, <2>1 DEF Busy, Listed
  <1>9. CallInv'
    <2>1. s \notin call
      BY <1>5 DEF JInv, CallInv
    <2>2. \A f \in Active' : f.op \in FunctorDtor => f.at \in Slot
      BY <1>8, ActiveFacts DEF Dying
    <2>3. QED
      BY <1>2, <1>5, <1>6, <1>7, <1>8, <2>1, <2>2 DEF JInv, CallInv
  <1>10. DeferredInv' /\ PendingInv'
    <2>1. Top.op # "sweep"
      BY <1>2 DEF FunctorDtor
    <2>2. QED
      BY <1>2, <1>8, <2>1 DEF JInv, DeferredInv, PendingInv
  <1>11. FunctorInv'
    <2>1. \A t \in Listed : t \in invalidated => t \in invalidated'
      BY <1>2, <1>5
    <2>2. \A t \in Slot : functor[t] = "held" => functor'[t] = "held"
      BY <1>5, <1>7
    <2>3. QED
      BY <1>8, <2>1, <2>2 DEF JInv, FunctorInv
  <1>12. ImplInv'
    BY <1>2, <1>8 DEF JInv, ImplInv
  <1>13. LifeInv'
    <2>1. ASSUME NEW t \in Slot
          PROVE  /\ functor'[t] = "held" => rep'[t] = "live"
                 /\ functor'[t] = "dying" =>
                       \E f \in Active' : f.op \in FunctorDtor /\ f.at = t
                 /\ rep'[t] = "live" =>
                       t \in Listed' \/ \E f \in Active' : f.op = "delete" /\ f.at = t
      <3>1. CASE t = s
        BY <1>7, <1>8, <3>1 DEF JInv, LifeInv
      <3>2. CASE t # s
        BY <1>1, <1>7, <1>8, <3>2 DEF JInv, LifeInv
      <3>3. QED
        BY <3>1, <3>2
    <2>2. QED
      BY <1>2, <1>8, <2>1 DEF JInv, LifeInv
  <1>14. QED
    BY <1>9, <1>10, <1>11, <1>12, <1>13 DEF JInv

LEMMA SweepEraseLife ==
    ASSUME IInv, JInv, SweepErase
    PROVE  JInv'
  <1>1. PICK s : s = Top.at
    OBVIOUS
  <1>2. PICK g : g = Call("sweep", Successor(s))
    OBVIOUS
  <1>3. PICK here : here = Continue(g)
    OBVIOUS
  <1>4. /\ stack # <<>> /\ Top.op = "sweep" /\ s # End /\ s \notin call
        /\ slots' = Without(s)
        /\ UNCHANGED <<exec, deferred, parent, handles, impl>>
        /\ s \in Slot => DeleteRep(s, here)
    BY <1>1, <1>2, <1>3 DEF SweepErase, Empty, TopIs
  <1>5. /\ \A i \in DOMAIN Caller : Caller[i].op \notin {"emit", "sweep"}
        /\ s \in Slot /\ s \in Listed
    BY <1>1, <1>4, ExclusiveFacts
  <1>6. slots \in Seq(Node) /\ IsInjective(slots)
    BY DEF IInv, TypeOK, FramesInv, EmitInv
  <1>7. /\ Listed' = Listed \ {s}
        /\ \A a, b : Before(slots, a, b) /\ a # s /\ b # s => Before(slots', a, b)
    BY <1>4, <1>5, <1>6, WithoutFacts DEF Listed
  <1>8. /\ Successor(s) \in (Listed \ {s}) \cup {End}
        /\ \A m : Before(slots, s, m) /\ s # m => Before(slots, Successor(s), m)
    BY <1>5, <1>6, SuccessorFacts
  <1>9. g \in Frame /\ g.op = "sweep" /\ g.at = Successor(s)
    <2>1. Listed \subseteq Node
      BY <1>6, ElementOfSeq, LenProperties DEF Listed, ToSet
    <2>2. QED
      BY <1>2, <1>8, <2>1, CallIsFrame DEF Holder
  <1>10. /\ Active = ToSet(Caller) \cup {Top}
         /\ ToSet(here) = ToSet(Caller) \cup {g}
         /\ here \in Seq(Frame)
         /\ Caller \in Seq(Frame)
    <2>1. /\ Active = ToSet(Caller) \cup {Top}
          /\ ToSet(here) = ToSet(Caller) \cup {g}
          /\ Caller \in Seq(Frame)
      BY <1>3, <1>4, <1>9, FramesTop, FramesContinue DEF IInv
    <2>2. here \in Seq(Frame)
      BY <1>3, <1>9, <2>1, PushFacts DEF Continue
    <2>3. QED
      BY <2>1, <2>2
  <1>11. Top \in Active
    BY <1>10
  <1>12. impl = "live"
    BY <1>4, <1>11 DEF JInv, ImplInv, KeepsImpl
  <1>13. s \in parent' => s \in EmptySlot
    BY <1>4 DEF JInv, CallInv
  <1>14. CallInv' /\ FunctorInv' /\ ImplInv' /\ LifeInv'
    <2>1. \A f \in ToSet(here) :
              \/ f \in Active
              \/ f.op \in {"notify", "erase", "sweep"}
                    /\ (impl # "live" => ~KeepsImpl(f))
      BY <1>9, <1>10, <1>12
    <2>2. \A f \in Active : f.op \in FunctorDtor => f \in ToSet(here)
      BY <1>4, <1>10 DEF FunctorDtor
    <2>3. DeleteRep(s, here)
      BY <1>4, <1>5
    <2>4. QED
      BY <1>4, <1>5, <1>7, <1>10, <1>13, <2>1, <2>2, <2>3, DeleteLife
  <1>15. /\ call' = call \ {s}
         /\ ToSet(here) \subseteq Active'
         /\ Active' \subseteq ToSet(here) \cup {Call("delete", s)}
         /\ Call("delete", s).op = "delete"
    BY <1>4, <1>5, <1>10, DeleteFacts
  <1>16. Busy(Active') <=> Busy(Active)
    BY <1>4, <1>9, <1>10, <1>15 DEF Busy
  <1>17. DeferredInv'
    BY <1>4, <1>16 DEF JInv, DeferredInv
  <1>18. PendingInv'
    <2>1. SUFFICES ASSUME NEW t \in Listed' \cap Slot, t \notin call' \cup EmptySlot,
                          ~deferred', ~Busy(Active')
                   PROVE  \E f \in Active' :
                             f.op = "sweep" /\ Before(slots', f.at, t)
      BY DEF PendingInv
    <2>2. t \in Listed /\ t # s /\ t \notin call \cup EmptySlot
      BY <1>7, <1>15, <2>1
    <2>3. PICK f \in Active : f.op = "sweep" /\ Before(slots, f.at, t)
      BY <1>4, <1>16, <2>1, <2>2 DEF JInv, PendingInv
    <2>4. f = Top
      BY <1>5, <1>10, <2>3 DEF ToSet
    <2>5. Before(slots, Successor(s), t)
      BY <1>1, <1>8, <2>2, <2>3, <2>4
    <2>6. Successor(s) # s
      BY <1>4, <1>8
    <2>7. Before(slots', g.at, t) /\ g \in Active'
      BY <1>7, <1>9, <1>10, <1>15, <2>2, <2>5, <2>6
    <2>8. QED
      BY <1>9, <2>7
  <1>19. QED
    BY <1>14, <1>17, <1>18 DEF JInv

LEMMA SweepSkipLife ==
    ASSUME IInv, JInv, SweepSkip
    PROVE  JInv'
  <1>1. PICK s : s = Top.at
    OBVIOUS
  <1>2. PICK g : g = Call("sweep", Successor(s))
    OBVIOUS
  <1>3. /\ stack # <<>> /\ Top.op = "sweep" /\ s # End /\ s \in call
        /\ stack' = Continue(g)
        /\ UNCHANGED <<slots, exec, deferred, call, parent, rep, functor, impl,
                       invalidated>>
    BY <1>1, <1>2 DEF SweepSkip, Empty, TopIs
  <1>4. /\ \A i \in DOMAIN Caller : Caller[i].op \notin {"emit", "sweep"}
        /\ s \in Listed
    BY <1>1, <1>3, ExclusiveFacts
  <1>5. slots \in Seq(Node) /\ IsInjective(slots)
    BY DEF IInv, TypeOK, FramesInv, EmitInv
  <1>6. /\ Successor(s) \in (Listed \ {s}) \cup {End}
        /\ \A m : Before(slots, s, m) /\ s # m => Before(slots, Successor(s), m)
    BY <1>4, <1>5, SuccessorFacts
  <1>7. g \in Frame /\ g.op = "sweep" /\ g.at = Successor(s)
    <2>1. Listed \subseteq Node
      BY <1>5, ElementOfSeq, LenProperties DEF Listed, ToSet
    <2>2. QED
      BY <1>2, <1>6, <2>1, CallIsFrame DEF Holder
  <1>8. /\ Active = ToSet(Caller) \cup {Top}
        /\ Active' = ToSet(Caller) \cup {g}
    BY <1>3, <1>7, FramesTop, FramesContinue DEF IInv, Active
  <1>9. /\ \A f \in Active' : f \in Active \/ f = g
        /\ \A f \in Active : f.op # "sweep" => f \in Active'
        /\ Busy(Active') <=> Busy(Active)
        /\ Listed' = Listed
    BY <1>3, <1>7, <1>8 DEF Busy, Listed
  <1>10. CallInv' /\ DeferredInv'
    BY <1>3, <1>7, <1>9 DEF JInv, CallInv, DeferredInv, FunctorDtor
  <1>11. PendingInv'
    <2>1. SUFFICES ASSUME NEW t \in Listed \cap Slot, t \notin call \cup EmptySlot,
                          ~deferred, ~Busy(Active)
                   PROVE  \E f \in Active' :
                             f.op = "sweep" /\ Before(slots, f.at, t)
      BY <1>3, <1>9 DEF PendingInv
    <2>2. PICK f \in Active : f.op = "sweep" /\ Before(slots, f.at, t)
      BY <2>1 DEF JInv, PendingInv
    <2>3. f = Top
      BY <1>4, <1>8, <2>2 DEF ToSet
    <2>4. Before(slots, g.at, t) /\ g \in Active'
      BY <1>1, <1>3, <1>6, <1>7, <1>8, <2>1, <2>2, <2>3
    <2>5. QED
      BY <1>7, <2>4
  <1>12. FunctorInv'
    BY <1>3, <1>7, <1>9 DEF JInv, FunctorInv
  <1>13. ImplInv'
    <2>1. KeepsImpl(Top) /\ Top \in Active
      BY <1>3, <1>8 DEF KeepsImpl
    <2>2. QED
      BY <1>3, <2>1 DEF JInv, ImplInv
  <1>14. LifeInv'
    BY <1>3, <1>9 DEF JInv, LifeInv, FunctorDtor
  <1>15. QED
    BY <1>10, <1>11, <1>12, <1>13, <1>14 DEF JInv

LEMMA ClearStepLife ==
    ASSUME IInv, JInv, ClearStep
    PROVE  JInv'
  <1>1. PICK s : s = Head(slots)
    OBVIOUS
  <1>2. /\ stack # <<>> /\ Top.op \in {"clear", "dtor"}
        /\ slots # <<>> /\ slots' = Tail(slots)
        /\ UNCHANGED <<exec, deferred, parent, handles, impl>>
        /\ s \in Slot => DeleteRep(s, stack)
    BY <1>1 DEF ClearStep, Clearing, TopIs
  <1>3. stack \in Seq(Frame) /\ slots \in Seq(Node) /\ IsInjective(slots)
    BY DEF IInv, TypeOK, FramesInv, EmitInv
  <1>4. Listed' = Listed \ {s} /\ s \in Listed
    BY <1>1, <1>2, <1>3, TailOfList DEF Listed
  <1>5. s \in Slot /\ s \notin parent
    BY <1>2, <1>4, ExclusiveFacts
  <1>6. DeleteRep(s, stack)
    BY <1>2, <1>5
  <1>7. CallInv' /\ FunctorInv' /\ ImplInv' /\ LifeInv'
    <2>1. ToSet(stack) = Active
      BY DEF Active
    <2>2. QED
      BY <1>2, <1>3, <1>4, <1>5, <1>6, <2>1, DeleteLife
  <1>8. Busy(Active) /\ Busy(Active')
    <2>1. Top \in Active
      BY <1>2, FramesTop DEF IInv
    <2>2. Active \subseteq Active'
      BY <1>3, <1>5, <1>6, DeleteFacts DEF Active
    <2>3. QED
      BY <1>2, <2>1, <2>2 DEF Busy
  <1>9. DeferredInv' /\ PendingInv'
    BY <1>2, <1>8 DEF JInv, DeferredInv, PendingInv
  <1>10. QED
    BY <1>7, <1>9 DEF JInv

(***************************************************************************)
(* The operations of the users.                                            *)
(***************************************************************************)
LEMMA ConnectLife ==
    ASSUME IInv, JInv, NEW s \in Slot, Connect(s)
    PROVE  JInv'
  <1>1. /\ HasHandle /\ ~ListBusy /\ rep[s] = "none"
        /\ slots' \in {Append(slots, s), <<s>> \o slots}
        /\ parent' = parent \cup {s}
        /\ rep' = [rep EXCEPT ![s] = "live"]
        /\ UNCHANGED <<exec, deferred, handles, impl, stack, invalidated>>
        /\ s \in EmptySlot => UNCHANGED <<call, functor>>
        /\ s \notin EmptySlot => /\ call' = call \cup {s}
                                 /\ functor' = [functor EXCEPT ![s] = "held"]
    BY DEF Connect
  <1>2. s \notin Listed \cup parent \cup call /\ functor[s] = "none"
    BY <1>1 DEF IInv, SlotInv, Listed
  <1>3. impl = "live"
    BY <1>1 DEF IInv, HandleInv
  <1>4. slots \in Seq(Node) /\ IsInjective(slots) /\ s \in Node
    BY DEF IInv, TypeOK, FramesInv, EmitInv, Node
  <1>5. /\ Listed' = Listed \cup {s}
        /\ \A a, b : Before(slots, a, b) => Before(slots', a, b)
    <2>1. CASE slots' = Append(slots, s)
      BY <1>2, <1>4, <2>1, AppendToList DEF Listed
    <2>2. CASE slots' = <<s>> \o slots
      BY <1>2, <1>4, <2>2, PrependToList DEF Listed
    <2>3. QED
      BY <1>1, <2>1, <2>2
  <1>6. Active' = Active
    BY <1>1 DEF Active
  <1>7. /\ functor \in [Slot -> {"none", "held", "dying"}]
        /\ rep \in [Slot -> {"none", "live", "freed"}]
        /\ call \subseteq Slot /\ parent \subseteq Slot
    BY DEF IInv, TypeOK
  <1>8. /\ \A t \in Slot \ {s} : functor'[t] = functor[t] /\ rep'[t] = rep[t]
        /\ rep'[s] = "live"
        /\ s \in EmptySlot => functor'[s] = "none"
        /\ s \notin EmptySlot => functor'[s] = "held" /\ s \in call'
        /\ call \subseteq call' /\ call' \subseteq call \cup {s}
    BY <1>1, <1>2, <1>7
  <1>9. CallInv'
    <2>1. \A f \in Active' : f.op \in FunctorDtor => functor'[f.at] # "held"
      <3>1. ASSUME NEW f \in Active, f.op \in FunctorDtor
            PROVE  functor'[f.at] # "held"
        <4>1. f.at \in Slot \ {s} /\ functor[f.at] # "held"
          BY <1>1, <3>1, ActiveFacts DEF JInv, CallInv, Dying
        <4>2. QED
          BY <1>8, <4>1
      <3>2. QED
        BY <1>6, <3>1
    <2>2. ASSUME NEW t \in call'
          PROVE  functor'[t] = "held" /\ t \notin EmptySlot
                 /\ (t \in Listed' => t \in parent')
      <3>1. CASE t = s
        BY <1>1, <1>2, <1>8, <3>1
      <3>2. CASE t # s
        BY <1>1, <1>5, <1>7, <1>8, <3>2 DEF JInv, CallInv
      <3>3. QED
        BY <3>1, <3>2
    <2>3. \A t \in parent' \ EmptySlot : t \in call' /\ rep'[t] = "live"
      BY <1>1, <1>7, <1>8 DEF JInv, CallInv
    <2>4. QED
      BY <2>1, <2>2, <2>3 DEF CallInv
  <1>10. DeferredInv' /\ PendingInv'
    BY <1>1, <1>5, <1>6, <1>8 DEF JInv, DeferredInv, PendingInv
  <1>11. FunctorInv'
    BY <1>1, <1>5, <1>6, <1>8 DEF JInv, FunctorInv
  <1>12. ImplInv'
    BY <1>3, <1>1 DEF ImplInv
  <1>13. LifeInv'
    BY <1>1, <1>3, <1>5, <1>6, <1>8 DEF JInv, LifeInv
  <1>14. QED
    BY <1>9, <1>10, <1>11, <1>12, <1>13 DEF JInv

\* A slot is disconnected by the user or by a dying trackable, whose
\* notification may be new on the stack stk.
LEMMA DisconnectLife ==
    ASSUME IInv, JInv, NEW s \in Slot, rep[s] = "live", NEW stk \in Seq(Frame),
           Active \subseteq ToSet(stk),
           \A f \in ToSet(stk) : f \in Active \/ f.op = "notify",
           UNCHANGED impl, DisconnectRep(s, stk)
    PROVE  JInv'
  <1>1. parent' = parent \ {s}
    BY DEF DisconnectRep
  <1>2. call \subseteq Slot /\ parent \subseteq Slot /\ exec \in Nat
    BY DEF IInv, TypeOK
  <1>3. \A f \in ToSet(stk) : f \in Active \/ (f.op = "notify" /\ ~KeepsImpl(f))
    BY DEF KeepsImpl
  <1>4. CASE s \in parent /\ impl = "live" /\ exec = 0
    <2>1. PICK g : g = Call("erase", s)
      OBVIOUS
    <2>2. PICK er : er = Append(stk, g)
      OBVIOUS
    <2>3. /\ exec' = exec + 1
          /\ slots' = Without(s)
          /\ DeleteRep(s, er)
          /\ deferred' = deferred
      BY <1>4, <2>1, <2>2 DEF DisconnectRep
    <2>4. slots \in Seq(Node) /\ IsInjective(slots) /\ s \in Listed
      BY <1>4 DEF IInv, TypeOK, FramesInv, EmitInv, SlotInv, Listed
    <2>5. Listed' = Listed \ {s}
      BY <2>3, <2>4, WithoutFacts DEF Listed
    <2>6. g \in Frame /\ g.op = "erase"
      BY <2>1, CallIsFrame DEF Holder, Node
    <2>7. er \in Seq(Frame) /\ ToSet(er) = ToSet(stk) \cup {g}
      BY <2>2, <2>6, FramesPush, PushFacts
    <2>8. CallInv' /\ FunctorInv' /\ ImplInv' /\ LifeInv'
      <3>1. \A f \in ToSet(er) : \/ f \in Active
                                 \/ f.op \in {"notify", "erase", "sweep"}
                                       /\ (impl # "live" => ~KeepsImpl(f))
        BY <1>4, <2>6, <2>7
      <3>2. \A f \in Active : f.op \in FunctorDtor => f \in ToSet(er)
        BY <2>7
      <3>3. parent' \subseteq parent /\ parent \ {s} \subseteq parent' /\ s \notin parent'
        BY <1>1
      <3>4. QED
        BY <2>3, <2>5, <2>7, <3>1, <3>2, <3>3, DeleteLife
    <2>9. ~deferred
      BY <1>2, <1>4 DEF JInv, DeferredInv
    <2>10. ~Busy(Active) /\ \A f \in Active : f.op # "sweep"
      BY <1>2, <1>4, ActiveFacts DEF Busy, Holder
    <2>11. call' = call \ {s}
      BY <2>3, <2>7, DeleteFacts
    <2>12. PendingInv'
      BY <2>5, <2>9, <2>10, <2>11 DEF JInv, PendingInv
    <2>13. DeferredInv'
      BY <2>3, <2>9 DEF DeferredInv
    <2>14. QED
      BY <2>8, <2>12, <2>13 DEF JInv
  <1>5. CASE ~(s \in parent /\ impl = "live" /\ exec = 0)
    <2>1. /\ call' = call \ {s}
          /\ deferred' = (deferred \/ (s \in parent /\ impl = "live"))
          /\ stack' = stk
          /\ UNCHANGED <<slots, exec, rep, functor, invalidated>>
      BY <1>5 DEF DisconnectRep
    <2>2. /\ Active' = ToSet(stk) /\ Active \subseteq Active'
          /\ \A f \in Active' : f \in Active \/ (f.op = "notify" /\ ~KeepsImpl(f))
          /\ Busy(Active') <=> Busy(Active)
          /\ Listed' = Listed
      BY <1>3, <2>1 DEF Active, Busy, Listed
    <2>3. CallInv'
      BY <1>1, <1>2, <2>1, <2>2 DEF JInv, CallInv, FunctorDtor
    <2>4. s \in parent => exec > 0 /\ ~Busy(Active) /\ impl = "live"
      <3>1. ASSUME s \in parent
            PROVE  s \in Listed /\ impl = "live"
        BY <3>1 DEF IInv, SlotInv, Listed
      <3>2. s \in parent => ~Busy(Active)
        BY <3>1, ActiveFacts DEF Busy
      <3>3. QED
        BY <1>2, <1>5, <3>1, <3>2
    <2>5. DeferredInv'
      BY <2>1, <2>2, <2>4 DEF JInv, DeferredInv
    <2>6. PendingInv'
      <3>1. CASE s \in parent
        BY <2>1, <2>4, <3>1 DEF PendingInv
      <3>2. CASE s \notin parent
        <4>1. s \in Listed => s \notin call
          BY <3>2 DEF JInv, CallInv
        <4>2. QED
          BY <2>1, <2>2, <3>2, <4>1 DEF JInv, PendingInv
      <3>3. QED
        BY <3>1, <3>2
    <2>7. FunctorInv'
      BY <2>1, <2>2 DEF JInv, FunctorInv
    <2>8. ImplInv'
      BY <2>2 DEF JInv, ImplInv
    <2>9. LifeInv'
      BY <2>1, <2>2 DEF JInv, LifeInv
    <2>10. QED
      BY <2>3, <2>5, <2>6, <2>7, <2>8, <2>9 DEF JInv
  <1>6. QED
    BY <1>4, <1>5

LEMMA UserDisconnectLife ==
    ASSUME IInv, JInv, NEW s \in Slot, Disconnect(s) \/ Invalidate(s)
    PROVE  JInv'
  <1>1. stack \in Seq(Frame) /\ ToSet(stack) = Active
    BY DEF IInv, TypeOK, Active
  <1>2. CASE Disconnect(s)
    <2>1. rep[s] = "live" /\ DisconnectRep(s, stack) /\ UNCHANGED impl
      BY <1>2 DEF Disconnect
    <2>2. QED
      BY <1>1, <2>1, DisconnectLife
  <1>3. CASE Invalidate(s)
    <2>1. PICK g : g = Call("notify", s)
      OBVIOUS
    <2>2. PICK stk : stk = Append(stack, g)
      OBVIOUS
    <2>3. rep[s] = "live" /\ DisconnectRep(s, stk) /\ UNCHANGED impl
      BY <1>3, <2>1, <2>2 DEF Invalidate, Push
    <2>4. g \in Frame /\ g.op = "notify"
      BY <2>1, CallIsFrame DEF Node
    <2>5. stk \in Seq(Frame) /\ ToSet(stk) = Active \cup {g}
      BY <1>1, <2>2, <2>4, PushFacts, FramesPush
    <2>6. QED
      BY <2>3, <2>4, <2>5, DisconnectLife
  <1>4. QED
    BY <1>2, <1>3

\* The list is about to be cleared: by clear(), or by the destructor of a
\* signal_impl that only functions of the list could still be using.
LEMMA ClearingLife ==
    ASSUME IInv, JInv, NEW op \in {"clear", "dtor"}, ~deferred,
           call' = call \ Listed, parent' = parent \ Listed,
           exec' = exec + 1, stack' = Push(Call(op, End)),
           UNCHANGED <<slots, deferred, rep, functor, invalidated>>,
           impl' # "dead", impl' # "live" => ~KeepsImpl(Call(op, End)),
           impl' # "live" => \A f \in Active : ~KeepsImpl(f)
    PROVE  JInv'
  <1>1. PICK g : g = Call(op, End)
    OBVIOUS
  <1>2. g \in Frame /\ g.op = op
    BY <1>1, CallIsFrame DEF Holder
  <1>3. Active' = Active \cup {g}
    BY <1>1, <1>2, FramesPush DEF IInv, TypeOK, Active, Push
  <1>4. Busy(Active') /\ Listed' = Listed
    BY <1>2, <1>3 DEF Busy, Listed
  <1>5. CallInv'
    BY <1>2, <1>3, <1>4 DEF JInv, CallInv, FunctorDtor
  <1>6. DeferredInv' /\ PendingInv'
    BY <1>4 DEF DeferredInv, PendingInv
  <1>7. FunctorInv'
    BY <1>2, <1>3, <1>4 DEF JInv, FunctorInv
  <1>8. ImplInv'
    BY <1>1, <1>3 DEF ImplInv, KeepsImpl
  <1>9. LifeInv'
    BY <1>3, <1>4 DEF JInv, LifeInv
  <1>10. QED
    BY <1>5, <1>6, <1>7, <1>8, <1>9 DEF JInv

LEMMA UserClearLife ==
    ASSUME IInv, JInv, Clear
    PROVE  JInv'
  <1>1. /\ HasHandle /\ ~ListBusy
        /\ call' = call \ Listed
        /\ parent' = parent \ Listed
        /\ UNCHANGED <<slots, blocked, rep, functor, handles, impl, invalidated>>
    BY DEF Clear
  <1>2. impl = "live" /\ ~Busy(Active) /\ exec \in Nat
    BY <1>1, BusyFacts DEF IInv, HandleInv, TypeOK
  <1>3. CASE exec > 0
    <2>1. /\ deferred' = (deferred \/ Listed \cap parent # {})
          /\ UNCHANGED <<exec, stack>>
      BY <1>3 DEF Clear
    <2>2. Active' = Active /\ Listed' = Listed
      BY <1>1, <2>1 DEF Active, Listed
    <2>3. CallInv' /\ FunctorInv' /\ ImplInv' /\ LifeInv'
      BY <1>1, <2>2 DEF JInv, CallInv, FunctorInv, ImplInv, LifeInv
    <2>4. DeferredInv'
      BY <1>2, <1>3, <2>1, <2>2 DEF DeferredInv
    <2>5. PendingInv'
      <3>1. ASSUME ~deferred'
            PROVE  \A t \in Listed : t \notin call
        BY <2>1, <3>1 DEF JInv, CallInv
      <3>2. QED
        BY <1>1, <2>1, <2>2, <3>1 DEF JInv, PendingInv
    <2>6. QED
      BY <2>3, <2>4, <2>5 DEF JInv
  <1>4. CASE ~(exec > 0)
    <2>1. /\ exec' = exec + 1
          /\ stack' = Push(Call("clear", End))
          /\ UNCHANGED deferred
      BY <1>4 DEF Clear
    <2>2. ~deferred
      BY <1>4 DEF JInv, DeferredInv
    <2>3. impl' = "live"
      BY <1>1, <1>2
    <2>4. QED
      BY <1>1, <2>1, <2>2, <2>3, ClearingLife
  <1>5. QED
    BY <1>3, <1>4

LEMMA ImplDestroyedLife ==
    ASSUME IInv, JInv, ImplDestroyed
    PROVE  JInv'
  <1>1. /\ \A i \in DOMAIN stack : ~KeepsImpl(stack[i])
        /\ impl' = "dying"
        /\ exec' = exec + 1
        /\ call' = call \ Listed
        /\ parent' = parent \ Listed
        /\ stack' = Push(Call("dtor", End))
        /\ UNCHANGED <<slots, deferred, blocked, rep, functor, handles,
                       invalidated>>
    BY DEF ImplDestroyed, Orphaned
  <1>2. \A f \in Active : ~KeepsImpl(f)
    BY <1>1, BusyFacts
  <1>3. ~deferred
    <2>1. SUFFICES ASSUME deferred PROVE FALSE
      OBVIOUS
    <2>2. exec > 0 /\ ~Busy(Active)
      BY <2>1 DEF JInv, DeferredInv
    <2>3. PICK f \in Active : f.op \in Holder
      BY <2>2, SomeHolder
    <2>4. QED
      BY <1>2, <2>2, <2>3 DEF Busy, Holder, KeepsImpl
  <1>4. ~KeepsImpl(Call("dtor", End))
    BY DEF KeepsImpl, Call
  <1>5. QED
    BY <1>1, <1>2, <1>3, <1>4, ClearingLife

LEMMA EmitLife ==
    ASSUME IInv, JInv, Emit
    PROVE  JInv'
  <1>1. PICK m : m = Len(stack) + 1
    OBVIOUS
  <1>2. PICK g : g = Call("emit", First(slots))
    OBVIOUS
  <1>3. /\ HasHandle /\ Len(stack) < MaxStack
        /\ slots' = Append(slots, m)
        /\ exec' = exec + 1
        /\ stack' = Append(stack, g)
        /\ UNCHANGED <<deferred, call, parent, rep, functor, impl, invalidated>>
    BY <1>1, <1>2 DEF Emit, Push
  <1>4. /\ stack \in Seq(Frame) /\ slots \in Seq(Node) /\ IsInjective(slots)
        /\ EmitInv(slots, stack) /\ exec \in Nat
    BY DEF IInv, TypeOK, FramesInv, EmitInv
  <1>5. g \in Frame /\ g.op = "emit" /\ g.running = FALSE
    <2>1. First(slots) \in Node \cup {End}
      BY <1>4, FirstFacts, ElementOfSeq, LenProperties DEF ToSet
    <2>2. QED
      BY <1>2, <2>1, CallIsFrame DEF Holder
  <1>6. m \in Mark /\ m \in Node /\ m \notin Slot /\ m \notin Listed
    <2>1. Len(stack) \in Nat /\ DOMAIN stack = 1 .. Len(stack)
      BY <1>4, LenProperties
    <2>2. m \in Mark /\ m \notin DOMAIN stack
      BY <1>1, <1>3, <2>1, BoundAssumption DEF Mark
    <2>3. QED
      BY <1>4, <2>2, NodesDisjoint DEF EmitInv, Node, Listed
  <1>7. /\ Listed' = Listed \cup {m}
        /\ \A a, b : Before(slots, a, b) => Before(slots', a, b)
    BY <1>3, <1>4, <1>6, AppendToList DEF Listed
  <1>8. Active' = Active \cup {g}
    BY <1>3, <1>4, <1>5, FramesPush DEF Active
  <1>9. (Busy(Active') <=> Busy(Active)) /\ Listed' \cap Slot = Listed \cap Slot
    BY <1>5, <1>6, <1>7, <1>8 DEF Busy
  <1>10. impl = "live"
    BY <1>3 DEF IInv, HandleInv
  <1>11. CallInv'
    <2>1. call \subseteq Slot
      BY DEF IInv, TypeOK
    <2>2. QED
      BY <1>3, <1>5, <1>6, <1>7, <1>8, <2>1 DEF JInv, CallInv, FunctorDtor
  <1>12. DeferredInv'
    BY <1>3, <1>4, <1>9 DEF JInv, DeferredInv
  <1>13. PendingInv'
    BY <1>3, <1>7, <1>8, <1>9 DEF JInv, PendingInv
  <1>14. FunctorInv'
    BY <1>3, <1>5, <1>8, <1>9 DEF JInv, FunctorInv
  <1>15. ImplInv'
    BY <1>3, <1>10 DEF ImplInv
  <1>16. LifeInv'
    BY <1>3, <1>8, <1>7, <1>10 DEF JInv, LifeInv
  <1>17. QED
    BY <1>11, <1>12, <1>13, <1>14, <1>15, <1>16 DEF JInv

-----------------------------------------------------------------------------
(***************************************************************************)
(* The theorems.                                                           *)
(***************************************************************************)
LEMMA InitJInv == Init => JInv
  <1>1. SUFFICES ASSUME Init PROVE JInv
    OBVIOUS
  <1>2. Listed = {} /\ Active = {}
    BY <1>1 DEF Init, Listed, Active, ToSet
  <1>3. /\ call = {} /\ parent = {} /\ deferred = FALSE /\ impl = "live"
        /\ \A s \in Slot : rep[s] = "none" /\ functor[s] = "none"
    BY <1>1 DEF Init
  <1>4. QED
    BY <1>2, <1>3 DEF JInv, CallInv, DeferredInv, PendingInv, FunctorInv,
                      ImplInv, LifeInv

LEMMA NextJInv == IInv /\ JInv /\ [Next]_vars => JInv'
  <1>1. SUFFICES ASSUME IInv, JInv, [Next]_vars PROVE JInv'
    OBVIOUS
  <1>2. CASE ImplDestroyed
    BY <1>1, <1>2, ImplDestroyedLife
  <1>3. CASE UserOperation
    <2>1. ASSUME NEW s \in Slot, Connect(s) PROVE JInv'
      BY <1>1, <2>1, ConnectLife
    <2>2. ASSUME NEW s \in Slot, Disconnect(s) \/ Invalidate(s) PROVE JInv'
      BY <1>1, <2>2, UserDisconnectLife
    <2>3. CASE (\E s \in Slot : Block(s)) \/ BlockAll \/ CopyHandle \/ DropHandle
      <3>1. UNCHANGED <<slots, exec, deferred, call, parent, rep, functor, impl,
                        stack, invalidated>>
        BY <2>3 DEF Block, BlockAll, CopyHandle, DropHandle
      <3>2. QED
        BY <1>1, <3>1, QuietLife
    <2>4. CASE Clear
      BY <1>1, <2>4, UserClearLife
    <2>5. CASE Emit
      BY <1>1, <2>5, EmitLife
    <2>6. QED
      BY <1>3, <2>1, <2>2, <2>3, <2>4, <2>5 DEF UserOperation
  <1>4. CASE UserReturns
    BY <1>1, <1>4, EmissionMoves, FunctorDoneLife DEF UserReturns
  <1>5. CASE LibraryStep
    BY <1>1, <1>5, EmissionMoves, EmitEndLife, NotifyResumeLife,
       HolderDoneLife, SweepEraseLife, SweepSkipLife, ClearStepLife
       DEF LibraryStep
  <1>6. CASE Finished \/ UNCHANGED vars
    <2>1. UNCHANGED <<slots, exec, deferred, call, parent, rep, functor, impl,
                      stack, invalidated>>
      BY <1>6 DEF Finished, vars
    <2>2. QED
      BY <1>1, <2>1, QuietLife
  <1>7. QED
    BY <1>1, <1>2, <1>3, <1>4, <1>5, <1>6 DEF Next

\* The reasons for the state of each slot hold in every reachable state.
THEOREM LifeInvariant == Spec => []JInv
  <1>1. QED
    BY InitJInv, NextJInv, InductiveInvariant, PTL DEF Spec

\* ~signal_impl never gets to sweep(), where shared_from_this() would throw:
\* no removal is pending while the list is cleared.
\* (signal_base.cc:41-45, 67-71, 86, 170)
THEOREM DestructorSafe == Spec => []DestructorNeverSweeps
  <1>1. ASSUME JInv PROVE DestructorNeverSweeps
    <2>1. Frames("dtor") # {} => Busy(Active)
      BY BusyFacts DEF Frames, Busy
    <2>2. QED
      BY <1>1, <2>1 DEF JInv, DeferredInv, DestructorNeverSweeps
  <1>2. QED
    BY <1>1, LifeInvariant, PTL

\* Once no function of the signal is being executed, all the invalid slots
\* have been removed, whatever put their removal off.
\* (signal_base.h:72-76; signal_base.cc:164-213)
THEOREM Swept == Spec => []SweptWhenIdle
  <1>1. ASSUME IInv, JInv PROVE SweptWhenIdle
    <2>1. SUFFICES ASSUME exec = 0
                   PROVE  ~deferred /\ Listed \subseteq call \cup EmptySlot
      BY DEF SweptWhenIdle
    <2>2. ~deferred
      BY <1>1, <2>1 DEF JInv, DeferredInv
    <2>3. \A f \in Active : f.op \notin Holder
      BY <1>1, <2>1, ActiveFacts
    <2>4. Listed \subseteq Slot
      <3>1. \A i \in DOMAIN stack : stack[i].op # "emit"
        BY <2>3, BusyFacts DEF Holder
      <3>2. QED
        BY <1>1, <3>1, OnlySlots DEF IInv, TypeOK, FramesInv, Listed
    <2>5. ~Busy(Active) /\ \A f \in Active : f.op # "sweep"
      BY <2>3 DEF Busy, Holder
    <2>6. QED
      BY <1>1, <2>2, <2>4, <2>5 DEF JInv, PendingInv
  <1>2. QED
    BY <1>1, InductiveInvariant, LifeInvariant, PTL

\* The slot that an emission executes is not deleted before its functor has
\* returned; only a trackable may destroy the functor of a slot that runs.
\* (signal_base.cc:205-212; slot_base.cc:51-88)
THEOREM RunningSlotSafe == Spec => []RunningSlotSurvives
  <1>1. ASSUME IInv, JInv PROVE RunningSlotSurvives
    <2>1. SUFFICES ASSUME NEW i \in DOMAIN stack, stack[i].op = "emit",
                          stack[i].running,
                          NEW s, s = stack[i].at
                   PROVE  /\ s \in Slot
                          /\ rep[s] = "live"
                          /\ functor[s] # "held" => s \in invalidated
      BY DEF RunningSlotSurvives, Frames
    <2>2. PICK f \in Active : f = stack[i]
      BY BusyFacts
    <2>3. s \in Listed \cap Slot /\ s \notin EmptySlot
      BY <1>1, <2>1, <2>2, ActiveFacts DEF JInv, FunctorInv
    <2>4. rep[s] = "live"
      BY <1>1, <2>3 DEF IInv, SlotInv, Listed
    <2>5. QED
      BY <1>1, <2>3, <2>4 DEF JInv, FunctorInv
  <1>2. QED
    BY <1>1, InductiveInvariant, LifeInvariant, PTL

\* After the end of the signal, and of all the functions of the library,
\* neither a rep nor a functor is left. (signal_base.cc:41-45, 77-88)
THEOREM NothingLeaks == Spec => []NothingLeftBehind
  <1>1. ASSUME IInv, JInv PROVE NothingLeftBehind
    <2>1. SUFFICES ASSUME impl = "dead", stack = <<>>, NEW s \in Slot
                   PROVE  rep[s] # "live" /\ functor[s] = "none"
      BY DEF NothingLeftBehind
    <2>2. Active = {}
      BY <2>1 DEF Active, ToSet
    <2>3. rep[s] # "live" /\ functor[s] # "held" /\ functor[s] # "dying"
      BY <1>1, <2>1, <2>2 DEF JInv, LifeInv
    <2>4. QED
      BY <1>1, <2>3 DEF IInv, TypeOK
  <1>2. QED
    BY <1>1, InductiveInvariant, LifeInvariant, PTL

\* If no slot is empty when it is connected, no rep is freed that still has
\* its parent, whose notification would be leaked. (signal_base.cc:74-78)
THEOREM NotificationsReleased == EmptySlot = {} => (Spec => []NoOrphanedNotification)
  <1>1. SUFFICES ASSUME EmptySlot = {} PROVE Spec => []NoOrphanedNotification
    OBVIOUS
  <1>2. JInv => NoOrphanedNotification
    BY <1>1 DEF JInv, CallInv, NoOrphanedNotification
  <1>3. QED
    BY <1>2, LifeInvariant, PTL

\* A signal_impl is not deleted under its own functions, if the user of
\* clear() keeps the signal object for as long. (signal_base.cc:167-170, 198-202)
THEOREM ImplSafe == CallerKeepsHandle => (Spec => []ImplOutlivesItsFrames)
  <1>1. SUFFICES ASSUME CallerKeepsHandle PROVE Spec => []ImplOutlivesItsFrames
    OBVIOUS
  <1>2. ASSUME JInv PROVE ImplOutlivesItsFrames
    <2>1. SUFFICES ASSUME NEW i \in DOMAIN stack, stack[i].op \in Holder \ {"dtor"}
                   PROVE  impl = "live"
      BY DEF ImplOutlivesItsFrames
    <2>2. KeepsImpl(stack[i]) /\ stack[i] \in Active
      BY <1>1, <2>1, BusyFacts DEF KeepsImpl, Holder
    <2>3. QED
      BY <1>2, <2>2 DEF JInv, ImplInv
  <1>3. QED
    BY <1>2, LifeInvariant, PTL

-----------------------------------------------------------------------------
(***************************************************************************)
(* Module Signal implements SignalContract: the list with placeholders,    *)
(* the execution counter and the removals that are put off invoke the      *)
(* slots that the contract says, for any number of slots and emissions.    *)
(*                                                                         *)
(* What a list of the contract has is said with Lists: its elements, and   *)
(* that they are in the order of slots. As such a list is determined by    *)
(* both, it is enough to follow the sets of slots through each action.     *)
(***************************************************************************)
\* What SignalContract is told: the variables that Signal substitutes.
Connected == Valid(1, Len(slots))

Emissions == InOrder([i \in Frames("emit") |-> EmissionOf(i)], Frames("emit"))

\* The slots that the emission at depth i with the frame f has to consider,
\* if the list is q and the slots in cl can be called.
Due(q, cl, f, i) ==
    {n \in cl : /\ Before(q, f.at, n)
                /\ Before(q, n, i)
                /\ f.running => n # f.at}

\* Two lists have the elements of S in the same order.
SameOrder(q, r, S) == \A a, b \in S : Before(q, a, b) <=> Before(r, a, b)

\* The lists that SignalContract is told.
ListsInv ==
    /\ Lists(Connected, slots, call \cap Listed)
    /\ \A i \in Frames("emit") : Lists(TodoOf(i), slots, Due(slots, call, stack[i], i))

LEMMA ListsHold == IInv => ListsInv
  <1>1. SUFFICES ASSUME IInv
                 PROVE  ListsInv
    OBVIOUS
  <1>2. slots \in Seq(Node) /\ IsInjective(slots) /\ call \subseteq Slot
    BY <1>1 DEF IInv, TypeOK, FramesInv, EmitInv
  <1>3. PICK len \in Nat : len = Len(slots) /\ DOMAIN slots = 1 .. len
    BY <1>2, LenProperties
  <1>4. Lists(Connected, slots, call \cap Listed)
    <2>1. PICK D : D = {k \in 1 .. len : slots[k] \in call}
      OBVIOUS
    <2>2. Connected = InOrder(slots, D)
      BY <1>3, <2>1 DEF Connected, Valid, Empty
    <2>3. call \cap Listed = {slots[k] : k \in D}
      BY <1>3, <2>1 DEF Listed, ToSet
    <2>4. D \in SUBSET (DOMAIN slots)
      BY <1>3, <2>1
    <2>5. QED
      BY <1>2, <2>2, <2>3, <2>4, ListsInOrder
  <1>5. ASSUME NEW i \in Frames("emit")
        PROVE  Lists(TodoOf(i), slots, Due(slots, call, stack[i], i))
    <2>1. PICK f : f = stack[i]
      OBVIOUS
    <2>2. Before(slots, f.at, i)
      BY <1>1, <2>1 DEF IInv, FramesInv, EmitInv, Frames
    <2>3. PICK p \in 1 .. len, m \in 1 .. len :
              p = PositionOf(f.at) /\ m = PositionOf(i) /\ slots[p] = f.at /\ slots[m] = i
      <3>1. f.at \in Listed /\ i \in Listed
        BY <1>2, <2>2, BeforeFacts DEF Listed
      <3>2. QED
        BY <1>2, <1>3, <3>1, PositionFacts
    <2>4. \A k, l \in 1 .. len : Before(slots, slots[k], slots[l]) <=> k <= l
      BY <1>2, <1>3, BeforeFacts
    <2>5. \A k, l \in 1 .. len : slots[k] = slots[l] => k = l
      BY <1>2, <1>3 DEF IsInjective
    <2>6. PICK from \in Nat : from = p + (IF f.running THEN 1 ELSE 0)
      OBVIOUS
    <2>7. PICK D : D = {k \in from .. m : slots[k] \in call}
      OBVIOUS
    <2>8. TodoOf(i) = InOrder(slots, D)
      BY <2>1, <2>3, <2>6, <2>7 DEF TodoOf, Valid, Empty
    <2>9. from .. m \subseteq 1 .. len
      BY <2>3, <2>6
    <2>10. \A k \in 1 .. len : k \in from .. m <=>
              k >= p /\ k <= m /\ (f.running => k # p)
      BY <2>3, <2>6
    <2>11. ASSUME NEW n \in Due(slots, call, f, i)
           PROVE  \E k \in D : slots[k] = n
      <3>1. n \in call /\ Before(slots, f.at, n) /\ Before(slots, n, i)
              /\ (f.running => n # f.at)
        BY <2>11 DEF Due
      <3>2. PICK k \in 1 .. len : slots[k] = n
        BY <1>3, <3>1 DEF Before
      <3>3. p <= k /\ k <= m /\ (f.running => k # p)
        BY <2>3, <2>4, <3>1, <3>2
      <3>4. k \in from .. m
        BY <2>10, <3>2, <3>3
      <3>5. QED
        BY <2>7, <3>1, <3>2, <3>4
    <2>12. ASSUME NEW k \in D
           PROVE  slots[k] \in Due(slots, call, f, i)
      <3>1. k \in from .. m /\ slots[k] \in call /\ k \in 1 .. len
        BY <2>7, <2>9
      <3>2. p <= k /\ k <= m /\ (f.running => k # p)
        BY <2>10, <3>1
      <3>3. /\ Before(slots, slots[p], slots[k])
            /\ Before(slots, slots[k], slots[m])
            /\ f.running => slots[k] # slots[p]
        BY <2>4, <2>5, <3>1, <3>2
      <3>4. QED
        BY <2>3, <3>1, <3>3 DEF Due
    <2>13. Due(slots, call, f, i) = {slots[k] : k \in D}
      BY <2>11, <2>12
    <2>14. D \in SUBSET (DOMAIN slots)
      BY <1>3, <2>7, <2>9
    <2>15. QED
      BY <1>2, <2>1, <2>8, <2>13, <2>14, ListsInOrder
  <1>6. QED
    BY <1>4, <1>5 DEF ListsInv

LEMMA ListsHoldNext == IInv' => ListsInv'
  BY ListsHold, PTL

-----------------------------------------------------------------------------
(***************************************************************************)
(* The emissions on the stack.                                             *)
(***************************************************************************)
EmitFrames(stk) == {i \in DOMAIN stk : stk[i].op = "emit"}

\* The stacks have the same emissions.
SameEmits(stk, new) ==
    /\ EmitFrames(new) = EmitFrames(stk)
    /\ \A i \in EmitFrames(stk) : new[i] = stk[i]

LEMMA SameEmitsFacts ==
    /\ \A stk : SameEmits(stk, stk)
    /\ \A stk, new, more : SameEmits(stk, new) /\ SameEmits(new, more)
                              => SameEmits(stk, more)
  BY DEF SameEmits

LEMMA SameEmitsPush ==
    ASSUME NEW stk \in Seq(Frame), NEW f \in Frame, f.op # "emit"
    PROVE  SameEmits(stk, Append(stk, f))
  <1>1. PICK new : new = Append(stk, f)
    OBVIOUS
  <1>2. PICK n \in Nat : n = Len(stk)
    BY PushFacts
  <1>3. /\ DOMAIN stk = 1 .. n
        /\ DOMAIN new = 1 .. n + 1
        /\ new[n + 1] = f
        /\ \A i \in 1 .. n : new[i] = stk[i]
    BY <1>1, <1>2, PushFacts
  <1>4. \A i \in 1 .. n + 1 : i \in 1 .. n \/ i = n + 1
    OBVIOUS
  <1>5. QED
    BY <1>1, <1>3, <1>4 DEF SameEmits, EmitFrames

LEMMA SameEmitsPop ==
    ASSUME NEW stk \in Seq(Frame), stk # <<>>, stk[Len(stk)].op # "emit"
    PROVE  SameEmits(stk, CallerOf(stk))
  <1>1. PICK rest : rest = CallerOf(stk)
    OBVIOUS
  <1>2. PICK n \in Nat \ {0} : n = Len(stk)
    BY PopFacts
  <1>3. /\ DOMAIN stk = 1 .. n
        /\ DOMAIN rest = 1 .. n - 1
        /\ \A i \in 1 .. n - 1 : rest[i] = stk[i]
    BY <1>1, <1>2, PopFacts
  <1>4. \A i \in 1 .. n : i \in 1 .. n - 1 \/ i = n
    OBVIOUS
  <1>5. QED
    BY <1>1, <1>2, <1>3, <1>4 DEF SameEmits, EmitFrames

\* What is known of every emission.
EmitsInv ==
    /\ Frames("emit") = EmitFrames(stack)
    /\ \A i \in Frames("emit") :
          /\ i \in Mark
          /\ Before(slots, stack[i].at, i)
          /\ stack[i].at \in Listed /\ i \in Listed
          /\ stack[i].running => stack[i].at \in Slot
          /\ stack[i] \in Frame

LEMMA EmitFramesFacts ==
    ASSUME IInv
    PROVE  /\ EmitsInv
           /\ Frames("emit") \in SUBSET Nat
           /\ IsFiniteSet(Frames("emit"))
  <1>1. slots \in Seq(Node) /\ IsInjective(slots) /\ stack \in Seq(Frame)
    BY DEF IInv, TypeOK, FramesInv, EmitInv
  <1>2. PICK n \in Nat : DOMAIN stack = 1 .. n /\ \A i \in 1 .. n : stack[i] \in Frame
    BY <1>1, LenProperties, ElementOfSeq
  <1>3. Frames("emit") \in SUBSET (1 .. n)
    BY <1>2 DEF Frames
  <1>4. IsFiniteSet(1 .. n)
    BY FS_Interval
  <1>5. IsFiniteSet(Frames("emit")) /\ Frames("emit") \in SUBSET Nat
    BY <1>3, <1>4, FS_Subset
  <1>6. \A i \in Frames("emit") :
           /\ i \in Mark
           /\ Before(slots, stack[i].at, i)
           /\ stack[i].running => stack[i].at \in Slot
    BY DEF Frames, IInv, FramesInv, EmitInv
  <1>7. \A i \in Frames("emit") : stack[i].at \in Listed /\ i \in Listed
    BY <1>1, <1>6, BeforeFacts DEF Listed
  <1>8. QED
    BY <1>2, <1>3, <1>5, <1>6, <1>7 DEF Frames, EmitFrames, EmitsInv

LEMMA EmitFramesFactsNext == IInv' => EmitsInv'
  <1>1. IInv => EmitsInv
    BY EmitFramesFacts
  <1>2. QED
    BY <1>1, PTL

\* An emission does not notice what happens to other slots than those that it
\* has to consider.
LEMMA EmissionKept ==
    ASSUME IInv, IInv', NEW i \in Frames("emit"), i \in Frames("emit")',
           stack'[i] = stack[i],
           Due(slots', call', stack[i], i) = Due(slots, call, stack[i], i),
           SameOrder(slots, slots', Due(slots, call, stack[i], i))
    PROVE  EmissionOf(i)' = EmissionOf(i)
  <1>1. Lists(TodoOf(i), slots, Due(slots, call, stack[i], i))
    BY ListsHold DEF ListsInv
  <1>2. Lists(TodoOf(i)', slots', Due(slots', call', stack'[i], i))
    BY ListsHoldNext DEF ListsInv
  <1>3. TodoOf(i)' = TodoOf(i)
    BY <1>1, <1>2, OneList DEF SameOrder
  <1>4. QED
    BY <1>3 DEF EmissionOf, NoSlot

LEMMA EmissionsKept ==
    ASSUME IInv, Frames("emit")' = Frames("emit"),
           \A i \in Frames("emit") : EmissionOf(i)' = EmissionOf(i)
    PROVE  Emissions' = Emissions
  <1>1. PICK D : D = Frames("emit")
    OBVIOUS
  <1>2. D \in SUBSET Nat /\ IsFiniteSet(D)
    BY <1>1, EmitFramesFacts
  <1>3. PICK f : f = [i \in D |-> EmissionOf(i)]
    OBVIOUS
  <1>4. PICK g : g = [i \in D |-> EmissionOf(i)']
    OBVIOUS
  <1>5. \A i \in D : f[i] = g[i]
    BY <1>1, <1>3, <1>4
  <1>6. Emissions = InOrder(f, D) /\ Emissions' = InOrder(g, D)
    BY <1>1, <1>3, <1>4 DEF Emissions
  <1>7. QED
    BY <1>2, <1>5, <1>6, InOrderSame

\* The innermost emission, and the ones that it was begun in.
LEMMA InnermostFacts ==
    ASSUME IInv, TopIs("emit"),
           NEW D, D = Frames("emit") \ {TopMark}
    PROVE  /\ D \in SUBSET Nat /\ IsFiniteSet(D)
           /\ TopMark \in Nat /\ AllBelow(D, TopMark)
           /\ Frames("emit") = D \cup {TopMark}
           /\ D = EmitFrames(Caller)
           /\ \A i \in D : Caller[i] = stack[i]
           /\ EndsWith(Emissions, InOrder([i \in D |-> EmissionOf(i)], D),
                       EmissionOf(TopMark))
  <1>1. /\ Frames("emit") \in SUBSET Nat
        /\ IsFiniteSet(Frames("emit"))
        /\ Frames("emit") = EmitFrames(stack)
    BY EmitFramesFacts DEF EmitsInv
  <1>2. /\ D \in SUBSET Nat
        /\ IsFiniteSet(D)
    BY <1>1, FS_Subset
  <1>3. PICK n \in Nat \ {0} : n = TopMark
    BY PopFacts DEF IInv, TypeOK, TopIs, TopMark
  <1>4. /\ DOMAIN stack = 1 .. n
        /\ DOMAIN Caller = 1 .. n - 1
        /\ \A i \in 1 .. n - 1 : Caller[i] = stack[i]
        /\ stack[n].op = "emit"
    BY <1>3, PopFacts DEF IInv, TypeOK, TopIs, TopMark, Top, Caller, CallerOf
  <1>5. Frames("emit") = D \cup {n}
    BY <1>3, <1>4 DEF Frames
  <1>6. \A i \in 1 .. n : i # n => i \in 1 .. n - 1 /\ i < n
    OBVIOUS
  <1>7. \A i \in 1 .. n - 1 : i \in 1 .. n /\ i # n
    OBVIOUS
  <1>8. AllBelow(D, n)
    BY <1>3, <1>4, <1>6 DEF Frames, AllBelow
  <1>9. D = EmitFrames(Caller) /\ \A i \in D : Caller[i] = stack[i]
    BY <1>3, <1>4, <1>6, <1>7 DEF Frames, EmitFrames
  <1>10. PICK f : f = [i \in Frames("emit") |-> EmissionOf(i)]
    OBVIOUS
  <1>11. PICK g : g = [i \in D |-> EmissionOf(i)]
    OBVIOUS
  <1>15. EndsWith(InOrder(f, D \cup {n}), InOrder(f, D), f[n])
    BY <1>2, <1>8, InOrderLast
  <1>16. InOrder(f, D \cup {n}) = Emissions
    BY <1>5, <1>10 DEF Emissions
  <1>17. f[n] = EmissionOf(TopMark)
    BY <1>3, <1>5, <1>10
  <1>18. InOrder(f, D) = InOrder(g, D)
    <2>1. \A i \in D : f[i] = g[i]
      BY <1>5, <1>10, <1>11
    <2>2. QED
      BY <1>2, <2>1, InOrderSame
  <1>19. QED
    BY <1>2, <1>3, <1>5, <1>8, <1>9, <1>11, <1>15, <1>16, <1>17, <1>18, Zenon

\* The emissions after a step, if the innermost one is at depth n.
LEMMA EmissionsExtended ==
    ASSUME NEW D \in SUBSET Nat, IsFiniteSet(D), NEW n \in Nat, AllBelow(D, n),
           Frames("emit")' = D \cup {n},
           NEW g, \A i \in D : EmissionOf(i)' = g[i]
    PROVE  Emissions' = Append(InOrder(g, D), EmissionOf(n)')
  <1>1. PICK f : f = [i \in D \cup {n} |-> EmissionOf(i)']
    OBVIOUS
  <1>5. InOrder(f, D \cup {n}) = Append(InOrder(f, D), f[n])
    <2>1. EndsWith(InOrder(f, D \cup {n}), InOrder(f, D), f[n])
      BY InOrderLast
    <2>2. QED
      BY <2>1 DEF EndsWith
  <1>6. InOrder(f, D \cup {n}) = Emissions'
    BY <1>1 DEF Emissions
  <1>7. \A i \in D : f[i] = g[i]
    BY <1>1
  <1>8. InOrder(f, D) = InOrder(g, D)
    BY <1>7, InOrderSame
  <1>9. f[n] = EmissionOf(n)'
    BY <1>1
  <1>10. QED
    BY <1>5, <1>6, <1>8, <1>9, Zenon

-----------------------------------------------------------------------------
(***************************************************************************)
(* Steps in which slots are disconnected, or nothing that the contract     *)
(* knows of happens.                                                       *)
(***************************************************************************)
Forgets ==
    /\ call' \subseteq call
    /\ blocked' \cap call' = blocked \cap call'
    /\ SameEmits(stack, stack')
    /\ \/ slots' = slots
       \/ /\ EmitFrames(stack) = {}
          /\ Listed' \cap call' = Listed \cap call'
          /\ SameOrder(slots, slots', Listed \cap call')

LEMMA ContractWithout ==
    \A list, D : Contract!Without(list, D)
                    = InOrder(list, {k \in DOMAIN list : list[k] \notin D})
  BY DEF Contract!Without, Contract!InOrder, Contract!Nth, InOrder, Nth,
         Contract!Cardinality, Cardinality

LEMMA ForgetsStep ==
    ASSUME IInv, IInv', Forgets
    PROVE  Contract!Disconnect(call \ call')
  <1>1. PICK D : D = call \ call'
    OBVIOUS
  <1>2. call' \subseteq call /\ SameEmits(stack, stack')
    BY DEF Forgets
  <1>3. Connected' = Contract!Without(Connected, D)
    <2>1. PICK c : c = Contract!Without(Connected, D)
      OBVIOUS
    <2>2. Lists(Connected, slots, call \cap Listed)
      BY ListsHold DEF ListsInv
    <2>3. Lists(c, slots, (call \cap Listed) \ D)
      BY <2>1, <2>2, ListsWithout, ContractWithout
    <2>4. (call \cap Listed) \ D = Listed \cap call'
      BY <1>1, <1>2
    <2>5. Lists(Connected', slots', call' \cap Listed')
      BY ListsHoldNext DEF ListsInv
    <2>6. /\ call' \cap Listed' = Listed \cap call'
          /\ SameOrder(slots, slots', Listed \cap call')
      BY DEF Forgets, SameOrder, Listed
    <2>7. Connected' = c
      BY <2>3, <2>4, <2>5, <2>6, OneList DEF SameOrder
    <2>8. QED
      BY <2>1, <2>7
  <1>4. (blocked \cap call)' = (blocked \cap call) \ D
    BY <1>1, <1>2 DEF Forgets
  <1>5. PICK E : E = Frames("emit")
    OBVIOUS
  <1>6. /\ E = EmitFrames(stack) /\ E = Frames("emit")'
        /\ E \in SUBSET Nat /\ IsFiniteSet(E)
        /\ \A i \in E : stack'[i] = stack[i]
    BY <1>2, <1>5, EmitFramesFacts, EmitFramesFactsNext DEF SameEmits, EmitsInv
  <1>7. ASSUME NEW i \in E
        PROVE  TodoOf(i)' = Contract!Without(TodoOf(i), D)
    <2>1. slots' = slots
      BY <1>6, <1>7 DEF Forgets
    <2>2. PICK m : m = TodoOf(i)
      OBVIOUS
    <2>3. PICK o : o = Contract!Without(m, D)
      OBVIOUS
    <2>4. Lists(m, slots, Due(slots, call, stack[i], i))
      BY <1>5, <2>2, ListsHold DEF ListsInv
    <2>5. Lists(o, slots, Due(slots, call, stack[i], i) \ D)
      BY <2>3, <2>4, ListsWithout, ContractWithout
    <2>6. Due(slots, call, stack[i], i) \ D = Due(slots, call', stack[i], i)
      BY <1>1, <1>2 DEF Due
    <2>7. Lists(TodoOf(i)', slots', Due(slots', call', stack'[i], i))
      BY <1>6, ListsHoldNext DEF ListsInv
    <2>8. TodoOf(i)' = o
      BY <1>6, <2>1, <2>5, <2>6, <2>7, OneList
    <2>9. QED
      BY <2>2, <2>3, <2>8
  <1>8. PICK f : f = [i \in E |-> EmissionOf(i)]
    OBVIOUS
  <1>9. PICK g : g = [i \in E |-> EmissionOf(i)']
    OBVIOUS
  <1>10. \A i \in E : g[i] = [f[i] EXCEPT !.todo = Contract!Without(@, D)]
    BY <1>6, <1>7, <1>8, <1>9 DEF EmissionOf, NoSlot
  <1>11. Emissions = InOrder(f, E) /\ Emissions' = InOrder(g, E)
    BY <1>5, <1>6, <1>8, <1>9 DEF Emissions
  <1>12. Emissions' = [k \in DOMAIN Emissions |->
                          [Emissions[k] EXCEPT !.todo = Contract!Without(@, D)]]
    <2>1. PICK c : c = Cardinality(E)
      OBVIOUS
    <2>2. \A k \in 1 .. c : Nth(E, k) \in E
      BY <1>6, <2>1, NthFacts
    <2>3. /\ Emissions = [k \in 1 .. c |-> f[Nth(E, k)]]
          /\ Emissions' = [k \in 1 .. c |-> g[Nth(E, k)]]
      BY <1>11, <2>1 DEF InOrder
    <2>4. \A k \in 1 .. c :
              g[Nth(E, k)] = [f[Nth(E, k)] EXCEPT !.todo = Contract!Without(@, D)]
      BY <1>10, <2>2
    <2>5. QED
      BY <2>3, <2>4
  <1>13. QED
    BY <1>1, <1>3, <1>4, <1>12 DEF Contract!Disconnect, Connected, Emissions

\* No emission is in progress, and the slots that can be called are left alone.
OnlyInvalidLeave ==
    /\ EmitFrames(stack) = {}
    /\ Listed' \cap call' = Listed \cap call'
    /\ SameOrder(slots, slots', Listed \cap call')

LEMMA OneLeaves ==
    ASSUME IInv, EmitFrames(stack) = {},
           NEW n \in Listed, slots' = Without(n), n \notin call'
    PROVE  OnlyInvalidLeave
  <1>1. slots \in Seq(Node) /\ IsInjective(slots)
    BY DEF IInv, TypeOK, FramesInv, EmitInv
  <1>2. /\ slots' \in Seq(Node) /\ IsInjective(slots')
        /\ Listed' = Listed \ {n}
        /\ \A a, b : Before(slots, a, b) /\ a # n /\ b # n => Before(slots', a, b)
    BY <1>1, WithoutFacts DEF Listed
  <1>3. PICK S : S = Listed \cap call'
    OBVIOUS
  <1>4. S \subseteq ToSet(slots) /\ n \notin S
    BY <1>3 DEF Listed
  <1>5. \A a, b \in S : Before(slots, a, b) => Before(slots', a, b)
    BY <1>2, <1>4
  <1>6. SameOrder(slots, slots', S)
    BY <1>1, <1>2, <1>4, <1>5, OrderKept DEF SameOrder
  <1>7. QED
    BY <1>2, <1>3, <1>6 DEF OnlyInvalidLeave

LEMMA DeleteForgets ==
    ASSUME NEW s \in Slot, NEW stk \in Seq(Frame), DeleteRep(s, stk),
           SameEmits(stack, stk), slots' = slots \/ OnlyInvalidLeave
    PROVE  Forgets
  <1>1. call' = call \ {s} /\ blocked' \in {blocked, blocked \ {s}}
    BY DEF DeleteRep, Free
  <1>2. SameEmits(stack, stack')
    <2>1. PICK g : g = Call("delete", s)
      OBVIOUS
    <2>2. g \in Frame /\ g.op = "delete"
      BY <2>1, CallIsFrame DEF FunctorDtor, Node
    <2>3. SameEmits(stk, Append(stk, g))
      BY <2>2, SameEmitsPush
    <2>4. stack' = Append(stk, g) \/ stack' = stk
      BY <2>1 DEF DeleteRep
    <2>5. SameEmits(stack, Append(stk, g))
      BY <2>3, SameEmitsFacts
    <2>6. QED
      BY <2>4, <2>5
  <1>3. blocked' \cap call' = blocked \cap call'
    BY <1>1
  <1>4. QED
    BY <1>1, <1>2, <1>3 DEF Forgets, OnlyInvalidLeave

LEMMA DisconnectForgets ==
    ASSUME IInv, NEW s \in Slot, rep[s] = "live", NEW stk \in Seq(Frame),
           SameEmits(stack, stk), DisconnectRep(s, stk)
    PROVE  Forgets
  <1>1. CASE s \in parent /\ impl = "live" /\ exec = 0
    <2>1. PICK g : g = Call("erase", s)
      OBVIOUS
    <2>2. g \in Frame /\ g.op = "erase"
      BY <2>1, CallIsFrame DEF Holder, Node
    <2>3. DeleteRep(s, Append(stk, g)) /\ slots' = Without(s)
      BY <1>1, <2>1 DEF DisconnectRep
    <2>4. Append(stk, g) \in Seq(Frame) /\ SameEmits(stack, Append(stk, g))
      BY <2>2, PushFacts, SameEmitsPush, SameEmitsFacts
    <2>5. s \in Listed
      BY <1>1 DEF IInv, SlotInv, Listed
    <2>6. EmitFrames(stack) = {}
      <3>1. \A i \in DOMAIN stack : stack[i].op \notin Holder
        BY <1>1, NoHolder DEF IInv, TypeOK, ExecInv
      <3>2. QED
        BY <3>1 DEF EmitFrames, Holder
    <2>7. s \notin call'
      BY <2>3 DEF DeleteRep
    <2>8. OnlyInvalidLeave
      BY <2>3, <2>5, <2>6, <2>7, OneLeaves
    <2>9. QED
      BY <2>3, <2>4, <2>8, DeleteForgets
  <1>2. CASE ~(s \in parent /\ impl = "live" /\ exec = 0)
    <2>1. call' = call \ {s} /\ stack' = stk /\ UNCHANGED <<slots, blocked>>
      BY <1>2 DEF DisconnectRep
    <2>2. QED
      BY <2>1 DEF Forgets
  <1>3. QED
    BY <1>1, <1>2

\* What the top frame of the stack is, whether it is replaced or returns.
LEMMA TopKeepsEmits ==
    ASSUME IInv, stack # <<>>, Top.op # "emit"
    PROVE  /\ SameEmits(stack, Caller)
           /\ \A f \in Frame : f.op # "emit" =>
                 SameEmits(stack, Continue(f)) /\ Continue(f) \in Seq(Frame)
  <1>1. /\ stack \in Seq(Frame) /\ Caller \in Seq(Frame)
        /\ Caller = CallerOf(stack)
        /\ Top = stack[Len(stack)]
    BY TopFacts DEF IInv, TypeOK
  <1>2. SameEmits(stack, Caller)
    BY <1>1, SameEmitsPop
  <1>3. ASSUME NEW f \in Frame, f.op # "emit"
        PROVE  SameEmits(stack, Continue(f)) /\ Continue(f) \in Seq(Frame)
    <2>1. Append(Caller, f) \in Seq(Frame) /\ SameEmits(Caller, Append(Caller, f))
      BY <1>1, <1>3, PushFacts, SameEmitsPush
    <2>2. QED
      BY <1>2, <2>1, SameEmitsFacts DEF Continue
  <1>4. QED
    BY <1>2, <1>3

LEMMA ReleaseKeepsEmits ==
    ASSUME IInv, stack # <<>>, Top.op # "emit", Release(slots)
    PROVE  SameEmits(stack, stack')
  <1>1. PICK g : g = Call("sweep", First(slots))
    OBVIOUS
  <1>2. g \in Frame /\ g.op = "sweep"
    <2>1. slots \in Seq(Node)
      BY DEF IInv, TypeOK
    <2>2. First(slots) \in Node \cup {End}
      BY <2>1, FirstFacts, ElementOfSeq, LenProperties DEF ToSet
    <2>3. QED
      BY <1>1, <2>2, CallIsFrame DEF Holder
  <1>3. stack' = Continue(g) \/ stack' = Caller
    BY <1>1 DEF Release
  <1>4. QED
    BY <1>2, <1>3, TopKeepsEmits

-----------------------------------------------------------------------------
(***************************************************************************)
(* The actions of which SignalContract sees that slots are forgotten, or   *)
(* nothing.                                                                *)
(***************************************************************************)
LEMMA UserForgets ==
    ASSUME IInv, NEW s \in Slot, Disconnect(s) \/ Invalidate(s)
    PROVE  Forgets
  <1>1. PICK g : g = Call("notify", s)
    OBVIOUS
  <1>2. g \in Frame /\ g.op = "notify"
    BY <1>1, CallIsFrame DEF Node
  <1>3. stack \in Seq(Frame)
    BY DEF IInv, TypeOK
  <1>4. Push(g) \in Seq(Frame) /\ SameEmits(stack, Push(g))
    BY <1>2, <1>3, PushFacts, SameEmitsPush DEF Push
  <1>5. CASE Disconnect(s)
    BY <1>3, <1>5, DisconnectForgets, SameEmitsFacts DEF Disconnect
  <1>6. CASE Invalidate(s)
    BY <1>1, <1>4, <1>6, DisconnectForgets DEF Invalidate
  <1>7. QED
    BY <1>5, <1>6

LEMMA ClearForgets ==
    ASSUME IInv, Clear \/ ImplDestroyed
    PROVE  Forgets
  <1>1. stack \in Seq(Frame)
    BY DEF IInv, TypeOK
  <1>2. ASSUME NEW op \in {"clear", "dtor"}
        PROVE  SameEmits(stack, Push(Call(op, End)))
    <2>1. PICK g : g = Call(op, End)
      OBVIOUS
    <2>2. g \in Frame /\ g.op # "emit"
      BY <1>2, <2>1, CallIsFrame DEF Holder
    <2>3. QED
      BY <1>1, <2>1, <2>2, SameEmitsPush DEF Push
  <1>3. call' = call \ Listed /\ UNCHANGED <<slots, blocked>>
    BY DEF Clear, ImplDestroyed
  <1>4. SameEmits(stack, stack')
    <2>1. \/ stack' = stack
          \/ stack' = Push(Call("clear", End))
          \/ stack' = Push(Call("dtor", End))
      BY DEF Clear, ImplDestroyed
    <2>2. QED
      BY <1>2, <2>1, SameEmitsFacts
  <1>5. QED
    BY <1>3, <1>4 DEF Forgets

LEMMA NotifyResumeForgets ==
    ASSUME IInv, NotifyResume
    PROVE  Forgets
  <1>1. stack # <<>> /\ Top.op = "notify"
    BY DEF NotifyResume, TopIs
  <1>2. PICK g : g = Call("destroy", Top.at)
    OBVIOUS
  <1>3. g \in Frame /\ g.op = "destroy"
    BY <1>1, <1>2, DyingFacts, CallIsFrame DEF Dying, FunctorDtor, Node
  <1>4. stack' = Continue(g) \/ stack' = Caller
    BY <1>2 DEF NotifyResume
  <1>5. SameEmits(stack, stack')
    BY <1>1, <1>3, <1>4, TopKeepsEmits
  <1>6. call' \subseteq call /\ UNCHANGED <<slots, blocked>>
    BY DEF NotifyResume
  <1>7. QED
    BY <1>5, <1>6 DEF Forgets

LEMMA FunctorDoneForgets ==
    ASSUME IInv, JInv, FunctorDone
    PROVE  Forgets
  <1>1. stack # <<>> /\ Top.op \in FunctorDtor
    BY DEF FunctorDone, TopIs
  <1>2. Top.at \notin call
    <2>1. Top \in Active
      BY <1>1, FramesTop DEF IInv
    <2>2. QED
      BY <1>1, <2>1 DEF JInv, CallInv
  <1>3. call' = call /\ slots' = slots /\ blocked' \in {blocked, blocked \ {Top.at}}
    BY DEF FunctorDone, Free
  <1>4. SameEmits(stack, stack')
    BY <1>1, TopKeepsEmits DEF FunctorDone, FunctorDtor
  <1>5. blocked' \cap call' = blocked \cap call'
    BY <1>2, <1>3
  <1>6. QED
    BY <1>3, <1>4, <1>5 DEF Forgets

LEMMA HolderDoneForgets ==
    ASSUME IInv, EraseDone \/ SweepEnd \/ ClearDone
    PROVE  Forgets
  <1>1. stack # <<>> /\ Top.op # "emit" /\ Release(slots)
    BY DEF EraseDone, SweepEnd, ClearDone, Clearing, TopIs
  <1>2. UNCHANGED <<slots, call, blocked>>
    BY DEF EraseDone, SweepEnd, ClearDone
  <1>3. QED
    BY <1>1, <1>2, ReleaseKeepsEmits DEF Forgets

\* A function that removes slots from the list interrupts no emission.
LEMMA NoEmission ==
    ASSUME IInv, stack # <<>>, Top.op \in {"sweep", "clear", "dtor"}
    PROVE  EmitFrames(stack) = {}
  <1>1. \A i \in DOMAIN Caller : Caller[i].op # "emit"
    BY ExclusiveFacts
  <1>2. SameEmits(stack, Caller)
    BY TopKeepsEmits
  <1>3. QED
    BY <1>1, <1>2 DEF SameEmits, EmitFrames

LEMMA SweepForgets ==
    ASSUME IInv, SweepErase \/ SweepSkip
    PROVE  Forgets
  <1>1. /\ stack # <<>> /\ Top.op = "sweep" /\ Top.at # End
        /\ Top.at \in Slot \cap Listed
    BY ExclusiveFacts DEF SweepErase, SweepSkip, TopIs
  <1>2. slots \in Seq(Node) /\ IsInjective(slots)
    BY DEF IInv, TypeOK, FramesInv, EmitInv
  <1>3. PICK g : g = Call("sweep", Successor(Top.at))
    OBVIOUS
  <1>4. g \in Frame /\ g.op = "sweep"
    <2>1. Successor(Top.at) \in Listed \cup {End}
      BY <1>1, <1>2, SuccessorFacts
    <2>2. Listed \subseteq Node
      BY <1>2, ElementOfSeq, LenProperties DEF Listed, ToSet
    <2>3. QED
      BY <1>3, <2>1, <2>2, CallIsFrame DEF Holder
  <1>5. SameEmits(stack, Continue(g)) /\ Continue(g) \in Seq(Frame)
    BY <1>1, <1>4, TopKeepsEmits
  <1>6. CASE SweepErase
    <2>1. DeleteRep(Top.at, Continue(g)) /\ slots' = Without(Top.at)
      BY <1>1, <1>3, <1>6 DEF SweepErase
    <2>2. Top.at \notin call'
      BY <2>1 DEF DeleteRep
    <2>3. EmitFrames(stack) = {}
      BY <1>1, NoEmission
    <2>4. OnlyInvalidLeave
      BY <1>1, <2>1, <2>2, <2>3, OneLeaves
    <2>5. QED
      BY <1>1, <1>5, <2>1, <2>4, DeleteForgets
  <1>7. CASE SweepSkip
    BY <1>3, <1>5, <1>7 DEF SweepSkip, Forgets
  <1>8. QED
    BY <1>6, <1>7

LEMMA ClearStepForgets ==
    ASSUME IInv, JInv, ClearStep
    PROVE  Forgets
  <1>1. stack # <<>> /\ Top.op \in {"clear", "dtor"} /\ slots # <<>>
    BY DEF ClearStep, Clearing, TopIs
  <1>2. slots \in Seq(Node) /\ IsInjective(slots) /\ stack \in Seq(Frame)
    BY DEF IInv, TypeOK, FramesInv, EmitInv
  <1>3. Listed' \subseteq Listed /\ Head(slots) \in Listed
    BY <1>1, <1>2, TailOfList DEF ClearStep, Listed
  <1>4. Listed \cap call = {} /\ Listed \subseteq Slot
    BY <1>1, ExclusiveFacts DEF JInv, CallInv
  <1>5. DeleteRep(Head(slots), stack) /\ Head(slots) \in Slot
    BY <1>3, <1>4 DEF ClearStep
  <1>6. call' \subseteq call
    BY <1>5 DEF DeleteRep
  <1>7. Listed' \cap call' = {} /\ Listed \cap call' = {}
    BY <1>3, <1>4, <1>6
  <1>8. OnlyInvalidLeave
    BY <1>1, <1>7, NoEmission DEF OnlyInvalidLeave, SameOrder
  <1>9. QED
    BY <1>2, <1>5, <1>8, DeleteForgets, SameEmitsFacts

-----------------------------------------------------------------------------
(***************************************************************************)
(* Slots are blocked and unblocked.                                        *)
(***************************************************************************)
\* A slot that can be called is in the list.
LEMMA CallListed ==
    ASSUME IInv, JInv
    PROVE  call \subseteq Listed
  <1>1. ASSUME NEW s \in call
        PROVE  s \in Listed
    <2>1. s \in Slot /\ functor[s] = "held"
      BY DEF IInv, TypeOK, JInv, CallInv
    <2>2. rep[s] = "live"
      BY <2>1 DEF JInv, LifeInv
    <2>3. ASSUME NEW f \in Active, f.op = "delete", f.at = s
          PROVE  FALSE
      BY <2>1, <2>3 DEF JInv, CallInv, FunctorDtor
    <2>4. QED
      BY <2>1, <2>2, <2>3 DEF JInv, LifeInv
  <1>2. QED
    BY <1>1

\* Nothing that the lists are made of changes.
LEMMA SameLists ==
    ASSUME UNCHANGED <<slots, call, stack>>
    PROVE  Connected' = Connected /\ Emissions' = Emissions
  BY DEF Connected, Emissions, EmissionOf, TodoOf, Valid, Empty, PositionOf,
         Frames, NoSlot, End

LEMMA ConnectedSlots ==
    ASSUME IInv, JInv
    PROVE  Contract!ToSet(Connected) = call
  <1>1. Lists(Connected, slots, call \cap Listed)
    BY ListsHold DEF ListsInv
  <1>2. ToSet(Connected) = call
    BY <1>1, CallListed DEF Lists
  <1>3. QED
    BY <1>2 DEF ToSet, Contract!ToSet

LEMMA BlockedIsSet ==
    ASSUME IInv, JInv, UNCHANGED <<slots, call, stack>>
    PROVE  \E B \in SUBSET Contract!ToSet(Connected) : Contract!SetBlocked(B)
  <1>1. PICK B : B = (blocked \cap call)'
    OBVIOUS
  <1>2. B \in SUBSET Contract!ToSet(Connected)
    BY <1>1, ConnectedSlots
  <1>3. Contract!SetBlocked(B)
    BY <1>1, SameLists DEF Contract!SetBlocked, Connected, Emissions
  <1>4. QED
    BY <1>2, <1>3

-----------------------------------------------------------------------------
(***************************************************************************)
(* A slot is connected.                                                    *)
(***************************************************************************)
\* a comes last, or first.
LEMMA ListsAppend ==
    ASSUME NEW S, NEW q, NEW m, Lists(m, q, S), NEW a, a \notin S,
           NEW X, NEW r \in Seq(X), IsInjective(r), SameOrder(q, r, S),
           \A b \in S \cup {a} : Before(r, b, a)
    PROVE  Lists(Append(m, a), r, S \cup {a})
  <1>1. /\ m \in Seq(S) /\ IsInjective(m) /\ ToSet(m) = S
        /\ \A x, y \in S : Before(m, x, y) <=> Before(q, x, y)
    BY DEF Lists
  <1>2. PICK T : T = S \cup {a}
    OBVIOUS
  <1>3. m \in Seq(T) /\ a \in T
    <2>1. Len(m) \in Nat /\ DOMAIN m = 1 .. Len(m) /\ m = [i \in 1 .. Len(m) |-> m[i]]
      BY <1>1, LenProperties
    <2>2. \A i \in 1 .. Len(m) : m[i] \in T
      BY <1>1, <1>2, <2>1, ElementOfSeq
    <2>3. QED
      BY <1>2, <2>1, <2>2, SeqOfFunction
  <1>4. PICK o : o = Append(m, a)
    OBVIOUS
  <1>5. /\ o \in Seq(T) /\ IsInjective(o) /\ ToSet(o) = T
        /\ \A x, y : Before(m, x, y) => Before(o, x, y)
        /\ \A x \in T : Before(o, x, a)
    BY <1>1, <1>2, <1>3, <1>4, AppendToList
  <1>6. \A x, y \in S : Before(m, x, y) <=> Before(o, x, y)
    BY <1>1, <1>3, <1>5, OrderKept
  <1>7. \A x, y \in T : Before(o, x, y) <=> Before(r, x, y)
    <2>1. SUFFICES ASSUME NEW x \in T, NEW y \in T
                   PROVE  Before(o, x, y) <=> Before(r, x, y)
      OBVIOUS
    <2>2. CASE y = a
      BY <1>2, <1>5, <2>2
    <2>3. CASE x = a /\ y \in S
      <3>1. Before(o, y, a) /\ Before(r, y, a) /\ y # a
        BY <1>2, <1>5, <2>3
      <3>2. ~Before(o, a, y)
        BY <1>5, <3>1, BeforeFacts
      <3>3. ~Before(r, a, y)
        BY <3>1, BeforeFacts
      <3>4. QED
        BY <2>3, <3>2, <3>3
    <2>4. CASE x \in S /\ y \in S
      BY <1>1, <1>6, <2>4 DEF SameOrder
    <2>5. QED
      BY <1>2, <2>2, <2>3, <2>4
  <1>8. QED
    BY <1>2, <1>4, <1>5, <1>7 DEF Lists

LEMMA ListsPrepend ==
    ASSUME NEW S, NEW q, NEW m, Lists(m, q, S), NEW a, a \notin S,
           NEW X, NEW r \in Seq(X), IsInjective(r), SameOrder(q, r, S),
           \A b \in S \cup {a} : Before(r, a, b)
    PROVE  Lists(<<a>> \o m, r, S \cup {a})
  <1>1. /\ m \in Seq(S) /\ IsInjective(m) /\ ToSet(m) = S
        /\ \A x, y \in S : Before(m, x, y) <=> Before(q, x, y)
    BY DEF Lists
  <1>2. PICK T : T = S \cup {a}
    OBVIOUS
  <1>3. m \in Seq(T) /\ a \in T
    <2>1. Len(m) \in Nat /\ DOMAIN m = 1 .. Len(m) /\ m = [i \in 1 .. Len(m) |-> m[i]]
      BY <1>1, LenProperties
    <2>2. \A i \in 1 .. Len(m) : m[i] \in T
      BY <1>1, <1>2, <2>1, ElementOfSeq
    <2>3. QED
      BY <1>2, <2>1, <2>2, SeqOfFunction
  <1>4. PICK o : o = <<a>> \o m
    OBVIOUS
  <1>5. /\ o \in Seq(T) /\ IsInjective(o) /\ ToSet(o) = T
        /\ \A x, y : Before(m, x, y) => Before(o, x, y)
        /\ \A x \in T : Before(o, a, x)
    BY <1>1, <1>2, <1>3, <1>4, PrependToList
  <1>6. \A x, y \in S : Before(m, x, y) <=> Before(o, x, y)
    BY <1>1, <1>3, <1>5, OrderKept
  <1>7. \A x, y \in T : Before(o, x, y) <=> Before(r, x, y)
    <2>1. SUFFICES ASSUME NEW x \in T, NEW y \in T
                   PROVE  Before(o, x, y) <=> Before(r, x, y)
      OBVIOUS
    <2>2. CASE x = a
      BY <1>2, <1>5, <2>2
    <2>3. CASE y = a /\ x \in S
      <3>1. Before(o, a, x) /\ Before(r, a, x) /\ x # a
        BY <1>2, <1>5, <2>3
      <3>2. ~Before(o, x, a)
        BY <1>5, <3>1, BeforeFacts
      <3>3. ~Before(r, x, a)
        BY <3>1, BeforeFacts
      <3>4. QED
        BY <2>3, <3>2, <3>3
    <2>4. CASE x \in S /\ y \in S
      BY <1>1, <1>6, <2>4 DEF SameOrder
    <2>5. QED
      BY <1>2, <2>2, <2>3, <2>4
  <1>8. QED
    BY <1>2, <1>4, <1>5, <1>7 DEF Lists

\* The emissions in progress do not notice a step that leaves the slots that
\* they have to consider alone.
LEMMA EmissionsStay ==
    ASSUME IInv, IInv', SameEmits(stack, stack'),
           \A i \in Frames("emit") :
              LET D == Due(slots, call, stack[i], i)
              IN  Due(slots', call', stack[i], i) = D /\ SameOrder(slots, slots', D)
    PROVE  Emissions' = Emissions
  <1>1. /\ Frames("emit") = EmitFrames(stack) /\ Frames("emit")' = EmitFrames(stack')
    BY EmitFramesFacts, EmitFramesFactsNext DEF EmitsInv
  <1>2. Frames("emit")' = Frames("emit") /\ \A i \in Frames("emit") : stack'[i] = stack[i]
    BY <1>1 DEF SameEmits
  <1>3. \A i \in Frames("emit") : EmissionOf(i)' = EmissionOf(i)
    BY <1>2, EmissionKept
  <1>4. QED
    BY <1>2, <1>3, EmissionsKept

\* The list with s at its end or at its beginning.
LEMMA InsertedFacts ==
    ASSUME IInv, NEW s \in Slot \ Listed,
           slots' \in {Append(slots, s), <<s>> \o slots}
    PROVE  /\ slots' \in Seq(Node) /\ IsInjective(slots')
           /\ Listed' = Listed \cup {s}
           /\ SameOrder(slots, slots', Listed)
           /\ slots' = Append(slots, s) => \A a \in Listed' : Before(slots', a, s)
           /\ slots' = <<s>> \o slots => \A a \in Listed' : Before(slots', s, a)
  <1>1. slots \in Seq(Node) /\ IsInjective(slots) /\ s \in Node /\ s \notin ToSet(slots)
    BY DEF IInv, TypeOK, FramesInv, EmitInv, Node, Listed
  <1>2. PICK r : r = slots'
    OBVIOUS
  <1>3. ASSUME r = Append(slots, s)
        PROVE  /\ r \in Seq(Node) /\ IsInjective(r)
               /\ ToSet(r) = ToSet(slots) \cup {s}
               /\ \A a, b : Before(slots, a, b) => Before(r, a, b)
               /\ \A a \in ToSet(r) : Before(r, a, s)
    BY <1>1, <1>3, AppendToList
  <1>4. ASSUME r = <<s>> \o slots
        PROVE  /\ r \in Seq(Node) /\ IsInjective(r)
               /\ ToSet(r) = ToSet(slots) \cup {s}
               /\ \A a, b : Before(slots, a, b) => Before(r, a, b)
               /\ \A a \in ToSet(r) : Before(r, s, a)
    BY <1>1, <1>4, PrependToList
  <1>5. /\ r \in Seq(Node) /\ IsInjective(r)
        /\ ToSet(r) = ToSet(slots) \cup {s}
        /\ \A a, b : Before(slots, a, b) => Before(r, a, b)
    BY <1>2, <1>3, <1>4
  <1>6. SameOrder(slots, r, ToSet(slots))
    BY <1>1, <1>5, OrderKept DEF SameOrder
  <1>7. QED
    BY <1>2, <1>3, <1>4, <1>5, <1>6 DEF Listed

\* A slot that is connected is no concern of the emissions in progress.
LEMMA ConnectEmissions ==
    ASSUME IInv, IInv', NEW s \in Slot, Connect(s)
    PROVE  Emissions' = Emissions
  <1>1. s \in Slot \ Listed /\ slots' \in {Append(slots, s), <<s>> \o slots}
    BY DEF Connect, IInv, SlotInv, Listed
  <1>2. /\ slots' \in Seq(Node) /\ IsInjective(slots')
        /\ Listed' = Listed \cup {s}
        /\ SameOrder(slots, slots', Listed)
        /\ \/ \A a \in Listed' : Before(slots', a, s)
           \/ \A a \in Listed' : Before(slots', s, a)
    BY <1>1, InsertedFacts
  <1>3. slots \in Seq(Node) /\ IsInjective(slots)
    BY DEF IInv, TypeOK, FramesInv, EmitInv
  <1>4. call' \in {call, call \cup {s}} /\ stack' = stack
    BY DEF Connect
  <1>5. ASSUME NEW i \in Frames("emit"), NEW f, f = stack[i]
        PROVE  /\ Due(slots', call', f, i) = Due(slots, call, f, i)
               /\ SameOrder(slots, slots', Due(slots, call, f, i))
    <2>1. i \in Listed /\ f.at \in Listed /\ i \in Mark
      BY <1>5, EmitFramesFacts DEF EmitsInv
    <2>2. i # s /\ f.at # s
      BY <1>1, <2>1
    <2>3. ~(Before(slots', f.at, s) /\ Before(slots', s, i))
      <3>1. CASE \A a \in Listed' : Before(slots', a, s)
        BY <1>2, <2>1, <2>2, <3>1, BeforeFacts
      <3>2. CASE \A a \in Listed' : Before(slots', s, a)
        BY <1>2, <2>1, <2>2, <3>2, BeforeFacts
      <3>3. QED
        BY <1>2, <3>1, <3>2
    <2>4. \A n \in Listed : /\ Before(slots, f.at, n) <=> Before(slots', f.at, n)
                            /\ Before(slots, n, i) <=> Before(slots', n, i)
      BY <1>2, <2>1 DEF SameOrder
    <2>5. \A n : /\ Before(slots, f.at, n) => n \in Listed
                 /\ Before(slots', f.at, n) => n \in Listed'
      BY <1>2, <1>3, BeforeFacts DEF Listed
    <2>6. Due(slots', call', f, i) = Due(slots, call, f, i)
      BY <1>1, <1>2, <1>4, <2>3, <2>4, <2>5 DEF Due
    <2>7. Due(slots, call, f, i) \subseteq Listed
      BY <2>5 DEF Due
    <2>8. QED
      BY <1>2, <2>6, <2>7 DEF SameOrder
  <1>6. QED
    BY <1>4, <1>5, EmissionsStay, SameEmitsFacts

LEMMA ConnectSimulated ==
    ASSUME IInv, JInv, IInv', JInv', NEW s \in Slot, Connect(s)
    PROVE  \/ Contract!Connect(s)
           \/ UNCHANGED <<Connected, blocked \cap call, Emissions>>
  <1>1. s \in Slot \ Listed /\ slots' \in {Append(slots, s), <<s>> \o slots}
    BY DEF Connect, IInv, SlotInv, Listed
  <1>2. /\ slots' \in Seq(Node) /\ IsInjective(slots')
        /\ Listed' = Listed \cup {s}
        /\ SameOrder(slots, slots', Listed)
        /\ slots' = Append(slots, s) => \A a \in Listed' : Before(slots', a, s)
        /\ slots' = <<s>> \o slots => \A a \in Listed' : Before(slots', s, a)
    BY <1>1, InsertedFacts
  <1>3. /\ Lists(Connected, slots, call \cap Listed)
        /\ Lists(Connected', slots', call' \cap Listed')
    BY ListsHold, ListsHoldNext DEF ListsInv
  <1>4. Emissions' = Emissions
    BY ConnectEmissions
  <1>5. PICK S : S = call \cap Listed
    OBVIOUS
  <1>6. SameOrder(slots, slots', S)
    BY <1>2, <1>5 DEF SameOrder
  <1>7. call \subseteq Listed
    BY CallListed
  <1>8. CASE s \in EmptySlot
    <2>1. call' = call /\ (blocked \cap call)' = blocked \cap call
      BY <1>1, <1>7, <1>8 DEF Connect
    <2>2. call' \cap Listed' = S
      BY <1>2, <1>5, <1>7, <2>1
    <2>3. Connected' = Connected
      BY <1>3, <1>5, <1>6, <2>2, OneList DEF SameOrder
    <2>4. QED
      BY <1>4, <2>1, <2>3
  <1>9. CASE s \notin EmptySlot
    <2>1. call' = call \cup {s} /\ blocked' \in {blocked, blocked \cup {s}}
      BY <1>9 DEF Connect
    <2>2. call' \cap Listed' = S \cup {s} /\ s \notin S
      BY <1>1, <1>2, <1>5, <1>7, <2>1
    <2>3. (blocked \cap call)' \in {blocked \cap call, (blocked \cap call) \cup {s}}
      BY <2>1
    <2>4. s \notin Contract!ToSet(Connected)
      BY <1>1, <1>7, ConnectedSlots
    <2>5. Connected' \in {Append(Connected, s), <<s>> \o Connected}
      <3>1. PICK c : c = Connected
        OBVIOUS
      <3>2. S \cup {s} \subseteq Listed'
        BY <1>2, <1>5
      <3>3. PICK T : T = S \cup {s}
        OBVIOUS
      <3>4. Lists(Connected', slots', T)
        BY <1>3, <2>2, <3>3
      <3>5. CASE slots' = Append(slots, s)
        <4>1. Lists(Append(c, s), slots', T)
          BY <1>2, <1>3, <1>5, <1>6, <2>2, <3>1, <3>2, <3>5, <3>3, ListsAppend
        <4>2. Connected' = Append(c, s)
          BY <3>4, <4>1, OneList
        <4>3. QED
          BY <3>1, <4>2
      <3>6. CASE slots' = <<s>> \o slots
        <4>1. Lists(<<s>> \o c, slots', T)
          BY <1>2, <1>3, <1>5, <1>6, <2>2, <3>1, <3>2, <3>6, <3>3, ListsPrepend
        <4>2. Connected' = <<s>> \o c
          BY <3>4, <4>1, OneList
        <4>3. QED
          BY <3>1, <4>2
      <3>7. QED
        BY <1>1, <3>5, <3>6
    <2>6. QED
      BY <1>4, <2>3, <2>4, <2>5 DEF Contract!Connect, Connected, Emissions
  <1>10. QED
    BY <1>8, <1>9

-----------------------------------------------------------------------------
(***************************************************************************)
(* An emission begins.                                                     *)
(***************************************************************************)
\* What an emission has to consider depends on the order of the list alone.
LEMMA DueSame ==
    ASSUME NEW q, NEW r, NEW S, SameOrder(q, r, S), NEW cl \in SUBSET S,
           NEW f, f.at \in S, NEW i \in S
    PROVE  /\ Due(r, cl, f, i) = Due(q, cl, f, i)
           /\ SameOrder(q, r, Due(q, cl, f, i))
  BY DEF Due, SameOrder

\* The iterator of an emission begins before every slot.
LEMMA FirstIsFirst ==
    ASSUME NEW q \in Seq(Node), IsInjective(q), q # <<>>
    PROVE  /\ First(q) \in ToSet(q)
           /\ \A a \in ToSet(q) : Before(q, First(q), a)
  <1>1. PICK n \in Nat \ {0} : n = Len(q) /\ DOMAIN q = 1 .. n
    BY LenProperties, EmptySeq
  <1>2. 1 \in DOMAIN q /\ First(q) = q[1]
    BY <1>1 DEF First
  <1>3. \A k \in 1 .. n : 1 <= k
    OBVIOUS
  <1>4. QED
    BY <1>1, <1>2, <1>3 DEF Before, ToSet

LEMMA EmitSimulated ==
    ASSUME IInv, JInv, IInv', Emit
    PROVE  Contract!Emit
  <1>1. PICK n : n = Len(stack) + 1
    OBVIOUS
  <1>2. PICK g : g = Call("emit", First(slots))
    OBVIOUS
  <1>3. /\ slots # <<>> /\ Len(stack) < MaxStack
        /\ slots' = Append(slots, n)
        /\ stack' = Append(stack, g)
        /\ UNCHANGED <<call, blocked>>
    BY <1>1, <1>2 DEF Emit, Push
  <1>4. stack \in Seq(Frame) /\ slots \in Seq(Node) /\ IsInjective(slots)
    BY DEF IInv, TypeOK, FramesInv, EmitInv
  <1>5. /\ First(slots) \in Listed
        /\ \A a \in Listed : Before(slots, First(slots), a)
    BY <1>3, <1>4, FirstIsFirst DEF Listed
  <1>6. g \in Frame /\ g.op = "emit" /\ g.running = FALSE /\ g.at = First(slots)
    <2>1. First(slots) \in Node
      BY <1>4, <1>5, ElementOfSeq, LenProperties DEF Listed, ToSet
    <2>2. PICK a \in Node : a = First(slots)
      BY <2>1
    <2>3. "emit" \in Holder \cup FunctorDtor \cup {"notify"} /\ a \in Node \cup {End}
      BY DEF Holder
    <2>4. /\ Call("emit", a) \in Frame /\ Call("emit", a).op = "emit"
          /\ Call("emit", a).running = FALSE /\ Call("emit", a).at = a
      BY ONLY <2>3, CallIsFrame
    <2>5. g = Call("emit", a)
      BY <1>2, <2>2
    <2>6. QED
      BY ONLY <2>2, <2>4, <2>5
  <1>7. PICK len \in Nat : len = Len(stack)
    BY <1>4, LenProperties
  <1>8. /\ n \in Nat /\ n \in Mark /\ n \in Node /\ n \notin Listed
        /\ DOMAIN stack = 1 .. len /\ n = len + 1
    <2>1. DOMAIN stack = 1 .. len /\ n = len + 1
      BY <1>1, <1>4, <1>7, LenProperties
    <2>2. n \in Nat /\ n \in Mark /\ n \notin DOMAIN stack
      BY <1>3, <1>7, <2>1, BoundAssumption DEF Mark
    <2>3. EmitInv(slots, stack)
      BY DEF IInv, FramesInv
    <2>4. n \notin Listed
      BY <2>2, <2>3 DEF EmitInv, Listed
    <2>5. QED
      BY <2>1, <2>2, <2>4 DEF Node
  <1>9. /\ Listed' = Listed \cup {n}
        /\ slots' \in Seq(Node) /\ IsInjective(slots')
        /\ \A a, b : Before(slots, a, b) => Before(slots', a, b)
        /\ \A a \in Listed' : Before(slots', a, n)
    BY <1>3, <1>4, <1>8, AppendToList DEF Listed
  <1>10. SameOrder(slots, slots', Listed)
    BY <1>4, <1>9, OrderKept DEF SameOrder, Listed
  <1>11. call \subseteq Listed
    BY CallListed
  <1>12. Connected' = Connected
    <2>1. call' \cap Listed' = call /\ call \cap Listed = call
      BY <1>3, <1>9, <1>11
    <2>2. Lists(Connected, slots, call) /\ Lists(Connected', slots', call)
      BY <2>1, ListsHold, ListsHoldNext DEF ListsInv
    <2>3. QED
      BY <1>10, <1>11, <2>2, OneList DEF SameOrder
  <1>13. PICK D : D = Frames("emit")
    OBVIOUS
  <1>14. D \in SUBSET Nat /\ IsFiniteSet(D)
    BY <1>13, EmitFramesFacts
  <1>15. /\ DOMAIN stack' = 1 .. len + 1
         /\ stack'[n] = g
         /\ \A i \in 1 .. len : stack'[i] = stack[i]
    BY <1>3, <1>4, <1>6, <1>7, <1>8, PushFacts
  <1>16. \A i \in 1 .. len + 1 : i \in 1 .. len \/ i = n
    BY <1>8
  <1>17. Frames("emit")' = D \cup {n} /\ \A i \in D : stack'[i] = stack[i]
    BY <1>6, <1>8, <1>13, <1>15, <1>16 DEF Frames
  <1>18. AllBelow(D, n)
    BY <1>8, <1>13 DEF AllBelow, Frames
  <1>19. \A i \in D : EmissionOf(i)' = EmissionOf(i)
    <2>1. SUFFICES ASSUME NEW i \in D PROVE EmissionOf(i)' = EmissionOf(i)
      OBVIOUS
    <2>2. stack[i].at \in Listed /\ i \in Listed
      BY <1>13, EmitFramesFacts DEF EmitsInv
    <2>3. /\ Due(slots', call, stack[i], i) = Due(slots, call, stack[i], i)
          /\ SameOrder(slots, slots', Due(slots, call, stack[i], i))
      BY <1>10, <1>11, <2>2, DueSame
    <2>4. QED
      BY <1>3, <1>13, <1>17, <2>3, EmissionKept
  <1>20. EmissionOf(n)' = [todo |-> Connected, running |-> NoSlot]
    <2>1. Lists(TodoOf(n)', slots', Due(slots', call, g, n))
      BY <1>3, <1>15, <1>17, ListsHoldNext DEF ListsInv
    <2>2. Due(slots', call, g, n) = call
      BY <1>5, <1>6, <1>9, <1>11 DEF Due
    <2>3. Lists(Connected, slots, call)
      <3>1. call \cap Listed = call
        BY <1>11
      <3>2. QED
        BY <3>1, ListsHold DEF ListsInv
    <2>4. TodoOf(n)' = Connected
      BY <1>10, <1>11, <2>1, <2>2, <2>3, OneList DEF SameOrder
    <2>5. QED
      BY <1>6, <1>15, <2>4 DEF EmissionOf, NoSlot
  <1>21. PICK h : h = [i \in D |-> EmissionOf(i)]
    OBVIOUS
  <1>22. Emissions = InOrder(h, D)
    BY <1>13, <1>21 DEF Emissions
  <1>23. \A i \in D : EmissionOf(i)' = h[i]
    BY <1>19, <1>21
  <1>24. Emissions' = Append(InOrder(h, D), EmissionOf(n)')
    BY <1>8, <1>14, <1>17, <1>18, <1>23, EmissionsExtended
  <1>25. Emissions' = Append(Emissions, [todo |-> Connected, running |-> NoSlot])
    BY <1>20, <1>22, <1>24
  <1>26. (blocked \cap call)' = blocked \cap call
    BY <1>3
  <1>27. QED
    BY <1>12, <1>25, <1>26 DEF Contract!Emit, Connected, Emissions

-----------------------------------------------------------------------------
(***************************************************************************)
(* The innermost emission advances.                                        *)
(***************************************************************************)
\* The next slot comes immediately after the slot at the iterator.
LEMMA SuccessorComesNext ==
    ASSUME slots \in Seq(Node), IsInjective(slots),
           NEW n \in Listed, NEW m \in Listed, m = Successor(n)
    PROVE  /\ m # n
           /\ Before(slots, n, m)
           /\ \A a : Before(slots, m, a) <=> Before(slots, n, a) /\ a # n
  <1>1. PICK len \in Nat : len = Len(slots) /\ DOMAIN slots = 1 .. len
    BY LenProperties
  <1>2. PICK k : k = PositionOf(n)
    OBVIOUS
  <1>3. k \in 1 .. len /\ slots[k] = n
    BY <1>1, <1>2, PositionFacts
  <1>4. End \notin Listed
    <2>1. Listed \subseteq Node
      BY ElementOfSeq, LenProperties DEF Listed, ToSet
    <2>2. QED
      BY <2>1, SlotAssumption DEF Node, Mark, End
  <1>5. k # len /\ m = slots[k + 1]
    BY <1>1, <1>2, <1>4 DEF Successor
  <1>6. k + 1 \in 1 .. len /\ k <= k + 1
    BY <1>3, <1>5
  <1>7. Before(slots, n, m)
    BY <1>1, <1>3, <1>5, <1>6 DEF Before
  <1>8. m # n /\ \A a : Before(slots, n, a) /\ a # n => Before(slots, m, a)
    BY <1>4, SuccessorFacts
  <1>9. ASSUME NEW a, Before(slots, m, a)
        PROVE  Before(slots, n, a) /\ a # n
    BY <1>7, <1>8, <1>9, BeforeFacts
  <1>10. QED
    BY <1>7, <1>8, <1>9

\* What the emission with the frame f at the top has to consider.
LEMMA DueNext ==
    ASSUME IInv, TopIs("emit"), Top.at # TopMark,
           NEW f, f = Call("emit", Successor(Top.at))
    PROVE  /\ f \in Frame /\ f.op = "emit" /\ f.running = FALSE
           /\ Due(slots, call, f, TopMark)
                = Due(slots, call, Top, TopMark) \ {Top.at}
  <1>1. /\ slots \in Seq(Node) /\ IsInjective(slots)
        /\ Top.at \in Listed
    BY EmissionFacts
  <1>2. PICK m : m = Successor(Top.at)
    OBVIOUS
  <1>3. /\ f \in Frame /\ f.op = "emit" /\ f.running = FALSE
        /\ f.at = m /\ Before(slots, m, TopMark)
    BY <1>2, NextSlot DEF Call
  <1>4. m \in Listed
    BY <1>1, <1>3, BeforeFacts DEF Listed
  <1>5. \A a : Before(slots, m, a) <=> Before(slots, Top.at, a) /\ a # Top.at
    BY <1>1, <1>2, <1>4, SuccessorComesNext
  <1>6. QED
    BY <1>3, <1>5 DEF Due

\* The slot at the iterator is the first one to be considered.
LEMMA DueFirst ==
    ASSUME IInv, TopIs("emit"), ~Top.running, Top.at \in call
    PROVE  /\ Top.at \in Due(slots, call, Top, TopMark)
           /\ \A n \in Due(slots, call, Top, TopMark) : Before(slots, Top.at, n)
  <1>1. /\ slots \in Seq(Node) /\ IsInjective(slots)
        /\ Top.at \in Listed /\ Before(slots, Top.at, TopMark)
    BY EmissionFacts
  <1>2. Before(slots, Top.at, Top.at)
    BY <1>1, BeforeFacts DEF Listed
  <1>3. QED
    BY <1>1, <1>2 DEF Due

LEMMA DueNone ==
    ASSUME IInv, TopIs("emit"), NEW f, f.at = TopMark
    PROVE  Due(slots, call, f, TopMark) = {}
  <1>1. /\ slots \in Seq(Node) /\ IsInjective(slots) /\ TopMark \in Mark
    BY EmissionFacts
  <1>2. TopMark \notin call
    BY <1>1, NodesDisjoint DEF IInv, TypeOK
  <1>3. QED
    BY <1>1, <1>2, BeforeFacts DEF Due

\* The innermost emission, as SignalContract sees it.
LEMMA InnermostIs ==
    ASSUME IInv, TopIs("emit"), NEW n, n = TopMark
    PROVE  /\ Emissions # <<>>
           /\ Contract!Innermost = [todo    |-> TodoOf(n),
                                    running |-> IF Top.running THEN Top.at ELSE NoSlot]
           /\ Emissions = Append(Contract!Outer, Contract!Innermost)
           /\ Lists(TodoOf(n), slots, Due(slots, call, Top, n))
           /\ Contract!Outer = InOrder([i \in Frames("emit") \ {n} |-> EmissionOf(i)],
                                       Frames("emit") \ {n})
  <1>1. PICK D : D = Frames("emit") \ {n}
    OBVIOUS
  <1>2. PICK o : o = InOrder([i \in D |-> EmissionOf(i)], D)
    OBVIOUS
  <1>3. EndsWith(Emissions, o, EmissionOf(n)) /\ n \in Frames("emit")
    BY <1>1, <1>2, InnermostFacts
  <1>4. /\ Emissions # <<>>
        /\ Contract!Innermost = EmissionOf(n)
        /\ Contract!Outer = o
        /\ Emissions = Append(o, EmissionOf(n))
    BY <1>3 DEF EndsWith, Contract!Innermost, Contract!Outer, Emissions
  <1>5. stack[n] = Top
    BY DEF TopMark, Top
  <1>6. EmissionOf(n) = [todo    |-> TodoOf(n),
                         running |-> IF Top.running THEN Top.at ELSE NoSlot]
    BY <1>5 DEF EmissionOf
  <1>7. Lists(TodoOf(n), slots, Due(slots, call, Top, n))
    BY <1>3, <1>5, ListsHold DEF ListsInv
  <1>8. QED
    BY <1>1, <1>2, <1>4, <1>6, <1>7

\* The frame at the top becomes f, and with it the innermost emission.
LEMMA InnermostMoves ==
    ASSUME IInv, IInv', TopIs("emit"), NEW f \in Frame, f.op = "emit",
           stack' = Continue(f), UNCHANGED <<slots, call>>,
           NEW t, Lists(t, slots, Due(slots, call, f, TopMark)),
           NEW e, e = [todo |-> t, running |-> IF f.running THEN f.at ELSE NoSlot]
    PROVE  /\ Connected' = Connected
           /\ Emissions' = Append(Contract!Outer, e)
  <1>1. Connected' = Connected
    BY DEF Connected, Valid, Empty
  <1>2. PICK n : n = TopMark
    OBVIOUS
  <1>3. PICK D : D = Frames("emit") \ {n}
    OBVIOUS
  <1>4. /\ D \in SUBSET Nat /\ IsFiniteSet(D)
        /\ n \in Nat /\ AllBelow(D, n)
        /\ Frames("emit") = D \cup {n}
        /\ D = EmitFrames(Caller)
        /\ \A i \in D : Caller[i] = stack[i]
    BY <1>2, <1>3, InnermostFacts
  <1>5. /\ stack \in Seq(Frame) /\ Caller \in Seq(Frame)
        /\ stack' = Append(Caller, f)
        /\ Caller = CallerOf(stack) /\ stack # <<>>
    BY TopFacts DEF IInv, TypeOK, Continue, TopIs
  <1>6. PICK new : new = stack'
    OBVIOUS
  <1>7. /\ DOMAIN new = 1 .. n /\ new[n] = f
        /\ n \in Nat \ {0} /\ DOMAIN Caller = 1 .. n - 1
        /\ \A i \in 1 .. n - 1 : new[i] = Caller[i]
    <2>1. PICK rest : rest = Caller
      OBVIOUS
    <2>2. n = Len(stack) /\ n \in Nat \ {0}
      BY <1>2, <1>5, PopFacts DEF TopMark
    <2>3. Len(rest) = n - 1 /\ DOMAIN rest = 1 .. n - 1
      BY <1>5, <2>1, <2>2, PopFacts
    <2>4. rest \in Seq(Frame) /\ f \in Frame /\ new = Append(rest, f)
      BY <1>5, <1>6, <2>1
    <2>5. PICK k \in Nat : k = Len(rest)
      BY <2>4, LenProperties
    <2>6. /\ DOMAIN new = 1 .. k + 1
          /\ new[k + 1] = f
          /\ \A i \in 1 .. k : new[i] = rest[i]
      BY <2>4, <2>5, PushFacts
    <2>7. n = k + 1 /\ n - 1 = k
      BY <2>2, <2>3, <2>5
    <2>8. QED
      BY <2>1, <2>2, <2>3, <2>6, <2>7
  <1>8. \A i \in 1 .. n : i \in 1 .. n - 1 \/ i = n
    BY <1>7
  <1>9. \A i \in 1 .. n - 1 : i \in 1 .. n /\ i # n
    BY <1>7
  <1>10. Frames("emit")' = D \cup {n} /\ \A i \in D : stack'[i] = stack[i]
    <2>1. {i \in DOMAIN new : new[i].op = "emit"} = D \cup {n}
      BY <1>4, <1>7, <1>8, <1>9 DEF EmitFrames
    <2>2. Frames("emit")' = {i \in DOMAIN new : new[i].op = "emit"}
      BY <1>6 DEF Frames
    <2>3. \A i \in D : new[i] = stack[i]
      BY <1>4, <1>7 DEF EmitFrames
    <2>4. QED
      BY <1>6, <2>1, <2>2, <2>3
  <1>11. \A i \in D : EmissionOf(i)' = EmissionOf(i)
    BY <1>4, <1>10, EmissionKept DEF SameOrder
  <1>12. EmissionOf(n)' = e
    <2>1. stack'[n] = f /\ n \in Frames("emit")'
      BY <1>6, <1>7, <1>10
    <2>2. Lists(TodoOf(n)', slots, Due(slots, call, f, n))
      BY <2>1, ListsHoldNext DEF ListsInv
    <2>3. TodoOf(n)' = t
      BY <1>2, <2>2, OneList
    <2>4. QED
      BY <2>1, <2>3 DEF EmissionOf, NoSlot
  <1>13. PICK h : h = [i \in D |-> EmissionOf(i)]
    OBVIOUS
  <1>14. Contract!Outer = InOrder(h, D)
    BY <1>2, <1>3, <1>13, InnermostIs
  <1>15. \A i \in D : EmissionOf(i)' = h[i]
    BY <1>11, <1>13
  <1>16. Emissions' = Append(InOrder(h, D), EmissionOf(n)')
    BY <1>4, <1>10, <1>15, EmissionsExtended
  <1>17. QED
    BY <1>1, <1>12, <1>14, <1>16

\* The functor of a slot returns, or throws.
LEMMA ReturnSimulated ==
    ASSUME IInv, IInv', SlotReturns \/ SlotThrows
    PROVE  Contract!Return
  <1>1. TopIs("emit") /\ Top.running /\ UNCHANGED <<slots, call, blocked>>
    BY DEF SlotReturns, SlotThrows
  <1>2. PICK n : n = TopMark
    OBVIOUS
  <1>3. PICK t : t = TodoOf(n)
    OBVIOUS
  <1>4. Top.at \in Slot /\ n \in Mark
    BY <1>1, <1>2, EmissionFacts
  <1>5. /\ Emissions # <<>>
        /\ Contract!Innermost = [todo |-> t, running |-> Top.at]
        /\ Lists(t, slots, Due(slots, call, Top, n))
    BY <1>1, <1>2, <1>3, InnermostIs
  <1>6. Contract!Innermost.running # NoSlot
    BY <1>4, <1>5, SlotAssumption DEF NoSlot, End
  <1>7. /\ (blocked \cap call)' = blocked \cap call
    BY <1>1
  <1>8. CASE SlotReturns
    <2>1. PICK f : f = Call("emit", Successor(Top.at))
      OBVIOUS
    <2>2. Top.at # n
      BY <1>4, NodesDisjoint
    <2>3. /\ f \in Frame /\ f.op = "emit" /\ f.running = FALSE
          /\ Due(slots, call, f, n) = Due(slots, call, Top, n) \ {Top.at}
      BY <1>1, <1>2, <2>1, <2>2, DueNext
    <2>4. Top.at \notin Due(slots, call, Top, n)
      BY <1>1 DEF Due
    <2>5. Due(slots, call, f, n) = Due(slots, call, Top, n)
      BY <2>3, <2>4
    <2>6. stack' = Continue(f)
      BY <1>8, <2>1 DEF SlotReturns
    <2>7. PICK e : e = [todo |-> t, running |-> NoSlot]
      OBVIOUS
    <2>8. Lists(t, slots, Due(slots, call, f, TopMark))
      BY <1>2, <1>5, <2>5
    <2>9. e = [todo |-> t, running |-> IF f.running THEN f.at ELSE NoSlot]
      BY <2>3, <2>7
    <2>10. Connected' = Connected /\ Emissions' = Append(Contract!Outer, e)
      BY <1>1, <2>3, <2>6, <2>8, <2>9, InnermostMoves
    <2>11. e = [Contract!Innermost EXCEPT !.running = NoSlot]
      BY <1>5, <2>7
    <2>12. QED
      BY <1>5, <1>6, <1>7, <2>10, <2>11
         DEF Contract!Return, Contract!Progress, Connected, Emissions
  <1>9. CASE SlotThrows
    <2>1. PICK f : f = Call("emit", TopMark)
      OBVIOUS
    <2>2. f \in Frame /\ f.op = "emit" /\ f.running = FALSE /\ f.at = TopMark
      BY <1>2, <1>4, <2>1, CallIsFrame DEF Holder, Node
    <2>3. Due(slots, call, f, TopMark) = {}
      BY <1>1, <2>2, DueNone
    <2>4. Lists(<<>>, slots, {})
      <3>1. <<>> \in Seq({}) /\ DOMAIN <<>> = {}
        OBVIOUS
      <3>2. QED
        BY <3>1 DEF Lists, IsInjective, ToSet
    <2>5. stack' = Continue(f)
      BY <1>9, <2>1 DEF SlotThrows
    <2>6. PICK e : e = [todo |-> <<>>, running |-> NoSlot]
      OBVIOUS
    <2>7. e = [todo |-> <<>>, running |-> IF f.running THEN f.at ELSE NoSlot]
      BY <2>2, <2>6
    <2>8. Lists(<<>>, slots, Due(slots, call, f, TopMark))
      BY <2>3, <2>4
    <2>9. Connected' = Connected /\ Emissions' = Append(Contract!Outer, e)
      BY <1>1, <2>2, <2>5, <2>7, <2>8, InnermostMoves
    <2>10. QED
      BY <1>5, <1>6, <1>7, <2>6, <2>9
         DEF Contract!Return, Contract!Progress, Connected, Emissions
  <1>10. QED
    BY <1>8, <1>9

\* A placeholder or an invalid slot is passed over without the contract's
\* noticing; a blocked slot is skipped.
LEMMA SkipSimulated ==
    ASSUME IInv, IInv', EmitSkip
    PROVE  \/ Contract!Skip
           \/ UNCHANGED <<Connected, blocked \cap call, Emissions>>
  <1>1. /\ TopIs("emit") /\ ~Top.running /\ Top.at # TopMark
        /\ UNCHANGED <<slots, call, blocked>>
    BY DEF EmitSkip, Emitting
  <1>2. PICK n : n = TopMark
    OBVIOUS
  <1>3. PICK t : t = TodoOf(n)
    OBVIOUS
  <1>4. /\ Emissions # <<>>
        /\ Contract!Innermost = [todo |-> t, running |-> NoSlot]
        /\ Emissions = Append(Contract!Outer, Contract!Innermost)
        /\ Lists(t, slots, Due(slots, call, Top, n))
    BY <1>1, <1>2, <1>3, InnermostIs
  <1>5. PICK f : f = Call("emit", Successor(Top.at))
    OBVIOUS
  <1>6. /\ f \in Frame /\ f.op = "emit" /\ f.running = FALSE
        /\ Due(slots, call, f, n) = Due(slots, call, Top, n) \ {Top.at}
    BY <1>1, <1>2, <1>5, DueNext
  <1>7. stack' = Continue(f)
    BY <1>5 DEF EmitSkip
  <1>8. (blocked \cap call)' = blocked \cap call
    BY <1>1
  <1>9. ASSUME NEW m, Lists(m, slots, Due(slots, call, Top, n) \ {Top.at}),
               NEW e, e = [todo |-> m, running |-> NoSlot]
        PROVE  Connected' = Connected /\ Emissions' = Append(Contract!Outer, e)
    <2>1. Lists(m, slots, Due(slots, call, f, TopMark))
      BY <1>2, <1>6, <1>9
    <2>2. e = [todo |-> m, running |-> IF f.running THEN f.at ELSE NoSlot]
      BY <1>6, <1>9
    <2>3. QED
      BY <1>1, <1>6, <1>7, <2>1, <2>2, InnermostMoves
  <1>10. CASE Top.at \in call
    <2>1. Top.at \in blocked
      BY <1>10 DEF EmitSkip, Empty
    <2>2. /\ Top.at \in Due(slots, call, Top, n)
          /\ \A a \in Due(slots, call, Top, n) : Before(slots, Top.at, a)
      BY <1>1, <1>2, <1>10, DueFirst
    <2>3. /\ t # <<>> /\ Head(t) = Top.at
          /\ Lists(Tail(t), slots, Due(slots, call, Top, n) \ {Top.at})
      BY <1>4, <2>2, ListsTail
    <2>4. PICK e : e = [todo |-> Tail(t), running |-> NoSlot]
      OBVIOUS
    <2>5. Connected' = Connected /\ Emissions' = Append(Contract!Outer, e)
      BY <1>9, <2>3, <2>4
    <2>6. /\ e = [Contract!Innermost EXCEPT !.todo = Tail(@)]
          /\ Contract!Innermost.running = NoSlot
          /\ Contract!Innermost.todo = t
      <3>1. PICK m : m = Tail(t)
        OBVIOUS
      <3>2. PICK c : c = Contract!Innermost
        OBVIOUS
      <3>3. c = [todo |-> t, running |-> NoSlot] /\ e = [todo |-> m, running |-> NoSlot]
        BY <1>4, <2>4, <3>1, <3>2
      <3>4. c.running = NoSlot /\ c.todo = t
        BY <3>3
      <3>5. e = [c EXCEPT !.todo = m]
        BY <3>3
      <3>6. [c EXCEPT !.todo = m] = [c EXCEPT !.todo = Tail(@)]
        BY <3>1, <3>3, <3>4
      <3>7. QED
        BY <3>2, <3>4, <3>5, <3>6
    <2>7. Head(t) \in blocked \cap call
      BY <1>10, <2>1, <2>3
    <2>8. QED
      BY <1>4, <1>8, <2>3, <2>5, <2>6, <2>7
         DEF Contract!Skip, Contract!Idle, Contract!Progress, Connected, Emissions
  <1>11. CASE Top.at \notin call
    <2>1. Due(slots, call, Top, n) \ {Top.at} = Due(slots, call, Top, n)
      BY <1>11 DEF Due
    <2>2. PICK e : e = Contract!Innermost
      OBVIOUS
    <2>3. Connected' = Connected /\ Emissions' = Append(Contract!Outer, e)
      BY <1>4, <1>9, <2>1, <2>2
    <2>4. QED
      BY <1>4, <1>8, <2>2, <2>3
  <1>12. QED
    BY <1>10, <1>11

LEMMA InvokeSimulated ==
    ASSUME IInv, IInv', EmitInvoke
    PROVE  Contract!Invoke
  <1>1. /\ TopIs("emit") /\ ~Top.running /\ Top.at \in call /\ Top.at \notin blocked
        /\ UNCHANGED <<slots, call, blocked>>
    BY DEF EmitInvoke, Emitting, Empty
  <1>2. PICK n : n = TopMark
    OBVIOUS
  <1>3. PICK t : t = TodoOf(n)
    OBVIOUS
  <1>4. /\ Emissions # <<>>
        /\ Contract!Innermost = [todo |-> t, running |-> NoSlot]
        /\ Lists(t, slots, Due(slots, call, Top, n))
    BY <1>1, <1>2, <1>3, InnermostIs
  <1>5. PICK f : f = [Top EXCEPT !.running = TRUE]
    OBVIOUS
  <1>6. /\ f \in Frame /\ f.op = "emit" /\ f.running = TRUE /\ f.at = Top.at
        /\ stack' = Continue(f)
    BY <1>1, <1>5, EmissionFacts DEF EmitInvoke, Frame
  <1>7. Due(slots, call, f, n) = Due(slots, call, Top, n) \ {Top.at}
    BY <1>1, <1>6 DEF Due
  <1>8. /\ Top.at \in Due(slots, call, Top, n)
        /\ \A a \in Due(slots, call, Top, n) : Before(slots, Top.at, a)
    BY <1>1, <1>2, DueFirst
  <1>9. /\ t # <<>> /\ Head(t) = Top.at
        /\ Lists(Tail(t), slots, Due(slots, call, Top, n) \ {Top.at})
    BY <1>4, <1>8, ListsTail
  <1>10. PICK e : e = [todo |-> Tail(t), running |-> Head(t)]
    OBVIOUS
  <1>11. Connected' = Connected /\ Emissions' = Append(Contract!Outer, e)
    <2>1. PICK m : m = Tail(t)
      OBVIOUS
    <2>2. Lists(m, slots, Due(slots, call, f, TopMark))
      BY <1>2, <1>7, <1>9, <2>1
    <2>3. e = [todo |-> m, running |-> IF f.running THEN f.at ELSE NoSlot]
      BY <1>6, <1>9, <1>10, <2>1
    <2>4. QED
      BY <1>1, <1>6, <2>2, <2>3, InnermostMoves
  <1>12. Head(t) \notin blocked \cap call
    BY <1>1, <1>9
  <1>13. (blocked \cap call)' = blocked \cap call
    BY <1>1
  <1>14. Contract!Innermost.running = NoSlot /\ Contract!Innermost.todo = t
    BY <1>4
  <1>15. QED
    BY <1>4, <1>9, <1>10, <1>11, <1>12, <1>13, <1>14
       DEF Contract!Invoke, Contract!Idle, Contract!Progress, Connected, Emissions

\* The placeholder of an emission leaves the list, and the emission ends.
LEMMA FinishSimulated ==
    ASSUME IInv, JInv, IInv', EmitEnd
    PROVE  Contract!Finish
  <1>1. /\ TopIs("emit") /\ ~Top.running /\ Top.at = TopMark
        /\ call' = call /\ blocked' = blocked \ {TopMark}
        /\ slots' = Without(TopMark)
        /\ Release(Without(TopMark))
    BY DEF EmitEnd, Emitting
  <1>2. PICK n : n = TopMark
    OBVIOUS
  <1>3. /\ slots \in Seq(Node) /\ IsInjective(slots)
        /\ n \in Mark /\ n \in Listed /\ n \notin call
    BY <1>2, EmissionFacts, NodesDisjoint, <1>1 DEF IInv, TypeOK
  <1>4. /\ slots' \in Seq(Node) /\ IsInjective(slots')
        /\ Listed' = Listed \ {n}
        /\ \A a, b : Before(slots, a, b) /\ a # n /\ b # n => Before(slots', a, b)
    BY <1>1, <1>2, <1>3, WithoutFacts DEF Listed
  <1>5. PICK S : S = Listed \ {n}
    OBVIOUS
  <1>6. SameOrder(slots, slots', S) /\ call \subseteq S
    <2>1. \A a, b \in S : Before(slots, a, b) => Before(slots', a, b)
      BY <1>4, <1>5
    <2>2. S \subseteq ToSet(slots)
      BY <1>5 DEF Listed
    <2>3. SameOrder(slots, slots', S)
      BY <1>3, <1>4, <2>1, <2>2, OrderKept DEF SameOrder
    <2>4. QED
      BY <1>3, <1>5, <2>3, CallListed
  <1>7. Connected' = Connected
    <2>1. call' \cap Listed' = call /\ call \cap Listed = call
      BY <1>1, <1>4, <1>5, <1>6
    <2>2. Lists(Connected, slots, call) /\ Lists(Connected', slots', call)
      BY <2>1, ListsHold, ListsHoldNext DEF ListsInv
    <2>3. QED
      BY <1>6, <2>2, OneList DEF SameOrder
  <1>8. PICK D : D = Frames("emit") \ {n}
    OBVIOUS
  <1>9. /\ D \in SUBSET Nat /\ IsFiniteSet(D)
        /\ n \in Nat /\ AllBelow(D, n)
        /\ Frames("emit") = D \cup {n}
        /\ D = EmitFrames(Caller)
        /\ \A i \in D : Caller[i] = stack[i]
    BY <1>1, <1>2, <1>8, InnermostFacts
  <1>10. SameEmits(Caller, stack')
    <2>1. PICK g : g = Call("sweep", First(slots'))
      OBVIOUS
    <2>2. g \in Frame /\ g.op = "sweep"
      <3>1. First(slots') \in Node \cup {End}
        BY <1>4, FirstFacts, ElementOfSeq, LenProperties DEF ToSet
      <3>2. QED
        BY <2>1, <3>1, CallIsFrame DEF Holder
    <2>3. Caller \in Seq(Frame)
      BY <1>1, TopFacts DEF IInv, TopIs
    <2>4. SameEmits(Caller, Append(Caller, g))
      BY <2>2, <2>3, SameEmitsPush
    <2>5. stack' = Append(Caller, g) \/ stack' = Caller
      BY <1>1, <2>1 DEF Release, Continue
    <2>6. QED
      BY <2>4, <2>5, SameEmitsFacts
  <1>11. Frames("emit")' = D /\ \A i \in D : stack'[i] = stack[i]
    <2>1. Frames("emit")' = EmitFrames(stack')
      BY EmitFramesFactsNext DEF EmitsInv
    <2>2. QED
      BY <1>9, <1>10, <2>1 DEF SameEmits
  <1>12. ASSUME NEW i \in D
         PROVE  EmissionOf(i)' = EmissionOf(i)
    <2>1. /\ i \in Frames("emit") /\ i < n /\ i # n
          /\ i \in Listed /\ stack[i].at \in Listed
          /\ Before(slots, stack[i].at, i)
      BY <1>8, <1>9, <1>12, EmitFramesFacts DEF EmitsInv, AllBelow
    <2>2. Before(slots, i, n)
      <3>1. /\ stack[i].op = "emit" /\ stack[n].op = "emit"
            /\ i \in DOMAIN stack /\ n \in DOMAIN stack
        BY <1>9, <2>1 DEF Frames
      <3>2. QED
        BY <2>1, <3>1 DEF IInv, FramesInv, EmitInv
    <2>3. stack[i].at # n
      BY <1>3, <2>1, <2>2, BeforeFacts
    <2>4. stack[i].at \in S /\ i \in S
      BY <1>5, <2>1, <2>3
    <2>5. /\ Due(slots', call, stack[i], i) = Due(slots, call, stack[i], i)
          /\ SameOrder(slots, slots', Due(slots, call, stack[i], i))
      BY <1>6, <2>4, DueSame
    <2>6. i \in Frames("emit")' /\ stack'[i] = stack[i]
      BY <1>11, <1>12
    <2>7. QED
      BY <1>1, <2>1, <2>5, <2>6, EmissionKept
  <1>13. PICK t : t = TodoOf(n)
    OBVIOUS
  <1>14. PICK h : h = [i \in D |-> EmissionOf(i)]
    OBVIOUS
  <1>15. /\ Emissions # <<>>
         /\ Contract!Innermost = [todo |-> t, running |-> NoSlot]
         /\ Lists(t, slots, Due(slots, call, Top, n))
         /\ Contract!Outer = InOrder(h, D)
    BY <1>1, <1>2, <1>8, <1>13, <1>14, InnermostIs
  <1>16. t = <<>>
    <2>1. Lists(t, slots, {})
      BY <1>1, <1>2, <1>15, DueNone
    <2>2. t \in Seq({})
      BY <2>1 DEF Lists
    <2>3. QED
      BY <2>2, EmptySeq, LenProperties, ElementOfSeq
  <1>17. Emissions' = Contract!Outer
    <2>1. PICK g : g = [i \in D |-> EmissionOf(i)']
      OBVIOUS
    <2>2. Emissions' = InOrder(g, D)
      BY <1>11, <2>1 DEF Emissions
    <2>3. \A i \in D : g[i] = h[i]
      BY <1>12, <1>14, <2>1
    <2>4. QED
      BY <1>9, <1>15, <2>2, <2>3, InOrderSame
  <1>18. (blocked \cap call)' = blocked \cap call
    BY <1>1, <1>2, <1>3
  <1>19. Contract!Innermost.running = NoSlot /\ Contract!Innermost.todo = <<>>
    BY <1>15, <1>16
  <1>20. QED
    BY <1>7, <1>15, <1>17, <1>18, <1>19
       DEF Contract!Finish, Contract!Idle, Connected, Emissions

-----------------------------------------------------------------------------
(***************************************************************************)
(* The refinement.                                                         *)
(***************************************************************************)
LEMMA InitSimulated == Init => Contract!Init
  <1>1. SUFFICES ASSUME Init PROVE Contract!Init
    OBVIOUS
  <1>2. slots = <<>> /\ stack = <<>> /\ blocked = {}
    BY <1>1 DEF Init
  <1>3. Connected = <<>>
    <2>1. {k \in 1 .. Len(slots) : ~Empty(slots[k])} = {}
      BY <1>2
    <2>2. QED
      BY <2>1, InOrderNone DEF Connected, Valid
  <1>4. Emissions = <<>>
    <2>1. Frames("emit") = {}
      BY <1>2 DEF Frames
    <2>2. QED
      BY <2>1, InOrderNone DEF Emissions
  <1>5. QED
    BY <1>2, <1>3, <1>4 DEF Contract!Init, Connected, Emissions

LEMMA ForgetsSimulated ==
    ASSUME IInv, IInv', Forgets
    PROVE  Contract!Next
  <1>1. call \ call' \in SUBSET Slot
    BY DEF IInv, TypeOK
  <1>2. QED
    BY <1>1, ForgetsStep DEF Contract!Next

LEMMA NextSimulated ==
    ASSUME IInv, JInv, IInv', JInv', [Next]_vars
    PROVE  [Contract!Next]_(Contract!vars)
  <1> DEFINE Same == UNCHANGED <<Connected, blocked \cap call, Emissions>>
  <1>1. SUFFICES Contract!Next \/ Same
    BY DEF Contract!vars, Connected, Emissions
  <1>2. CASE ImplDestroyed
    BY <1>2, ClearForgets, ForgetsSimulated
  <1>3. CASE UserOperation
    <2>1. ASSUME NEW s \in Slot, Connect(s) PROVE Contract!Next \/ Same
      <3>1. Contract!Connect(s) => Contract!Next
        BY DEF Contract!Next
      <3>2. QED
        BY <2>1, <3>1, ConnectSimulated
    <2>2. ASSUME NEW s \in Slot, Disconnect(s) \/ Invalidate(s) PROVE Contract!Next
      BY <2>2, UserForgets, ForgetsSimulated
    <2>3. CASE (\E s \in Slot : Block(s)) \/ BlockAll \/ CopyHandle \/ DropHandle
      <3>1. UNCHANGED <<slots, call, stack>>
        BY <2>3 DEF Block, BlockAll, CopyHandle, DropHandle
      <3>2. QED
        BY <3>1, BlockedIsSet DEF Contract!Next, Connected
    <2>4. CASE Clear
      BY <2>4, ClearForgets, ForgetsSimulated
    <2>5. CASE Emit
      BY <2>5, EmitSimulated DEF Contract!Next
    <2>6. QED
      BY <1>3, <2>1, <2>2, <2>3, <2>4, <2>5 DEF UserOperation
  <1>4. CASE UserReturns
    <2>1. CASE SlotReturns \/ SlotThrows
      BY <2>1, ReturnSimulated DEF Contract!Next
    <2>2. CASE FunctorDone
      BY <2>2, FunctorDoneForgets, ForgetsSimulated
    <2>3. QED
      BY <1>4, <2>1, <2>2 DEF UserReturns
  <1>5. CASE LibraryStep
    <2>1. CASE EmitSkip
      <3>1. Contract!Skip => Contract!Next
        BY DEF Contract!Next
      <3>2. QED
        BY <2>1, <3>1, SkipSimulated
    <2>2. CASE EmitInvoke
      BY <2>2, InvokeSimulated DEF Contract!Next
    <2>3. CASE EmitEnd
      BY <2>3, FinishSimulated DEF Contract!Next
    <2>4. CASE NotifyResume
      BY <2>4, NotifyResumeForgets, ForgetsSimulated
    <2>5. CASE EraseDone \/ SweepEnd \/ ClearDone
      BY <2>5, HolderDoneForgets, ForgetsSimulated
    <2>6. CASE SweepErase \/ SweepSkip
      BY <2>6, SweepForgets, ForgetsSimulated
    <2>7. CASE ClearStep
      BY <2>7, ClearStepForgets, ForgetsSimulated
    <2>8. QED
      BY <1>5, <2>1, <2>2, <2>3, <2>4, <2>5, <2>6, <2>7 DEF LibraryStep
  <1>6. CASE Finished \/ UNCHANGED vars
    <2>1. UNCHANGED <<slots, call, stack, blocked>>
      BY <1>6 DEF Finished, vars
    <2>2. (blocked \cap call)' = blocked \cap call
      BY <2>1
    <2>3. QED
      BY <2>1, <2>2, SameLists
  <1>7. QED
    BY <1>2, <1>3, <1>4, <1>5, <1>6 DEF Next

\* Slots are invoked as SignalContract says, whatever the functors do to the
\* signal while they are executed: once per emission, in the order of the
\* list, not if they were connected after it began, and never after they were
\* disconnected. (signal.h:191-366)
THEOREM ContractImplemented == Spec => ImplementsContract
  <1>1. Spec => [](IInv /\ JInv)
    BY InductiveInvariant, LifeInvariant, PTL
  <1>2. (IInv /\ JInv) /\ (IInv /\ JInv)' /\ [Next]_vars
            => [Contract!Next]_(Contract!vars)
    BY NextSimulated
  <1>3. QED
    BY <1>1, <1>2, InitSimulated, PTL DEF Spec, ImplementsContract, Contract!Spec

-----------------------------------------------------------------------------
(***************************************************************************)
(* The progress of the emissions. An insertion at an end of the list and   *)
(* the removal of an element put no two of the others further apart.       *)
(***************************************************************************)
PlaceIn(q, n) == CHOOSE k \in DOMAIN q : q[k] = n

Distance(q, a, b) == PlaceIn(q, b) - PlaceIn(q, a)

LEMMA Places ==
    ASSUME NEW q, IsInjective(q), NEW k \in DOMAIN q, NEW n, n = q[k]
    PROVE  PlaceIn(q, n) = k
  <1>1. PlaceIn(q, n) \in DOMAIN q /\ q[PlaceIn(q, n)] = n
    BY DEF PlaceIn
  <1>2. QED
    BY <1>1 DEF IsInjective

\* r is q with another element, or without one of its elements.
OneChange(q, r) ==
    \/ \E n \in Node : r \in {Append(q, n), <<n>> \o q}
    \/ \E k \in DOMAIN q : r = RemoveAt(q, k)

LEMMA DistanceKept ==
    ASSUME NEW q \in Seq(Node), NEW r \in Seq(Node),
           IsInjective(q), IsInjective(r), OneChange(q, r),
           NEW a, NEW b, Before(q, a, b), {a, b} \subseteq ToSet(r)
    PROVE  Distance(r, a, b) <= Distance(q, a, b)
  <1>1. PICK len : len = Len(q)
    OBVIOUS
  <1>2. len \in Nat /\ DOMAIN q = 1 .. len
    BY <1>1, LenProperties
  <1>3. PICK i, j \in 1 .. len : i <= j /\ q[i] = a /\ q[j] = b
    BY <1>2 DEF Before
  <1>4. PlaceIn(q, a) = i /\ PlaceIn(q, b) = j
    BY <1>2, <1>3, Places
  <1>5. ASSUME NEW n \in Node, r = Append(q, n)
        PROVE  PlaceIn(r, a) = i /\ PlaceIn(r, b) = j
    <2>1. i \in DOMAIN r /\ j \in DOMAIN r /\ r[i] = a /\ r[j] = b
      BY <1>1, <1>2, <1>3, <1>5
    <2>2. QED
      BY <2>1, Places
  <1>6. ASSUME NEW n \in Node, r = <<n>> \o q
        PROVE  PlaceIn(r, a) = i + 1 /\ PlaceIn(r, b) = j + 1
    <2>1. DOMAIN r = 1 .. len + 1 /\ \A k \in 1 .. len : r[k + 1] = q[k]
      BY <1>1, <1>6
    <2>2. i + 1 \in DOMAIN r /\ j + 1 \in DOMAIN r /\ r[i + 1] = a /\ r[j + 1] = b
      BY <1>2, <1>3, <2>1
    <2>3. QED
      BY <2>2, Places
  <1>7. ASSUME NEW k \in DOMAIN q, r = RemoveAt(q, k)
        PROVE  Distance(r, a, b) <= Distance(q, a, b)
    <2>1. WithoutAt(q, r, k, len)
      BY <1>1, <1>7, RemovedAt
    <2>2. k \in 1 .. len /\ i # k /\ j # k
      <3>1. ToSet(r) = ToSet(q) \ {q[k]}
        BY <1>7, RemoveFromList
      <3>2. QED
        BY <1>2, <1>3, <1>7, <3>1
    <2>3. ASSUME NEW l \in 1 .. len, l # k,
                 NEW m, m = IF l < k THEN l ELSE l - 1
          PROVE  m \in DOMAIN r /\ r[m] = q[l]
      <3>1. CASE l < k
        BY <1>2, <2>1, <2>2, <2>3, <3>1 DEF WithoutAt
      <3>2. CASE l > k
        <4>1. m = l - 1 /\ m \in 1 .. len - 1 /\ m >= k /\ m + 1 = l
          BY <1>2, <2>2, <2>3, <3>2
        <4>2. QED
          BY <2>1, <4>1 DEF WithoutAt
      <3>3. QED
        BY <1>2, <2>2, <2>3, <3>1, <3>2
    <2>4. PICK x : x = IF i < k THEN i ELSE i - 1
      OBVIOUS
    <2>5. PICK y : y = IF j < k THEN j ELSE j - 1
      OBVIOUS
    <2>6. PlaceIn(r, a) = x /\ PlaceIn(r, b) = y
      <3>1. x \in DOMAIN r /\ r[x] = a /\ y \in DOMAIN r /\ r[y] = b
        BY <1>3, <2>2, <2>3, <2>4, <2>5
      <3>2. QED
        BY <3>1, Places
    <2>7. y - x <= j - i
      BY <1>2, <1>3, <2>2, <2>4, <2>5
    <2>8. QED
      BY <1>4, <2>6, <2>7 DEF Distance
  <1>8. Distance(q, a, b) = j - i
    BY <1>4 DEF Distance
  <1>9. CASE \E n \in Node : r = Append(q, n) \/ r = <<n>> \o q
    <2>1. \/ PlaceIn(r, a) = i /\ PlaceIn(r, b) = j
          \/ PlaceIn(r, a) = i + 1 /\ PlaceIn(r, b) = j + 1
      BY <1>5, <1>6, <1>9
    <2>2. QED
      BY <1>8, <2>1 DEF Distance
  <1>10. QED
    BY <1>7, <1>9 DEF OneChange

\* An emission's placeholder is not in front of its iterator.
LEMMA DistanceIsNat ==
    ASSUME NEW q \in Seq(Node), IsInjective(q), NEW a, NEW b, Before(q, a, b)
    PROVE  Distance(q, a, b) \in Nat /\ (a # b => Distance(q, a, b) > 0)
  <1>1. PICK len \in Nat : DOMAIN q = 1 .. len
    BY LenProperties
  <1>2. PICK i, j \in 1 .. len : i <= j /\ q[i] = a /\ q[j] = b
    BY <1>1 DEF Before
  <1>3. PlaceIn(q, a) = i /\ PlaceIn(q, b) = j
    BY <1>1, <1>2, Places
  <1>4. a # b => i # j
    BY <1>2
  <1>5. QED
    BY <1>2, <1>3, <1>4 DEF Distance

LEMMA WorkIs ==
    /\ \A i : Work(i) = 2 * Distance(slots, stack[i].at, i)
                            - (IF stack[i].running THEN 1 ELSE 0)
    /\ \A i : Work(i)' = 2 * Distance(slots', stack'[i].at, i)
                             - (IF stack'[i].running THEN 1 ELSE 0)
  BY DEF Work, Ahead, Distance, PositionOf, PlaceIn

\* An emission that is left alone while the list changes.
LEMMA WorkKept ==
    ASSUME IInv, IInv', NEW i \in Frames("emit"), i \in Frames("emit")',
           stack'[i] = stack[i], slots' = slots \/ OneChange(slots, slots')
    PROVE  Work(i)' <= Work(i)
  <1>1. PICK f : f = stack[i]
    OBVIOUS
  <1>2. /\ slots \in Seq(Node) /\ IsInjective(slots)
        /\ slots' \in Seq(Node) /\ IsInjective(slots')
    BY DEF IInv, TypeOK, FramesInv, EmitInv
  <1>3. Before(slots, f.at, i) /\ Before(slots', f.at, i)
    <2>1. Before(slots, stack[i].at, i) /\ Before(slots', stack'[i].at, i)
      BY EmitFramesFacts, EmitFramesFactsNext DEF EmitsInv
    <2>2. QED
      BY <1>1, <2>1
  <1>4. PICK d : d = Distance(slots, f.at, i)
    OBVIOUS
  <1>5. PICK e : e = Distance(slots', f.at, i)
    OBVIOUS
  <1>6. d \in Int /\ e \in Int
    BY <1>2, <1>3, <1>4, <1>5, DistanceIsNat
  <1>7. e <= d
    <2>1. {f.at, i} \subseteq ToSet(slots')
      BY <1>2, <1>3, BeforeFacts
    <2>2. CASE slots' = slots
      BY <1>4, <1>5, <1>6, <2>2
    <2>3. CASE OneChange(slots, slots')
      BY <1>2, <1>3, <1>4, <1>5, <2>1, <2>3, DistanceKept
    <2>4. QED
      BY <2>2, <2>3
  <1>8. PICK r \in {0, 1} : r = IF f.running THEN 1 ELSE 0
    OBVIOUS
  <1>9. Work(i) = 2 * d - r /\ Work(i)' = 2 * e - r
    BY <1>1, <1>4, <1>5, <1>8, WorkIs
  <1>10. QED
    BY <1>6, <1>7, <1>8, <1>9

\* What EmissionsAdvance says of a step.
Advance ==
    \A i \in Frames("emit") \cap Frames("emit")' :
        /\ Work(i)' <= Work(i)
        /\ stack'[i] # stack[i] => Work(i)' < Work(i)

\* The same emissions are on the stack, except that the top may have begun
\* or ended.
LEMMA StackKept ==
    ASSUME IInv, IInv', slots' = slots \/ OneChange(slots, slots'),
           \A i \in Frames("emit") \cap Frames("emit")' : stack'[i] = stack[i]
    PROVE  Advance
  BY WorkKept DEF Advance

LEMMA ForgetsAdvance ==
    ASSUME IInv, IInv', Forgets
    PROVE  Advance
  <1>1. Frames("emit") = EmitFrames(stack) /\ SameEmits(stack, stack')
    BY EmitFramesFacts DEF EmitsInv, Forgets
  <1>2. CASE EmitFrames(stack) = {}
    BY <1>1, <1>2 DEF Advance
  <1>3. CASE slots' = slots
    <2>1. \A i \in Frames("emit") : stack'[i] = stack[i]
      BY <1>1 DEF SameEmits
    <2>2. QED
      BY <1>3, <2>1, StackKept
  <1>4. QED
    BY <1>2, <1>3 DEF Forgets

LEMMA ConnectAdvance ==
    ASSUME IInv, IInv', NEW s \in Slot, Connect(s)
    PROVE  Advance
  <1>1. OneChange(slots, slots') /\ stack' = stack
    BY DEF Connect, OneChange, Node
  <1>2. QED
    BY <1>1, StackKept

LEMMA EmitAdvance ==
    ASSUME IInv, IInv', Emit
    PROVE  Advance
  <1>1. PICK m : m = Len(stack) + 1
    OBVIOUS
  <1>2. PICK f : f = Call("emit", First(slots))
    OBVIOUS
  <1>3. /\ slots' = Append(slots, m) /\ stack' = Append(stack, f)
        /\ Len(stack) < MaxStack /\ stack \in Seq(Frame)
    BY <1>1, <1>2 DEF Emit, Push, IInv, TypeOK
  <1>4. m \in Node
    BY <1>1, <1>3, LenProperties, BoundAssumption DEF Node, Mark
  <1>5. \A i \in DOMAIN stack : stack'[i] = stack[i]
    <2>1. PICK n \in Nat : n = Len(stack) /\ DOMAIN stack = 1 .. n
      BY <1>3, LenProperties
    <2>2. QED
      BY <1>3, <2>1
  <1>6. QED
    BY <1>3, <1>4, <1>5, StackKept DEF OneChange, Frames

LEMMA EmitEndAdvance ==
    ASSUME IInv, IInv', EmitEnd
    PROVE  Advance
  <1>1. /\ TopIs("emit") /\ Top.at = TopMark
        /\ slots' = Without(TopMark)
        /\ Release(Without(TopMark))
    BY DEF EmitEnd, Emitting
  <1>2. slots \in Seq(Node) /\ TopMark \in Listed
    BY <1>1, EmissionFacts
  <1>3. OneChange(slots, slots')
    BY <1>1, <1>2, PositionFacts DEF OneChange, Without
  <1>4. PICK rest : rest = Caller
    OBVIOUS
  <1>5. PICK g : g = Call("sweep", First(slots'))
    OBVIOUS
  <1>6. stack' = Append(rest, g) \/ stack' = rest
    BY <1>1, <1>4, <1>5 DEF Release, Continue
  <1>7. PICK n \in Nat : n = Len(rest) /\ DOMAIN rest = 1 .. n
    <2>1. rest \in Seq(Frame)
      BY <1>1, <1>4, TopFacts DEF IInv, TopIs
    <2>2. QED
      BY <2>1, LenProperties
  <1>8. \A i \in 1 .. n : rest[i] = stack[i]
    BY <1>1, <1>4, <1>7, TopFacts DEF IInv, TopIs
  <1>9. ASSUME NEW i \in Frames("emit")'
        PROVE  stack'[i] = stack[i]
    <2>1. g.op = "sweep"
      BY <1>5 DEF Call
    <2>2. i \in DOMAIN stack' /\ stack'[i].op = "emit"
      BY <1>9 DEF Frames
    <2>3. CASE stack' = rest
      BY <1>7, <1>8, <2>2, <2>3
    <2>4. CASE stack' = Append(rest, g)
      <3>1. rest \in Seq(Frame)
        BY <1>1, <1>4, TopFacts DEF IInv, TopIs
      <3>2. g \in Frame
        <4>1. IInv' => slots' \in Seq(Node)
          BY DEF IInv, TypeOK
        <4>2. First(slots') \in Node \cup {End}
          BY <4>1, FirstFacts, ElementOfSeq, LenProperties DEF ToSet
        <4>3. QED
          BY <1>5, <4>2, CallIsFrame DEF Holder
      <3>3. /\ DOMAIN stack' = 1 .. n + 1 /\ stack'[n + 1] = g
            /\ \A k \in 1 .. n : stack'[k] = rest[k]
        BY <1>7, <2>4, <3>1, <3>2, PushFacts
      <3>4. i \in 1 .. n
        <4>1. i # n + 1
          BY <2>1, <2>2, <3>3
        <4>2. QED
          BY <2>2, <3>3, <4>1
      <3>5. QED
        BY <1>8, <3>3, <3>4
    <2>5. QED
      BY <1>6, <2>3, <2>4
  <1>10. QED
    BY <1>3, <1>9, StackKept

\* The iterator goes to the next element, which is one nearer.
LEMMA SuccessorIsNearer ==
    ASSUME IInv, TopIs("emit"), Top.at # TopMark
    PROVE  Distance(slots, Successor(Top.at), TopMark)
               = Distance(slots, Top.at, TopMark) - 1
  <1>1. /\ slots \in Seq(Node) /\ IsInjective(slots)
        /\ Before(slots, Top.at, TopMark)
        /\ Top.at \in Listed
    BY EmissionFacts
  <1>2. PICK m : m = Successor(Top.at)
    OBVIOUS
  <1>3. PICK len \in Nat : len = Len(slots) /\ DOMAIN slots = 1 .. len
    BY <1>1, LenProperties
  <1>4. PICK i, j \in 1 .. len : i <= j /\ slots[i] = Top.at /\ slots[j] = TopMark
    BY <1>1, <1>3 DEF Before
  <1>5. PlaceIn(slots, Top.at) = i /\ PlaceIn(slots, TopMark) = j
    BY <1>1, <1>3, <1>4, Places
  <1>6. i # j /\ i + 1 \in 1 .. len /\ i # len
    BY <1>4
  <1>7. PositionOf(Top.at) = i
    BY <1>5 DEF PositionOf, PlaceIn
  <1>8. m = slots[i + 1]
    BY <1>2, <1>3, <1>6, <1>7 DEF Successor
  <1>9. PlaceIn(slots, m) = i + 1
    BY <1>1, <1>3, <1>6, <1>8, Places
  <1>10. QED
    BY <1>2, <1>4, <1>5, <1>9 DEF Distance

\* The innermost emission goes on, or executes a slot, or is done with it.
LEMMA TopAdvance ==
    ASSUME IInv, IInv', EmitSkip \/ EmitInvoke \/ SlotReturns \/ SlotThrows
    PROVE  Advance
  <1>1. TopIs("emit") /\ slots' = slots /\ stack \in Seq(Frame) /\ stack # <<>>
    BY DEF EmitSkip, EmitInvoke, SlotReturns, SlotThrows, Emitting, IInv, TypeOK,
           TopIs
  <1>2. PICK n : n = TopMark
    OBVIOUS
  <1>3. /\ slots \in Seq(Node) /\ IsInjective(slots)
        /\ Before(slots, Top.at, n) /\ n \in Listed /\ n \in Mark
        /\ Top.running => Top.at \in Slot
    BY <1>1, <1>2, EmissionFacts
  <1>4. PICK d : d = Distance(slots, Top.at, n)
    OBVIOUS
  <1>5. d \in Nat /\ (Top.at # n => d > 0)
    BY <1>3, <1>4, DistanceIsNat
  <1>6. Distance(slots, n, n) = 0
    <2>1. PICK k \in DOMAIN slots : slots[k] = n
      BY <1>3 DEF Listed, ToSet
    <2>2. PlaceIn(slots, n) = k /\ k \in Nat
      BY <1>3, <2>1, Places, LenProperties
    <2>3. QED
      BY <2>2 DEF Distance
  <1>7. Top.running => Top.at # n
    BY <1>3, NodesDisjoint
  <1>8. Top.at # n => Distance(slots, Successor(Top.at), n) = d - 1
    BY <1>1, <1>2, <1>4, SuccessorIsNearer
  <1>9. PICK f : stack' = Continue(f) /\ f \in Frame
                 /\ 2 * Distance(slots, f.at, n) - (IF f.running THEN 1 ELSE 0)
                        < 2 * d - (IF Top.running THEN 1 ELSE 0)
    <2>1. CASE EmitSkip
      <3>1. PICK f : f = Call("emit", Successor(Top.at))
        OBVIOUS
      <3>2. Top.at # n /\ ~Top.running /\ stack' = Continue(f)
        BY <1>2, <2>1, <3>1 DEF EmitSkip, Emitting
      <3>3. f \in Frame /\ ~f.running /\ f.at = Successor(Top.at)
        BY <1>1, <1>2, <3>1, <3>2, NextSlot DEF Call
      <3>4. QED
        BY <1>5, <1>8, <3>2, <3>3
    <2>2. CASE EmitInvoke
      <3>1. PICK f : f = [Top EXCEPT !.running = TRUE]
        OBVIOUS
      <3>2. ~Top.running /\ stack' = Continue(f)
        BY <2>2, <3>1 DEF EmitInvoke, Emitting
      <3>3. f \in Frame /\ f.running /\ f.at = Top.at
        BY <1>1, <3>1, EmissionFacts DEF Frame
      <3>4. QED
        BY <1>4, <1>5, <3>2, <3>3
    <2>3. CASE SlotReturns
      <3>1. PICK f : f = Call("emit", Successor(Top.at))
        OBVIOUS
      <3>2. Top.at # n /\ Top.running /\ stack' = Continue(f)
        BY <1>7, <2>3, <3>1 DEF SlotReturns
      <3>3. f \in Frame /\ ~f.running /\ f.at = Successor(Top.at)
        BY <1>1, <1>2, <3>1, <3>2, NextSlot DEF Call
      <3>4. QED
        BY <1>5, <1>8, <3>2, <3>3
    <2>4. CASE SlotThrows
      <3>1. PICK f : f = Call("emit", n)
        OBVIOUS
      <3>2. Top.at # n /\ Top.running /\ stack' = Continue(f)
        BY <1>2, <1>7, <2>4, <3>1 DEF SlotThrows
      <3>3. f \in Frame /\ ~f.running /\ f.at = n
        BY <1>3, <3>1, CallIsFrame DEF Holder, Node
      <3>4. QED
        BY <1>5, <1>6, <3>2, <3>3
    <2>5. QED
      BY <2>1, <2>2, <2>3, <2>4
  <1>10. PICK new : new = stack'
    OBVIOUS
  <1>11. /\ n \in Nat \ {0} /\ DOMAIN new = 1 .. n /\ new[n] = f
         /\ \A i \in 1 .. n - 1 : new[i] = stack[i]
    <2>1. new = Append(CallerOf(stack), f)
      BY <1>1, <1>9, <1>10, TopFacts DEF Continue, IInv
    <2>2. n = Len(stack)
      BY <1>2 DEF TopMark
    <2>3. /\ Len(stack) \in Nat \ {0} /\ DOMAIN new = 1 .. Len(stack)
          /\ new[Len(stack)] = f
          /\ \A i \in 1 .. Len(stack) - 1 : new[i] = stack[i]
      <3>1. stack \in Seq(Frame) /\ stack # <<>>
        BY <1>1
      <3>2. f \in Frame
        BY <1>9
      <3>3. QED
        BY <2>1, <3>1, <3>2, ContinueFacts
    <2>4. QED
      BY <2>2, <2>3
  <1>12. ASSUME NEW i \in Frames("emit") \cap Frames("emit")'
         PROVE  /\ Work(i)' <= Work(i)
                /\ stack'[i] # stack[i] => Work(i)' < Work(i)
    <2>1. i \in 1 .. n
      BY <1>10, <1>11, <1>12 DEF Frames
    <2>2. CASE i = n
      <3>1. stack[i] = Top /\ stack'[i] = f
        BY <1>2, <1>10, <1>11, <2>2 DEF Top, TopMark
      <3>2. PICK e : e = Distance(slots, f.at, n)
        OBVIOUS
      <3>3. Work(i) = 2 * d - (IF Top.running THEN 1 ELSE 0)
            /\ Work(i)' = 2 * e - (IF f.running THEN 1 ELSE 0)
        BY <1>1, <1>4, <2>2, <3>1, <3>2, WorkIs
      <3>4. e \in Nat
        <4>1. IInv' /\ Before(slots', stack'[i].at, i)
          BY <1>12, EmitFramesFactsNext DEF EmitsInv
        <4>2. QED
          BY <1>1, <1>3, <2>2, <3>1, <3>2, <4>1, DistanceIsNat
      <3>5. Work(i)' < Work(i)
        BY <1>9, <3>2, <3>3
      <3>6. QED
        BY <1>5, <3>3, <3>4, <3>5
    <2>3. CASE i # n
      <3>1. stack'[i] = stack[i]
        BY <1>10, <1>11, <2>1, <2>3
      <3>2. QED
        BY <1>1, <1>12, <3>1, WorkKept
    <2>4. QED
      BY <2>2, <2>3
  <1>13. QED
    BY <1>12 DEF Advance

LEMMA NextAdvance ==
    ASSUME IInv, JInv, IInv', [Next]_vars
    PROVE  Advance
  <1>1. CASE ImplDestroyed
    BY <1>1, ClearForgets, ForgetsAdvance
  <1>2. CASE UserOperation
    <2>1. ASSUME NEW s \in Slot, Connect(s) PROVE Advance
      BY <2>1, ConnectAdvance
    <2>2. ASSUME NEW s \in Slot, Disconnect(s) \/ Invalidate(s) PROVE Advance
      BY <2>2, UserForgets, ForgetsAdvance
    <2>3. CASE (\E s \in Slot : Block(s)) \/ BlockAll \/ CopyHandle \/ DropHandle
      <3>1. UNCHANGED <<slots, stack>>
        BY <2>3 DEF Block, BlockAll, CopyHandle, DropHandle
      <3>2. QED
        BY <3>1, StackKept
    <2>4. CASE Clear
      BY <2>4, ClearForgets, ForgetsAdvance
    <2>5. CASE Emit
      BY <2>5, EmitAdvance
    <2>6. QED
      BY <1>2, <2>1, <2>2, <2>3, <2>4, <2>5 DEF UserOperation
  <1>3. CASE UserReturns
    BY <1>3, TopAdvance, FunctorDoneForgets, ForgetsAdvance DEF UserReturns
  <1>4. CASE LibraryStep
    <2>1. CASE EmitSkip \/ EmitInvoke
      BY <2>1, TopAdvance
    <2>2. CASE EmitEnd
      BY <2>2, EmitEndAdvance
    <2>3. CASE NotifyResume \/ EraseDone \/ SweepEnd \/ ClearDone
      BY <2>3, NotifyResumeForgets, HolderDoneForgets, ForgetsAdvance
    <2>4. CASE SweepErase \/ SweepSkip \/ ClearStep
      BY <2>4, SweepForgets, ClearStepForgets, ForgetsAdvance
    <2>5. QED
      BY <1>4, <2>1, <2>2, <2>3, <2>4 DEF LibraryStep
  <1>5. CASE Finished \/ UNCHANGED vars
    <2>1. UNCHANGED <<slots, stack>>
      BY <1>5 DEF Finished, vars
    <2>2. QED
      BY <2>1, StackKept
  <1>6. QED
    BY <1>1, <1>2, <1>3, <1>4, <1>5 DEF Next

\* Whatever the functors of an emission do to the signal, the emission has
\* never more to do than before, and each step of its own leaves it less; so
\* none goes on without end by connecting slots. (signal.h:191-220, 350-366)
THEOREM EmissionsEnd == Spec => EmissionsAdvance
  <1>1. Spec => [](IInv /\ JInv)
    BY InductiveInvariant, LifeInvariant, PTL
  <1>2. (IInv /\ JInv) /\ (IInv /\ JInv)' /\ [Next]_vars
            => [\A i \in Frames("emit") \cap Frames("emit")' :
                   /\ Work(i)' <= Work(i)
                   /\ stack'[i] # stack[i] => Work(i)' < Work(i)]_vars
    BY NextAdvance DEF Advance
  <1>3. QED
    BY <1>1, <1>2, PTL DEF Spec, EmissionsAdvance

=============================================================================
