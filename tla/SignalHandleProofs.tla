-------------------------- MODULE SignalHandleProofs --------------------------
(***************************************************************************)
(* Proofs about module SignalHandle, for every number of signals, of       *)
(* signal_impls and of slots, and every depth of the stack.                *)
(*                                                                         *)
(* The invariants that the runs check are inductive together: a            *)
(* signal_impl lives as long as it is shared, and as its destructor is     *)
(* then on the stack just once, nobody else empties its list. What makes   *)
(* this true of every step is that a step takes its last share from at     *)
(* most one signal_impl.                                                   *)
(***************************************************************************)
EXTENDS SignalHandle, SequenceTheorems, TLAPS

\* The parts of the invariant, as predicates of the values they relate: im,
\* fn, lf, li and stk are values of impl_, functor, life, list and stack.
ImplLife(im, fn, lf, stk) ==
    \A i \in Impl :
        /\ Shared(i, im, fn) <=> lf[i] = "live"
        /\ lf[i] = "dying" <=> \E k \in DOMAIN stk : stk[k] = Fr("clear", i, Null)
        /\ \A k, l \in DOMAIN stk :
              stk[k] = Fr("clear", i, Null) /\ stk[l] = stk[k] => k = l

SlotLife(fn, lf, li) ==
    \A s \in Slot :
        /\ fn[s] # None => \E i \in Impl : s \in li[i]
        /\ \A i, j \in Impl : s \in li[i] \cap li[j] => i = j
        /\ \A i \in Impl : s \in li[i] => lf[i] # "none"

IInv ==
    /\ TypeOK
    /\ NoDanglingSignal
    /\ ImplLife(impl_, functor, life, stack)
    /\ SlotLife(functor, life, list)

-----------------------------------------------------------------------------
(***************************************************************************)
(* Frames, functors, and the stack.                                        *)
(***************************************************************************)
LEMMA FrameFacts ==
    /\ \A i \in Impl : Fr("clear", i, Null) \in Frame
    /\ Fr("functor", Null, Null) \in Frame
    /\ \A op \in {"assign", "take", "tell"}, h, g \in Handle : Fr(op, h, g) \in Frame
    /\ \A f \in Frame : f.op = "clear" => f.of \in Impl /\ f = Fr("clear", f.of, Null)
    /\ \A f \in Frame :
          f.op \in {"assign", "take", "tell"} => f.of \in Handle /\ f.with \in Handle
    /\ \A i : Fr("clear", i, Null).op = "clear" /\ Fr("clear", i, Null).of = i
  BY DEF Frame, Fr

LEMMA FunctorFacts ==
    /\ None \in Functor /\ None.op = "none"
    /\ Fn("plain", Null) \in Functor
    /\ \A h \in Handle : Fn("emits", h) \in Functor
    /\ \A i \in Impl : Fn("shares", i) \in Functor
    /\ \A op, x : Fn(op, x).op = op /\ Fn(op, x).of = x
    /\ \A f \in Functor : f = Fn(f.op, f.of)
  BY DEF Functor, Fn, None

LEMMA PushFacts ==
    ASSUME NEW stk \in Seq(Frame), NEW f \in Frame
    PROVE  /\ Append(stk, f) \in Seq(Frame)
           /\ Len(stk) \in Nat
           /\ DOMAIN stk = 1 .. Len(stk)
           /\ DOMAIN Append(stk, f) = 1 .. Len(stk) + 1
           /\ Append(stk, f)[Len(stk) + 1] = f
           /\ \A k \in 1 .. Len(stk) : Append(stk, f)[k] = stk[k]
  OBVIOUS

LEMMA TopFacts ==
    ASSUME TypeOK, stack # <<>>
    PROVE  /\ Caller \in Seq(Frame)
           /\ Len(stack) \in Nat \ {0}
           /\ DOMAIN stack = 1 .. Len(stack)
           /\ DOMAIN Caller = 1 .. Len(stack) - 1
           /\ \A k \in 1 .. Len(stack) - 1 : Caller[k] = stack[k]
           /\ Top = stack[Len(stack)]
           /\ Top \in Frame
  <1>1. stack \in Seq(Frame)
    BY DEF TypeOK
  <1>2. Len(stack) \in Nat \ {0} /\ DOMAIN stack = 1 .. Len(stack)
    BY <1>1, LenProperties, EmptySeq
  <1>3. \A k \in 1 .. Len(stack) : stack[k] \in Frame
    BY <1>1, ElementOfSeq
  <1>4. /\ Caller \in Seq(Frame)
        /\ Len(Caller) = Len(stack) - 1
        /\ \A k \in 1 .. Len(stack) - 1 : Caller[k] = stack[k]
    BY <1>2, <1>3, SubSeqProperties DEF Caller
  <1>5. DOMAIN Caller = 1 .. Len(stack) - 1
    BY <1>4, LenProperties
  <1>6. Top = stack[Len(stack)] /\ Top \in Frame
    BY <1>2, <1>3 DEF Top
  <1>7. QED
    BY <1>2, <1>4, <1>5, <1>6

\* What the stack says of the destructors in progress, when a frame that is
\* none of them is pushed.
LEMMA ImplLifePush ==
    ASSUME NEW im, NEW fn, NEW lf, NEW stk \in Seq(Frame), NEW f \in Frame,
           f.op # "clear", ImplLife(im, fn, lf, stk)
    PROVE  ImplLife(im, fn, lf, Append(stk, f))
  <1>1. PICK new : new = Append(stk, f)
    OBVIOUS
  <1>2. PICK n \in Nat : n = Len(stk)
    BY PushFacts
  <1>3. /\ DOMAIN stk = 1 .. n
        /\ DOMAIN new = 1 .. n + 1
        /\ new[n + 1] = f
        /\ \A k \in 1 .. n : new[k] = stk[k]
    BY <1>1, <1>2, PushFacts
  <1>4. \A i : f # Fr("clear", i, Null)
    BY FrameFacts
  <1>5. \A i, k : k \in DOMAIN new /\ new[k] = Fr("clear", i, Null)
                      <=> k \in DOMAIN stk /\ stk[k] = Fr("clear", i, Null)
    BY <1>3, <1>4
  <1>6. \A i : (\E k \in DOMAIN new : new[k] = Fr("clear", i, Null))
                   <=> (\E k \in DOMAIN stk : stk[k] = Fr("clear", i, Null))
    BY <1>5
  <1>7. ASSUME NEW i \in Impl, NEW k \in DOMAIN new, NEW l \in DOMAIN new,
               new[k] = Fr("clear", i, Null), new[l] = new[k]
        PROVE  k = l
    <2>1. /\ k \in DOMAIN stk /\ stk[k] = Fr("clear", i, Null)
          /\ l \in DOMAIN stk /\ stk[l] = Fr("clear", i, Null)
      BY <1>5, <1>7
    <2>2. QED
      BY <2>1 DEF ImplLife
  <1>8. ImplLife(im, fn, lf, new)
    BY <1>6, <1>7 DEF ImplLife
  <1>9. QED
    BY <1>1, <1>8

\* The same when such a frame returns.
LEMMA ImplLifePop ==
    ASSUME TypeOK, stack # <<>>, Top.op # "clear", NEW im, NEW fn, NEW lf,
           ImplLife(im, fn, lf, stack)
    PROVE  ImplLife(im, fn, lf, Caller)
  <1>1. PICK n : n = Len(stack)
    OBVIOUS
  <1>2. /\ n \in Nat \ {0}
        /\ DOMAIN stack = 1 .. n
        /\ DOMAIN Caller = 1 .. n - 1
        /\ \A k \in 1 .. n - 1 : Caller[k] = stack[k]
        /\ Top = stack[n]
    BY <1>1, TopFacts
  <1>3. \A i : Top # Fr("clear", i, Null)
    BY FrameFacts
  <1>4. \A i, k : k \in DOMAIN Caller /\ Caller[k] = Fr("clear", i, Null)
                      <=> k \in DOMAIN stack /\ stack[k] = Fr("clear", i, Null)
    BY <1>2, <1>3
  <1>5. \A i : (\E k \in DOMAIN Caller : Caller[k] = Fr("clear", i, Null))
                   <=> (\E k \in DOMAIN stack : stack[k] = Fr("clear", i, Null))
    BY <1>4
  <1>6. ASSUME NEW i \in Impl, NEW k \in DOMAIN Caller, NEW l \in DOMAIN Caller,
               Caller[k] = Fr("clear", i, Null), Caller[l] = Caller[k]
        PROVE  k = l
    <2>1. /\ k \in DOMAIN stack /\ stack[k] = Fr("clear", i, Null)
          /\ l \in DOMAIN stack /\ stack[l] = Fr("clear", i, Null)
      BY <1>4, <1>6
    <2>2. QED
      BY <2>1 DEF ImplLife
  <1>7. QED
    BY <1>5, <1>6 DEF ImplLife

-----------------------------------------------------------------------------
(***************************************************************************)
(* The end of a step.                                                      *)
(***************************************************************************)
\* Settle destroys what nothing shares any more. That is at most one
\* signal_impl, x, so that one destructor begins for each that is dying.
LEMMA SettleStep ==
    ASSUME TypeOK, NEW stk \in Seq(Frame),
           ImplLife(impl_, functor, life, stk),
           NEW new \in Impl \cup {Null}, new # Null => life[new] = "none",
           Settle(new, stk),
           \A i \in Impl : Shared(i, impl_', functor') =>
                Shared(i, impl_, functor) \/ i = new,
           new # Null => Shared(new, impl_', functor'),
           NEW x, \A i \in Impl : Shared(i, impl_, functor) =>
                Shared(i, impl_', functor') \/ i = x
    PROVE  /\ life' \in [Impl -> {"none", "live", "dying"}]
           /\ stack' \in Seq(Frame)
           /\ ImplLife(impl_', functor', life', stack')
           /\ \A i \in Impl : life[i] # "none" => life'[i] # "none"
           /\ new # Null => life'[new] = "live"
           /\ \A i \in Impl : life'[i] = "live" => life[i] = "live" \/ i = new
  <1> DEFINE gone == {i \in Impl : life[i] = "live" /\ ~Shared(i, impl_', functor')}
  <1>1. life' = [i \in Impl |-> IF i = new THEN "live"
                                ELSE IF i \in gone THEN "dying" ELSE life[i]]
    BY DEF Settle
  <1>2. \/ gone = {} /\ stack' = stk
        \/ \E i \in gone : stack' = Append(stk, Fr("clear", i, Null))
    BY DEF Settle
  <1>3. \A i \in gone : i \in Impl /\ i = x /\ life[i] = "live"
                        /\ ~Shared(i, impl_', functor')
    BY DEF ImplLife
  <1>4. new \notin gone
    BY <1>3, HandleAssumption
  <1>5. \A i \in Impl : life[i] \in {"none", "live", "dying"}
    BY DEF TypeOK
  <1>6. \A i \in Impl :
            /\ i = new => life'[i] = "live"
            /\ i \in gone => life'[i] = "dying"
            /\ i # new /\ i \notin gone => life'[i] = life[i]
    BY <1>1, <1>4
  <1>7. life' \in [Impl -> {"none", "live", "dying"}]
    BY <1>1, <1>5
  <1>8. \A i \in Impl : Shared(i, impl_', functor') <=> life'[i] = "live"
    <2>1. ASSUME NEW i \in Impl, i = new
          PROVE  Shared(i, impl_', functor') <=> life'[i] = "live"
      BY <1>6, <2>1, HandleAssumption
    <2>2. ASSUME NEW i \in Impl, i # new
          PROVE  Shared(i, impl_', functor') <=> life'[i] = "live"
      <3>1. Shared(i, impl_, functor) <=> life[i] = "live"
        BY DEF ImplLife
      <3>2. i \in gone <=> life[i] = "live" /\ ~Shared(i, impl_', functor')
        OBVIOUS
      <3>3. QED
        BY <1>6, <2>2, <3>1, <3>2
    <2>3. QED
      BY <2>1, <2>2
  <1> HIDE DEF gone
  <1>9. CASE gone = {}
    <2>1. stack' = stk /\ \A i \in Impl : life'[i] = "dying" <=> life[i] = "dying"
      <3>1. stack' = stk
        BY <1>2, <1>9
      <3>2. \A i \in Impl : i = new => life[i] = "none"
        BY HandleAssumption
      <3>3. QED
        BY <1>6, <1>9, <3>1, <3>2
    <2>2. ImplLife(impl_', functor', life', stack')
      BY <1>8, <2>1 DEF ImplLife
    <2>3. QED
      BY <1>6, <1>7, <1>9, <2>1, <2>2, HandleAssumption
  <1>10. CASE gone # {}
    <2>1. PICK c \in gone : stack' = Append(stk, Fr("clear", c, Null))
      BY <1>2, <1>10
    <2>2. c \in Impl /\ life[c] = "live" /\ c # new /\ gone = {c}
      BY <1>3, <1>4
    <2>3. PICK f \in Frame : f = Fr("clear", c, Null)
      BY <2>2, FrameFacts
    <2>4. \A i : f = Fr("clear", i, Null) <=> i = c
      BY <2>3, FrameFacts
    <2>5. PICK n \in Nat : n = Len(stk)
      BY PushFacts
    <2>6. /\ stack' \in Seq(Frame)
          /\ DOMAIN stk = 1 .. n
          /\ DOMAIN stack' = 1 .. n + 1
          /\ stack'[n + 1] = f
          /\ \A k \in 1 .. n : stack'[k] = stk[k]
      BY <2>1, <2>3, <2>5, PushFacts
    <2>7. \A k \in DOMAIN stk : stk[k] # Fr("clear", c, Null)
      BY <2>2 DEF ImplLife
    <2>8. ASSUME NEW i \in Impl
          PROVE  /\ life'[i] = "dying" <=>
                        \E k \in DOMAIN stack' : stack'[k] = Fr("clear", i, Null)
                 /\ \A k, l \in DOMAIN stack' :
                        stack'[k] = Fr("clear", i, Null) /\ stack'[l] = stack'[k]
                            => k = l
      <3>1. CASE i = c
        <4>1. life'[i] = "dying"
          BY <1>6, <3>1
        <4>2. \A k \in DOMAIN stack' : stack'[k] = Fr("clear", i, Null) <=> k = n + 1
          BY <2>3, <2>6, <2>7, <3>1
        <4>3. n + 1 \in DOMAIN stack'
          BY <2>6
        <4>4. QED
          BY <4>1, <4>2, <4>3
      <3>2. CASE i # c
        <4>1. \A k : k \in DOMAIN stack' /\ stack'[k] = Fr("clear", i, Null)
                        <=> k \in DOMAIN stk /\ stk[k] = Fr("clear", i, Null)
          BY <2>4, <2>6, <3>2
        <4>2. life'[i] = "dying" <=> life[i] = "dying"
          <5>1. i = new => life[i] = "none"
            BY HandleAssumption
          <5>2. i \notin gone
            BY <2>2, <3>2
          <5>3. QED
            BY <1>6, <5>1, <5>2
        <4>3. life[i] = "dying" <=>
                  \E k \in DOMAIN stk : stk[k] = Fr("clear", i, Null)
          BY DEF ImplLife
        <4>4. \A k, l \in DOMAIN stk :
                  stk[k] = Fr("clear", i, Null) /\ stk[l] = stk[k] => k = l
          BY DEF ImplLife
        <4>5. \A k, l \in DOMAIN stack' :
                  stack'[k] = Fr("clear", i, Null) /\ stack'[l] = stack'[k] => k = l
          BY <4>1, <4>4
        <4>6. QED
          BY <4>1, <4>2, <4>3, <4>5
      <3>3. QED
        BY <3>1, <3>2
    <2>9. ImplLife(impl_', functor', life', stack')
      BY <1>8, <2>8 DEF ImplLife
    <2>10. \A i \in Impl : /\ life[i] # "none" => life'[i] # "none"
                           /\ life'[i] = "live" => life[i] = "live" \/ i = new
      BY <1>6, <1>3
    <2>11. new # Null => life'[new] = "live"
      BY <1>6
    <2>12. QED
      BY <1>7, <2>6, <2>9, <2>10, <2>11
  <1>11. QED
    BY <1>9, <1>10

\* A step that only Settle keeps from leaving the lists as they are.
LEMMA SlotLifeMono ==
    ASSUME NEW fn, NEW li, NEW lf, NEW lf2, SlotLife(fn, lf, li),
           \A i \in Impl : lf[i] # "none" => lf2[i] # "none"
    PROVE  SlotLife(fn, lf2, li)
  BY DEF SlotLife

LEMMA ImplOfFacts ==
    ASSUME TypeOK, NEW h \in Handle, NEW i, NEW new, ImplOf(h, i, new)
    PROVE  /\ i \in Impl /\ new \in {i, Null}
           /\ new = Null => impl_[h] = i
           /\ new # Null => new = i /\ impl_[h] = Null /\ life[i] = "none"
           /\ impl_[h] \in {i, Null}
  BY HandleAssumption DEF ImplOf, TypeOK

\* Slots that emit a signal share no signal_impl, and run no user code.
LEMMA UntrackedFacts ==
    ASSUME TypeOK, NEW S \in SUBSET Slot, Untracked(S),
           \A s \in S : functor[s].op = "emits"
    PROVE  /\ functor' \in [Slot -> Functor]
           /\ list' \in [Impl -> SUBSET Slot]
           /\ \A s \in S : functor'[s] = None
           /\ \A s \in Slot \ S : functor'[s] = functor[s]
           /\ \A i, im : Shared(i, im, functor') <=> Shared(i, im, functor)
           /\ \A lf : SlotLife(functor, lf, list) => SlotLife(functor', lf, list')
           /\ \A i \in Impl : list'[i] \subseteq list[i]
           /\ \A i \in Impl : list[i] \ list'[i] \subseteq S
  <1>1. /\ functor \in [Slot -> Functor]
        /\ list \in [Impl -> SUBSET Slot]
    BY DEF TypeOK
  <1>2. /\ functor' = [s \in Slot |-> IF s \in S THEN None ELSE functor[s]]
        /\ list' = [i \in Impl |-> IF life[i] = "live" THEN list[i] \ S ELSE list[i]]
    BY DEF Untracked
  <1>3. /\ functor' \in [Slot -> Functor]
        /\ \A s \in S : functor'[s] = None
        /\ \A s \in Slot \ S : functor'[s] = functor[s]
    BY <1>1, <1>2, FunctorFacts
  <1>4. /\ list' \in [Impl -> SUBSET Slot]
        /\ \A i \in Impl : list'[i] = list[i] \/ list'[i] = list[i] \ S
    BY <1>1, <1>2
  <1>5. ASSUME NEW i, NEW s \in Slot
        PROVE  functor'[s] = Fn("shares", i) <=> functor[s] = Fn("shares", i)
    <2>1. CASE s \in S
      <3>1. functor'[s].op = "none" /\ functor[s].op = "emits"
        BY <1>3, <2>1, FunctorFacts
      <3>2. QED
        BY <3>1, FunctorFacts
    <2>2. CASE s \notin S
      BY <1>3, <2>2
    <2>3. QED
      BY <2>1, <2>2
  <1>6. \A i, im : Shared(i, im, functor') <=> Shared(i, im, functor)
    BY <1>5 DEF Shared
  <1>7. ASSUME NEW lf, SlotLife(functor, lf, list)
        PROVE  SlotLife(functor', lf, list')
    <2>1. ASSUME NEW s \in Slot, functor'[s] # None
          PROVE  \E i \in Impl : s \in list'[i]
      <3>1. s \notin S /\ functor[s] # None
        BY <1>3, <2>1
      <3>2. PICK i \in Impl : s \in list[i]
        BY <1>7, <3>1 DEF SlotLife
      <3>3. QED
        BY <1>4, <3>1, <3>2
    <2>2. \A i \in Impl : list'[i] \subseteq list[i]
      BY <1>4
    <2>3. QED
      BY <1>7, <2>1, <2>2 DEF SlotLife
  <1>8. QED
    BY <1>3, <1>4, <1>6, <1>7

LEMMA EmittersFacts ==
    ASSUME TypeOK, NEW h \in Handle
    PROVE  /\ EmittersOf(h) \in SUBSET Slot
           /\ \A s \in EmittersOf(h) : functor[s].op = "emits"
           /\ \A s \in EmittersOf(h) : h \in Trackable /\ functor[s] = Fn("emits", h)
           /\ h \in Trackable =>
                 \A s \in Slot \ EmittersOf(h) : functor[s] # Fn("emits", h)
  BY FunctorFacts DEF EmittersOf

-----------------------------------------------------------------------------
(***************************************************************************)
(* What user code does.                                                    *)
(***************************************************************************)
LEMMA NewSignalStep ==
    ASSUME IInv, NEW h \in Handle, NewSignal(h)
    PROVE  IInv'
  <1>1. alive' = alive \cup {h} /\ UNCHANGED <<impl_, life, list, functor, stack>>
    BY DEF NewSignal
  <1>2. TypeOK' /\ NoDanglingSignal'
    BY <1>1 DEF IInv, TypeOK, NoDanglingSignal
  <1>3. QED
    BY <1>1, <1>2 DEF IInv

\* impl_ of src and h becomes the signal_impl i of src.
LEMMA ShareStep ==
    ASSUME IInv, NEW h \in Handle, NEW src \in alive, NEW i, NEW new,
           ImplOf(src, i, new),
           impl_' = [impl_ EXCEPT ![src] = i, ![h] = i],
           NEW stk \in Seq(Frame), ImplLife(impl_, functor, life, stk),
           UNCHANGED <<list, functor>>, alive' = alive \cup {h},
           Settle(new, stk)
    PROVE  IInv'
  <1>1. /\ i \in Impl /\ new \in Impl \cup {Null}
        /\ new # Null => new = i /\ impl_[src] = Null /\ life[new] = "none"
        /\ new = Null => impl_[src] = i
        /\ src \in Handle
    BY ImplOfFacts DEF IInv, TypeOK
  <1>2. /\ impl_ \in [Handle -> Impl \cup {Null}]
        /\ impl_' \in [Handle -> Impl \cup {Null}]
        /\ impl_'[src] = i /\ impl_'[h] = i
        /\ \A g \in Handle \ {h, src} : impl_'[g] = impl_[g]
    BY <1>1 DEF IInv, TypeOK
  <1>3. \A j \in Impl : Shared(j, impl_', functor') =>
            Shared(j, impl_, functor) \/ j = new
    BY <1>1, <1>2 DEF Shared
  <1>4. new # Null => Shared(new, impl_', functor')
    BY <1>1, <1>2 DEF Shared
  <1>5. \A j \in Impl : Shared(j, impl_, functor) =>
            Shared(j, impl_', functor') \/ j = impl_[h]
    <2>1. ASSUME NEW j \in Impl, NEW g \in Handle, impl_[g] = j
          PROVE  Shared(j, impl_', functor') \/ j = impl_[h]
      <3>1. impl_[src] \in {i, Null}
        BY <1>1
      <3>2. g # h => impl_'[g] = j
        BY <1>2, <2>1, <3>1, HandleAssumption
      <3>3. QED
        BY <2>1, <3>2 DEF Shared
    <2>2. QED
      BY <2>1 DEF Shared
  <1>6. TypeOK
    BY DEF IInv
  <1>7. /\ life' \in [Impl -> {"none", "live", "dying"}]
        /\ stack' \in Seq(Frame)
        /\ ImplLife(impl_', functor', life', stack')
        /\ \A j \in Impl : life[j] # "none" => life'[j] # "none"
    BY <1>1, <1>3, <1>4, <1>5, <1>6, SettleStep
  <1>8. TypeOK'
    BY <1>2, <1>7 DEF IInv, TypeOK
  <1>9. NoDanglingSignal'
    BY DEF IInv, NoDanglingSignal
  <1>10. SlotLife(functor', life', list')
    BY <1>7, SlotLifeMono DEF IInv
  <1>11. QED
    BY <1>7, <1>8, <1>9, <1>10 DEF IInv

LEMMA CopySignalStep ==
    ASSUME IInv, NEW h \in Handle, NEW src \in Handle, NEW i, NEW new,
           CopySignal(h, src, i, new)
    PROVE  IInv'
  BY ShareStep DEF CopySignal, IInv, TypeOK

LEMMA AssignStep ==
    ASSUME IInv, NEW h \in Handle, NEW src \in Handle, NEW i, NEW new,
           Assign(h, src, i, new)
    PROVE  IInv'
  <1>1. PICK f \in Frame : f = Fr("assign", h, src)
    BY FrameFacts
  <1>2. PICK stk : stk = Append(stack, f)
    OBVIOUS
  <1>3. f.op # "clear"
    BY <1>1 DEF Fr
  <1>4. stack \in Seq(Frame) /\ TypeOK
    BY DEF IInv, TypeOK
  <1>5. stk \in Seq(Frame) /\ ImplLife(impl_, functor, life, stk)
    BY <1>2, <1>3, <1>4, PushFacts, ImplLifePush DEF IInv
  <1>6. /\ {h, src} \subseteq alive
        /\ UNCHANGED <<alive, list, functor>>
        /\ Settle(new, stk)
        /\ impl_[src] = impl_[h] => new = Null /\ UNCHANGED impl_
        /\ impl_[src] # impl_[h] =>
              /\ ImplOf(src, i, new)
              /\ impl_' = [impl_ EXCEPT ![src] = i, ![h] = i]
    BY <1>1, <1>2 DEF Assign
  <1>7. CASE impl_[src] # impl_[h]
    <2>1. alive' = alive \cup {h}
      BY <1>6
    <2>2. QED
      BY <1>5, <1>6, <1>7, <2>1, ShareStep
  <1>8. CASE impl_[src] = impl_[h]
    <2>1. Null \notin Impl /\ new = Null
      BY <1>6, <1>8, HandleAssumption
    <2>2. \A j \in Impl : Shared(j, impl_', functor') <=> Shared(j, impl_, functor)
      BY <1>6, <1>8
    <2>3. /\ life' \in [Impl -> {"none", "live", "dying"}]
          /\ stack' \in Seq(Frame)
          /\ ImplLife(impl_', functor', life', stack')
          /\ \A j \in Impl : life[j] # "none" => life'[j] # "none"
      BY <1>4, <1>5, <1>6, <2>1, <2>2, SettleStep
    <2>4. TypeOK' /\ NoDanglingSignal'
      BY <1>6, <1>8, <2>3 DEF IInv, TypeOK, NoDanglingSignal
    <2>5. SlotLife(functor', life', list')
      BY <1>6, <2>3, SlotLifeMono DEF IInv
    <2>6. QED
      BY <2>3, <2>4, <2>5 DEF IInv
  <1>9. QED
    BY <1>7, <1>8

LEMMA MoveAssignStep ==
    ASSUME IInv, NEW h \in Handle, NEW src \in Handle, MoveAssign(h, src)
    PROVE  IInv'
  <1>1. PICK f \in Frame : f = Fr("take", h, src)
    BY FrameFacts
  <1>2. PICK stk : stk = Append(stack, f)
    OBVIOUS
  <1>3. f.op # "clear"
    BY <1>1 DEF Fr
  <1>4. stack \in Seq(Frame) /\ TypeOK
    BY DEF IInv, TypeOK
  <1>5. stk \in Seq(Frame) /\ ImplLife(impl_, functor, life, stk)
    BY <1>2, <1>3, <1>4, PushFacts, ImplLifePush DEF IInv
  <1>6. /\ {h, src} \subseteq alive
        /\ impl_' = [impl_ EXCEPT ![h] = impl_[src]]
        /\ UNCHANGED <<alive, list, functor>>
        /\ Settle(Null, stk)
    BY <1>1, <1>2 DEF MoveAssign
  <1>7. /\ impl_ \in [Handle -> Impl \cup {Null}]
        /\ impl_' \in [Handle -> Impl \cup {Null}]
        /\ impl_'[h] = impl_[src]
        /\ \A g \in Handle \ {h} : impl_'[g] = impl_[g]
    BY <1>6 DEF IInv, TypeOK
  <1>8. \A j \in Impl : Shared(j, impl_', functor') => Shared(j, impl_, functor)
    BY <1>6, <1>7 DEF Shared
  <1>9. \A j \in Impl : Shared(j, impl_, functor) =>
            Shared(j, impl_', functor') \/ j = impl_[h]
    BY <1>6, <1>7 DEF Shared
  <1>10. /\ life' \in [Impl -> {"none", "live", "dying"}]
         /\ stack' \in Seq(Frame)
         /\ ImplLife(impl_', functor', life', stack')
         /\ \A j \in Impl : life[j] # "none" => life'[j] # "none"
    BY <1>4, <1>5, <1>6, <1>8, <1>9, SettleStep
  <1>11. TypeOK' /\ NoDanglingSignal'
    BY <1>6, <1>7, <1>10 DEF IInv, TypeOK, NoDanglingSignal
  <1>12. SlotLife(functor', life', list')
    BY <1>6, <1>10, SlotLifeMono DEF IInv
  <1>13. QED
    BY <1>10, <1>11, <1>12 DEF IInv

\* A signal that is moved from or destroyed tells the slots that emit it.
LEMMA MoveSignalStep ==
    ASSUME IInv, NEW h \in Handle, NEW src \in Handle, MoveSignal(h, src)
    PROVE  IInv'
  <1>1. /\ h \notin alive /\ src \in alive
        /\ alive' = alive \cup {h}
        /\ impl_' = [impl_ EXCEPT ![src] = Null, ![h] = impl_[src]]
        /\ Untracked(EmittersOf(src))
        /\ Settle(Null, stack)
    BY DEF MoveSignal
  <1>2. TypeOK /\ stack \in Seq(Frame)
    BY DEF IInv, TypeOK
  <1>3. /\ functor' \in [Slot -> Functor]
        /\ list' \in [Impl -> SUBSET Slot]
        /\ \A s \in Slot : functor'[s] = functor[s] \/ functor'[s] = None
        /\ \A i, im : Shared(i, im, functor') <=> Shared(i, im, functor)
        /\ \A lf : SlotLife(functor, lf, list) => SlotLife(functor', lf, list')
    BY <1>1, <1>2, EmittersFacts, UntrackedFacts
  <1>4. /\ impl_' \in [Handle -> Impl \cup {Null}]
        /\ impl_[h] = Null
        /\ impl_'[h] = impl_[src] /\ impl_'[src] = Null
        /\ \A g \in Handle \ {h, src} : impl_'[g] = impl_[g]
    BY <1>1 DEF IInv, TypeOK
  <1>5. \A j \in Impl : Shared(j, impl_', functor) <=> Shared(j, impl_, functor)
    BY <1>4, HandleAssumption DEF Shared
  <1>6. \A j \in Impl : Shared(j, impl_', functor') <=> Shared(j, impl_, functor)
    BY <1>3, <1>5
  <1>7. ImplLife(impl_, functor, life, stack)
    BY DEF IInv
  <1>8. /\ life' \in [Impl -> {"none", "live", "dying"}]
        /\ stack' \in Seq(Frame)
        /\ ImplLife(impl_', functor', life', stack')
        /\ \A j \in Impl : life[j] # "none" => life'[j] # "none"
    BY <1>1, <1>2, <1>6, <1>7, SettleStep
  <1>9. TypeOK'
    BY <1>1, <1>3, <1>4, <1>8 DEF IInv, TypeOK
  <1>10. NoDanglingSignal'
    <2>1. ~(None \in [op : {"emits"}, of : Trackable])
      BY FunctorFacts
    <2>2. QED
      BY <1>1, <1>3, <2>1 DEF IInv, NoDanglingSignal
  <1>11. SlotLife(functor', life', list')
    BY <1>3, <1>8, SlotLifeMono DEF IInv
  <1>12. QED
    BY <1>8, <1>9, <1>10, <1>11 DEF IInv

LEMMA DestroyStep ==
    ASSUME IInv, NEW h \in Handle, Destroy(h)
    PROVE  IInv'
  <1>1. /\ h \in alive
        /\ alive' = alive \ {h}
        /\ impl_' = [impl_ EXCEPT ![h] = Null]
        /\ Untracked(EmittersOf(h))
        /\ Settle(Null, stack)
    BY DEF Destroy
  <1>2. TypeOK /\ stack \in Seq(Frame)
    BY DEF IInv, TypeOK
  <1>3. /\ functor' \in [Slot -> Functor]
        /\ list' \in [Impl -> SUBSET Slot]
        /\ \A s \in EmittersOf(h) : functor'[s] = None
        /\ \A s \in Slot \ EmittersOf(h) : functor'[s] = functor[s]
        /\ \A i, im : Shared(i, im, functor') <=> Shared(i, im, functor)
        /\ \A lf : SlotLife(functor, lf, list) => SlotLife(functor', lf, list')
    BY <1>1, <1>2, EmittersFacts, UntrackedFacts
  <1>4. /\ impl_' \in [Handle -> Impl \cup {Null}]
        /\ impl_'[h] = Null
        /\ \A g \in Handle \ {h} : impl_'[g] = impl_[g]
    BY <1>1 DEF IInv, TypeOK
  <1>5. \A j \in Impl : /\ Shared(j, impl_', functor') => Shared(j, impl_, functor)
                        /\ Shared(j, impl_, functor) =>
                              Shared(j, impl_', functor') \/ j = impl_[h]
    <2>1. \A j \in Impl : /\ Shared(j, impl_', functor) => Shared(j, impl_, functor)
                          /\ Shared(j, impl_, functor) =>
                                Shared(j, impl_', functor) \/ j = impl_[h]
      BY <1>4, HandleAssumption DEF Shared
    <2>2. QED
      BY <1>3, <2>1
  <1>6. ImplLife(impl_, functor, life, stack)
    BY DEF IInv
  <1>7. /\ life' \in [Impl -> {"none", "live", "dying"}]
        /\ stack' \in Seq(Frame)
        /\ ImplLife(impl_', functor', life', stack')
        /\ \A j \in Impl : life[j] # "none" => life'[j] # "none"
    BY <1>1, <1>2, <1>5, <1>6, SettleStep
  <1>8. TypeOK'
    BY <1>1, <1>3, <1>4, <1>7 DEF IInv, TypeOK
  <1>9. NoDanglingSignal'
    <2>1. SUFFICES ASSUME NEW s \in Slot,
                          functor'[s] \in [op : {"emits"}, of : Trackable]
                   PROVE  functor'[s].of \in alive'
      BY DEF NoDanglingSignal
    <2>2. functor'[s] = functor[s] /\ s \notin EmittersOf(h)
      BY <1>3, <2>1, FunctorFacts
    <2>3. functor[s].of \in alive
      BY <2>1, <2>2 DEF IInv, NoDanglingSignal
    <2>4. functor[s].of # h
      <3>1. functor[s] = Fn("emits", functor[s].of) /\ functor[s].of \in Trackable
        BY <2>1, <2>2 DEF Fn
      <3>2. QED
        BY <1>2, <2>2, <3>1, EmittersFacts
    <2>5. QED
      BY <1>1, <2>2, <2>3, <2>4
  <1>10. SlotLife(functor', life', list')
    BY <1>3, <1>7, SlotLifeMono DEF IInv
  <1>11. QED
    BY <1>7, <1>8, <1>9, <1>10 DEF IInv

\* A slot s is added to the list of i, with the functor f.
LEMMA AddedStep ==
    ASSUME IInv, NEW s \in Slot, NEW i \in Impl, NEW f \in Functor,
           functor[s] = None, \A j \in Impl : s \notin list[j],
           list' = [list EXCEPT ![i] = list[i] \cup {s}],
           functor' = [functor EXCEPT ![s] = f],
           life'[i] # "none",
           \A j \in Impl : life[j] # "none" => life'[j] # "none"
    PROVE  /\ functor' \in [Slot -> Functor]
           /\ list' \in [Impl -> SUBSET Slot]
           /\ SlotLife(functor', life', list')
  <1>1. /\ functor' \in [Slot -> Functor]
        /\ list' \in [Impl -> SUBSET Slot]
        /\ functor'[s] = f
        /\ \A t \in Slot \ {s} : functor'[t] = functor[t]
        /\ list'[i] = list[i] \cup {s}
        /\ \A j \in Impl \ {i} : list'[j] = list[j]
    BY DEF IInv, TypeOK
  <1>2. ASSUME NEW t \in Slot
        PROVE  /\ functor'[t] # None => \E j \in Impl : t \in list'[j]
               /\ \A j, k \in Impl : t \in list'[j] \cap list'[k] => j = k
               /\ \A j \in Impl : t \in list'[j] => life'[j] # "none"
    <2>1. CASE t = s
      <3>1. \A j \in Impl : t \in list'[j] <=> j = i
        BY <1>1, <2>1
      <3>2. QED
        BY <3>1
    <2>2. CASE t # s
      <3>1. functor'[t] = functor[t] /\ \A j \in Impl : t \in list'[j] <=> t \in list[j]
        BY <1>1, <2>2
      <3>2. /\ functor[t] # None => \E j \in Impl : t \in list[j]
            /\ \A j, k \in Impl : t \in list[j] \cap list[k] => j = k
            /\ \A j \in Impl : t \in list[j] => life[j] # "none"
        BY DEF IInv, SlotLife
      <3>3. \A j, k \in Impl : t \in list'[j] \cap list'[k] => j = k
        BY <3>1, <3>2
      <3>4. \A j \in Impl : t \in list'[j] => life'[j] # "none"
        BY <3>1, <3>2
      <3>5. QED
        BY <3>1, <3>2, <3>3, <3>4
    <2>3. QED
      BY <2>1, <2>2
  <1>3. QED
    BY <1>1, <1>2 DEF SlotLife

LEMMA ConnectStep ==
    ASSUME IInv, NEW h \in Handle, NEW s \in Slot, NEW i, NEW new,
           NEW f \in {Fn("plain", Null)} \cup {Fn("emits", g) : g \in Handle},
           Connect(h, s, f, i, new)
    PROVE  IInv'
  <1>1. /\ h \in alive
        /\ functor[s] = None /\ \A j \in Impl : s \notin list[j]
        /\ f.op = "emits" => f.of \in alive
        /\ ImplOf(h, i, new)
        /\ impl_' = [impl_ EXCEPT ![h] = i]
        /\ list' = [list EXCEPT ![i] = list[i] \cup {s}]
        /\ functor' = [functor EXCEPT ![s] = f]
        /\ alive' = alive
        /\ Settle(new, stack)
    BY DEF Connect
  <1>2. TypeOK /\ stack \in Seq(Frame)
    BY DEF IInv, TypeOK
  <1>3. /\ i \in Impl /\ new \in Impl \cup {Null}
        /\ new # Null => new = i /\ impl_[h] = Null /\ life[i] = "none"
        /\ new = Null => impl_[h] = i
    BY <1>1, <1>2, ImplOfFacts
  <1>4. f \in Functor /\ f.op # "shares" /\ f # None
    BY FunctorFacts
  <1>5. /\ impl_' \in [Handle -> Impl \cup {Null}]
        /\ impl_'[h] = i
        /\ \A g \in Handle \ {h} : impl_'[g] = impl_[g]
        /\ impl_[h] \in {i, Null}
    BY <1>1, <1>2, <1>3 DEF TypeOK
  <1>6. /\ functor \in [Slot -> Functor]
        /\ functor'[s] = f
        /\ \A t \in Slot \ {s} : functor'[t] = functor[t]
    BY <1>1, <1>2 DEF TypeOK
  <1>7. ASSUME NEW j, NEW t \in Slot
        PROVE  functor'[t] = Fn("shares", j) <=> functor[t] = Fn("shares", j)
    <2>1. CASE t = s
      BY <1>1, <1>4, <1>6, <2>1, FunctorFacts
    <2>2. CASE t # s
      BY <1>6, <2>2
    <2>3. QED
      BY <2>1, <2>2
  <1>8. \A j \in Impl : Shared(j, impl_', functor') => Shared(j, impl_, functor) \/ j = new
    <2>1. \A j \in Impl, g \in Handle : impl_'[g] = j => impl_[g] = j \/ j = new
      BY <1>3, <1>5
    <2>2. QED
      BY <1>7, <2>1 DEF Shared
  <1>9. \A j \in Impl : Shared(j, impl_, functor) => Shared(j, impl_', functor')
    <2>1. \A j \in Impl, g \in Handle : impl_[g] = j => impl_'[g] = j
      BY <1>5, HandleAssumption
    <2>2. QED
      BY <1>7, <2>1 DEF Shared
  <1>10. Shared(i, impl_', functor')
    BY <1>5 DEF Shared
  <1>11. ImplLife(impl_, functor, life, stack)
    BY DEF IInv
  <1>12. /\ life' \in [Impl -> {"none", "live", "dying"}]
         /\ stack' \in Seq(Frame)
         /\ ImplLife(impl_', functor', life', stack')
         /\ \A j \in Impl : life[j] # "none" => life'[j] # "none"
    <2>1. new # Null => life[new] = "none" /\ Shared(new, impl_', functor')
      BY <1>3, <1>10
    <2>2. QED
      BY <1>1, <1>2, <1>3, <1>8, <1>9, <1>11, <2>1, SettleStep
  <1>13. life'[i] # "none"
    BY <1>3, <1>10, <1>12 DEF ImplLife
  <1>14. /\ functor' \in [Slot -> Functor]
         /\ list' \in [Impl -> SUBSET Slot]
         /\ SlotLife(functor', life', list')
    BY <1>1, <1>3, <1>4, <1>12, <1>13, AddedStep
  <1>15. TypeOK'
    BY <1>1, <1>5, <1>12, <1>14, <1>2 DEF TypeOK
  <1>16. NoDanglingSignal'
    <2>1. SUFFICES ASSUME NEW t \in Slot,
                          functor'[t] \in [op : {"emits"}, of : Trackable]
                   PROVE  functor'[t].of \in alive
      BY <1>1 DEF NoDanglingSignal
    <2>2. CASE t = s
      BY <1>1, <1>6, <2>1, <2>2
    <2>3. CASE t # s
      BY <1>6, <2>1, <2>3 DEF IInv, NoDanglingSignal
    <2>4. QED
      BY <2>2, <2>3
  <1>17. QED
    BY <1>12, <1>14, <1>15, <1>16 DEF IInv

LEMMA ConnectCopyStep ==
    ASSUME IInv, NEW h \in Handle, NEW s \in Slot, NEW g \in Handle,
           ConnectCopy(h, s, g)
    PROVE  IInv'
  <1>1. /\ impl_[g] # Null /\ impl_[h] # Null
        /\ functor[s] = None /\ \A j \in Impl : s \notin list[j]
        /\ list' = [list EXCEPT ![impl_[h]] = list[impl_[h]] \cup {s}]
        /\ functor' = [functor EXCEPT ![s] = Fn("shares", impl_[g])]
        /\ UNCHANGED <<alive, impl_>>
        /\ Settle(Null, stack)
    BY DEF ConnectCopy
  <1>2. TypeOK /\ stack \in Seq(Frame)
    BY DEF IInv, TypeOK
  <1>3. PICK i \in Impl, x \in Impl : i = impl_[h] /\ x = impl_[g]
    BY <1>1, <1>2 DEF TypeOK
  <1>4. PICK f \in Functor : f = Fn("shares", x)
    BY FunctorFacts
  <1>5. /\ functor \in [Slot -> Functor]
        /\ functor'[s] = f
        /\ \A t \in Slot \ {s} : functor'[t] = functor[t]
    BY <1>1, <1>2, <1>3, <1>4 DEF TypeOK
  <1>6. \A j : f = Fn("shares", j) => j = x
    BY <1>4, FunctorFacts
  <1>7. Shared(x, impl_, functor) /\ Shared(i, impl_, functor)
    BY <1>3 DEF Shared
  <1>8. \A j \in Impl : Shared(j, impl_', functor') => Shared(j, impl_, functor)
    <2>1. \A j \in Impl, t \in Slot :
              functor'[t] = Fn("shares", j) => functor[t] = Fn("shares", j) \/ j = x
      BY <1>5, <1>6
    <2>2. QED
      BY <1>1, <1>7, <2>1 DEF Shared
  <1>9. \A j \in Impl : Shared(j, impl_, functor) => Shared(j, impl_', functor')
    <2>1. \A j : None # Fn("shares", j)
      BY FunctorFacts
    <2>2. \A j \in Impl, t \in Slot :
              functor[t] = Fn("shares", j) => functor'[t] = Fn("shares", j)
      BY <1>1, <1>5, <2>1
    <2>3. QED
      BY <1>1, <2>2 DEF Shared
  <1>10. ImplLife(impl_, functor, life, stack)
    BY DEF IInv
  <1>11. /\ life' \in [Impl -> {"none", "live", "dying"}]
         /\ stack' \in Seq(Frame)
         /\ ImplLife(impl_', functor', life', stack')
         /\ \A j \in Impl : life[j] # "none" => life'[j] # "none"
    BY <1>1, <1>2, <1>8, <1>9, <1>10, SettleStep
  <1>12. life'[i] # "none"
    <2>1. life[i] = "live"
      BY <1>7, <1>10 DEF ImplLife
    <2>2. QED
      BY <1>11, <2>1
  <1>13. /\ functor' \in [Slot -> Functor]
         /\ list' \in [Impl -> SUBSET Slot]
         /\ SlotLife(functor', life', list')
    BY <1>1, <1>3, <1>4, <1>11, <1>12, AddedStep
  <1>14. TypeOK'
    BY <1>1, <1>2, <1>11, <1>13 DEF TypeOK
  <1>15. NoDanglingSignal'
    <2>1. f.op = "shares"
      BY <1>4, FunctorFacts
    <2>2. QED
      BY <1>1, <1>5, <2>1 DEF IInv, NoDanglingSignal
  <1>16. QED
    BY <1>11, <1>13, <1>14, <1>15 DEF IInv

\* The slot s leaves the list of i, and its functor is destroyed: the only
\* signal_impl that it may have been the last to share is the one it is of.
LEMMA DroppedStep ==
    ASSUME IInv, NEW i \in Impl, NEW s \in Slot, s \in list[i],
           list' = [list EXCEPT ![i] = list[i] \ {s}],
           UNCHANGED <<alive, impl_>>, Dropped(s, stack)
    PROVE  IInv'
  <1>1. PICK fr \in Frame : fr = Fr("functor", Null, Null)
    BY FrameFacts
  <1>2. TypeOK /\ stack \in Seq(Frame) /\ ImplLife(impl_, functor, life, stack)
    BY DEF IInv, TypeOK
  <1>3. PICK stk : stk = IF functor[s] = Fn("plain", Null)
                         THEN Append(stack, fr) ELSE stack
    OBVIOUS
  <1>4. /\ functor' = [functor EXCEPT ![s] = None]
        /\ Settle(Null, stk)
    BY <1>1, <1>3 DEF Dropped
  <1>5. stk \in Seq(Frame) /\ ImplLife(impl_, functor, life, stk)
    <2>1. fr.op # "clear"
      BY <1>1 DEF Fr
    <2>2. QED
      BY <1>2, <1>3, <2>1, PushFacts, ImplLifePush
  <1>6. /\ functor' \in [Slot -> Functor]
        /\ functor'[s] = None
        /\ \A t \in Slot \ {s} : functor'[t] = functor[t]
    BY <1>2, <1>4, FunctorFacts DEF TypeOK
  <1>7. \A j \in Impl : Shared(j, impl_', functor') => Shared(j, impl_, functor)
    <2>1. \A j : None # Fn("shares", j)
      BY FunctorFacts
    <2>2. \A j \in Impl, t \in Slot :
              functor'[t] = Fn("shares", j) => functor[t] = Fn("shares", j)
      BY <1>6, <2>1
    <2>3. QED
      BY <2>2 DEF Shared
  <1>8. \A j \in Impl : Shared(j, impl_, functor) =>
            Shared(j, impl_', functor') \/ j = functor[s].of
    <2>1. \A j \in Impl, t \in Slot : functor[t] = Fn("shares", j) =>
              functor'[t] = Fn("shares", j) \/ j = functor[s].of
      BY <1>6, FunctorFacts
    <2>2. QED
      BY <2>1 DEF Shared
  <1>9. /\ life' \in [Impl -> {"none", "live", "dying"}]
        /\ stack' \in Seq(Frame)
        /\ ImplLife(impl_', functor', life', stack')
        /\ \A j \in Impl : life[j] # "none" => life'[j] # "none"
    BY <1>2, <1>4, <1>5, <1>7, <1>8, SettleStep
  <1>10. /\ list' \in [Impl -> SUBSET Slot]
         /\ list'[i] = list[i] \ {s}
         /\ \A j \in Impl \ {i} : list'[j] = list[j]
    BY <1>2 DEF TypeOK
  <1>11. TypeOK'
    BY <1>2, <1>6, <1>9, <1>10 DEF TypeOK
  <1>12. NoDanglingSignal'
    <2>1. None \notin [op : {"emits"}, of : Trackable]
      BY FunctorFacts
    <2>2. QED
      BY <1>6, <2>1 DEF IInv, NoDanglingSignal
  <1>13. SlotLife(functor', life', list')
    <2>1. \A j \in Impl : list'[j] \subseteq list[j]
      BY <1>10
    <2>2. ASSUME NEW t \in Slot, functor'[t] # None
          PROVE  \E j \in Impl : t \in list'[j]
      <3>1. t # s /\ functor[t] # None
        BY <1>6, <2>2
      <3>2. PICK j \in Impl : t \in list[j]
        BY <3>1 DEF IInv, SlotLife
      <3>3. QED
        BY <1>10, <3>1, <3>2
    <2>3. QED
      BY <1>9, <2>1, <2>2 DEF IInv, SlotLife
  <1>14. QED
    BY <1>9, <1>11, <1>12, <1>13 DEF IInv

LEMMA DisconnectStep ==
    ASSUME IInv, NEW i \in Impl, NEW s \in Slot, Disconnect(i, s)
    PROVE  IInv'
  BY DroppedStep DEF Disconnect

LEMMA ClearSlotStep ==
    ASSUME IInv, NEW s \in Slot, ClearSlot(s)
    PROVE  IInv'
  <1>1. Top.of \in Impl
    BY TopFacts, FrameFacts DEF ClearSlot, TopIs, IInv
  <1>2. QED
    BY <1>1, DroppedStep DEF ClearSlot

-----------------------------------------------------------------------------
(***************************************************************************)
(* The functions go on.                                                    *)
(***************************************************************************)
LEMMA ReturnsStep ==
    ASSUME IInv, Returns
    PROVE  IInv'
  <1>1. /\ stack # <<>> /\ Top.op # "clear"
        /\ stack' = Caller
        /\ UNCHANGED <<alive, impl_, life, list, functor>>
    BY DEF Returns, TopIs
  <1>2. TypeOK /\ ImplLife(impl_, functor, life, stack)
    BY DEF IInv
  <1>3. stack' \in Seq(Frame) /\ ImplLife(impl_, functor, life, stack')
    BY <1>1, <1>2, TopFacts, ImplLifePop
  <1>4. TypeOK' /\ NoDanglingSignal'
    BY <1>1, <1>3 DEF IInv, TypeOK, NoDanglingSignal
  <1>5. QED
    BY <1>1, <1>3, <1>4 DEF IInv

\* The one frame of the destructor of a signal_impl returns.
LEMMA ClearedStep ==
    ASSUME IInv, Cleared
    PROVE  IInv'
  <1>1. /\ stack # <<>> /\ Top.op = "clear"
        /\ list[Top.of] = {}
        /\ life' = [life EXCEPT ![Top.of] = "none"]
        /\ stack' = Caller
        /\ UNCHANGED <<alive, impl_, list, functor>>
    BY DEF Cleared, TopIs
  <1>2. TypeOK /\ ImplLife(impl_, functor, life, stack)
    BY DEF IInv
  <1>3. PICK n : n = Len(stack)
    OBVIOUS
  <1>4. /\ n \in Nat \ {0}
        /\ stack' \in Seq(Frame)
        /\ DOMAIN stack = 1 .. n
        /\ DOMAIN stack' = 1 .. n - 1
        /\ \A k \in 1 .. n - 1 : stack'[k] = stack[k]
        /\ Top = stack[n] /\ Top \in Frame
    BY <1>1, <1>2, <1>3, TopFacts
  <1>5. PICK c \in Impl : c = Top.of /\ stack[n] = Fr("clear", c, Null)
    BY <1>1, <1>4, FrameFacts
  <1>6. /\ life' \in [Impl -> {"none", "live", "dying"}]
        /\ life'[c] = "none"
        /\ \A i \in Impl \ {c} : life'[i] = life[i]
    BY <1>1, <1>2, <1>5 DEF TypeOK
  <1>7. life[c] = "dying" /\ \A k \in 1 .. n - 1 : stack[k] # Fr("clear", c, Null)
    <2>1. n \in DOMAIN stack /\ \A k \in 1 .. n - 1 : k \in DOMAIN stack /\ k # n
      BY <1>4
    <2>2. /\ life[c] = "dying" <=> \E k \in DOMAIN stack : stack[k] = Fr("clear", c, Null)
          /\ \A k, l \in DOMAIN stack :
                stack[k] = Fr("clear", c, Null) /\ stack[l] = stack[k] => k = l
      BY <1>2 DEF ImplLife
    <2>3. QED
      BY <1>5, <2>1, <2>2
  <1>8. ASSUME NEW i \in Impl
        PROVE  /\ Shared(i, impl_, functor) <=> life'[i] = "live"
               /\ life'[i] = "dying" <=>
                     \E k \in DOMAIN stack' : stack'[k] = Fr("clear", i, Null)
               /\ \A k, l \in DOMAIN stack' :
                     stack'[k] = Fr("clear", i, Null) /\ stack'[l] = stack'[k] => k = l
    <2>1. /\ Shared(i, impl_, functor) <=> life[i] = "live"
          /\ life[i] = "dying" <=> \E k \in DOMAIN stack : stack[k] = Fr("clear", i, Null)
          /\ \A k, l \in DOMAIN stack :
                stack[k] = Fr("clear", i, Null) /\ stack[l] = stack[k] => k = l
      BY <1>2 DEF ImplLife
    <2>2. \A k, l \in DOMAIN stack' :
              stack'[k] = Fr("clear", i, Null) /\ stack'[l] = stack'[k] => k = l
      BY <1>4, <2>1
    <2>3. CASE i = c
      <3>1. \A k \in DOMAIN stack' : stack'[k] # Fr("clear", i, Null)
        BY <1>4, <1>7, <2>3
      <3>2. Shared(i, impl_, functor) <=> life'[i] = "live"
        BY <1>6, <1>7, <2>1, <2>3
      <3>3. QED
        BY <1>6, <2>2, <2>3, <3>1, <3>2
    <2>4. CASE i # c
      <3>1. \A k : k \in DOMAIN stack' /\ stack'[k] = Fr("clear", i, Null)
                      <=> k \in DOMAIN stack /\ stack[k] = Fr("clear", i, Null)
        <4>1. stack[n] # Fr("clear", i, Null)
          BY <1>5, <2>4, FrameFacts
        <4>2. QED
          BY <1>4, <4>1
      <3>2. QED
        BY <1>6, <2>1, <2>2, <2>4, <3>1
    <2>5. QED
      BY <2>3, <2>4
  <1>9. ImplLife(impl_, functor, life', stack')
    BY <1>8 DEF ImplLife
  <1>10. TypeOK' /\ NoDanglingSignal'
    BY <1>1, <1>4, <1>6 DEF IInv, TypeOK, NoDanglingSignal
  <1>11. SlotLife(functor, life', list)
    BY <1>1, <1>5, <1>6 DEF IInv, SlotLife
  <1>12. QED
    BY <1>1, <1>9, <1>10, <1>11 DEF IInv

LEMMA TakenStep ==
    ASSUME IInv, Taken
    PROVE  IInv'
  <1>1. /\ stack # <<>> /\ Top.op = "take"
        /\ impl_' = [impl_ EXCEPT ![Top.with] = Null]
        /\ UNCHANGED <<alive, list, functor>>
        /\ Settle(Null, Append(Caller, Fr("tell", Top.of, Top.with)))
    BY DEF Taken, TopIs
  <1>2. TypeOK /\ ImplLife(impl_, functor, life, stack)
    BY DEF IInv
  <1>3. Caller \in Seq(Frame) /\ Top.of \in Handle /\ Top.with \in Handle
    BY <1>1, <1>2, TopFacts, FrameFacts
  <1>4. PICK f \in Frame : f = Fr("tell", Top.of, Top.with)
    BY <1>3, FrameFacts
  <1>5. PICK stk : stk = Append(Caller, f)
    OBVIOUS
  <1>6. stk \in Seq(Frame) /\ ImplLife(impl_, functor, life, stk)
    <2>1. f.op # "clear"
      BY <1>4 DEF Fr
    <2>2. ImplLife(impl_, functor, life, Caller)
      BY <1>1, <1>2, ImplLifePop
    <2>3. QED
      BY <1>3, <1>5, <2>1, <2>2, PushFacts, ImplLifePush
  <1>7. /\ impl_' \in [Handle -> Impl \cup {Null}]
        /\ impl_'[Top.with] = Null
        /\ \A g \in Handle \ {Top.with} : impl_'[g] = impl_[g]
    BY <1>1, <1>2, <1>3 DEF TypeOK
  <1>8. \A j \in Impl : Shared(j, impl_', functor') => Shared(j, impl_, functor)
    BY <1>1, <1>7, HandleAssumption DEF Shared
  <1>9. \A j \in Impl : Shared(j, impl_, functor) =>
            Shared(j, impl_', functor') \/ j = impl_[Top.with]
    BY <1>1, <1>7 DEF Shared
  <1>10. Settle(Null, stk)
    BY <1>1, <1>4, <1>5
  <1>11. /\ life' \in [Impl -> {"none", "live", "dying"}]
         /\ stack' \in Seq(Frame)
         /\ ImplLife(impl_', functor', life', stack')
         /\ \A j \in Impl : life[j] # "none" => life'[j] # "none"
    BY <1>2, <1>6, <1>8, <1>9, <1>10, SettleStep
  <1>12. \A h \in Handle \ alive : impl_'[h] = Null
    BY <1>2, <1>7 DEF TypeOK
  <1>13. TypeOK' /\ NoDanglingSignal'
    BY <1>1, <1>7, <1>11, <1>12 DEF IInv, TypeOK, NoDanglingSignal
  <1>14. SlotLife(functor', life', list')
    BY <1>1, <1>11, SlotLifeMono DEF IInv
  <1>15. QED
    BY <1>11, <1>13, <1>14 DEF IInv

LEMMA ToldStep ==
    ASSUME IInv, Told
    PROVE  IInv'
  <1>1. PICK S : S = IF impl_[Top.with] # impl_[Top.of]
                     THEN EmittersOf(Top.with) ELSE {}
    OBVIOUS
  <1>2. /\ stack # <<>> /\ Top.op = "tell"
        /\ Untracked(S)
        /\ stack' = Caller
        /\ UNCHANGED <<alive, impl_, life>>
    BY <1>1 DEF Told, TopIs
  <1>3. TypeOK /\ ImplLife(impl_, functor, life, stack)
    BY DEF IInv
  <1>4. Top.with \in Handle
    BY <1>2, <1>3, TopFacts, FrameFacts
  <1>5. S \in SUBSET Slot /\ \A s \in S : functor[s].op = "emits"
    BY <1>1, <1>3, <1>4, EmittersFacts
  <1>6. /\ functor' \in [Slot -> Functor]
        /\ list' \in [Impl -> SUBSET Slot]
        /\ \A s \in Slot : functor'[s] = functor[s] \/ functor'[s] = None
        /\ \A i, im : Shared(i, im, functor') <=> Shared(i, im, functor)
        /\ \A lf : SlotLife(functor, lf, list) => SlotLife(functor', lf, list')
    BY <1>2, <1>3, <1>5, UntrackedFacts
  <1>7. stack' \in Seq(Frame) /\ ImplLife(impl_, functor, life, stack')
    <2>1. Top.op # "clear"
      BY <1>2
    <2>2. QED
      BY <1>2, <1>3, <2>1, TopFacts, ImplLifePop
  <1>8. ImplLife(impl_, functor', life, stack')
    BY <1>6, <1>7 DEF ImplLife
  <1>9. TypeOK'
    BY <1>2, <1>3, <1>6, <1>7 DEF TypeOK
  <1>10. NoDanglingSignal'
    <2>1. None \notin [op : {"emits"}, of : Trackable]
      BY FunctorFacts
    <2>2. QED
      BY <1>2, <1>6, <2>1 DEF IInv, NoDanglingSignal
  <1>11. SlotLife(functor', life, list')
    BY <1>6 DEF IInv
  <1>12. QED
    BY <1>2, <1>8, <1>9, <1>10, <1>11 DEF IInv

-----------------------------------------------------------------------------
(***************************************************************************)
(* The invariant.                                                          *)
(***************************************************************************)
LEMMA InitIInv == Init => IInv
  <1>1. SUFFICES ASSUME Init PROVE IInv
    OBVIOUS
  <1>2. TypeOK
    BY <1>1, FunctorFacts, EmptySeq DEF Init, TypeOK
  <1>3. NoDanglingSignal
    BY <1>1, FunctorFacts DEF Init, NoDanglingSignal
  <1>4. \A i \in Impl : ~Shared(i, impl_, functor)
    <2>1. \A i : None # Fn("shares", i)
      BY FunctorFacts
    <2>2. QED
      BY <1>1, <2>1, HandleAssumption DEF Init, Shared
  <1>5. DOMAIN stack = {}
    BY <1>1 DEF Init
  <1>6. ImplLife(impl_, functor, life, stack)
    BY <1>1, <1>4, <1>5 DEF Init, ImplLife
  <1>7. SlotLife(functor, life, list)
    BY <1>1 DEF Init, SlotLife
  <1>8. QED
    BY <1>2, <1>3, <1>6, <1>7 DEF IInv

LEMMA UserStep ==
    ASSUME IInv, UserOperation
    PROVE  IInv'
  <1>1. CASE \E h \in Handle : NewSignal(h) \/ Destroy(h)
    BY <1>1, NewSignalStep, DestroyStep
  <1>2. CASE \E h, src \in Handle : MoveSignal(h, src) \/ MoveAssign(h, src)
    BY <1>2, MoveSignalStep, MoveAssignStep
  <1>3. CASE \E h, src \in Handle, i, new \in Impl \cup {Null} :
                CopySignal(h, src, i, new) \/ Assign(h, src, i, new)
    BY <1>3, CopySignalStep, AssignStep
  <1>4. CASE \E h \in Handle, s \in Slot, i \in Impl, new \in Impl \cup {Null} :
                \E f \in {Fn("plain", Null)} \cup {Fn("emits", g) : g \in Handle} :
                   Connect(h, s, f, i, new)
    BY <1>4, ConnectStep
  <1>5. CASE \E h, g \in Handle, s \in Slot : ConnectCopy(h, s, g)
    BY <1>5, ConnectCopyStep
  <1>6. CASE \E i \in Impl, s \in Slot : Disconnect(i, s)
    BY <1>6, DisconnectStep
  <1>7. QED
    BY <1>1, <1>2, <1>3, <1>4, <1>5, <1>6 DEF UserOperation

LEMMA NextIInv == IInv /\ [Next]_vars => IInv'
  <1>1. SUFFICES ASSUME IInv, [Next]_vars PROVE IInv'
    OBVIOUS
  <1>2. CASE UNCHANGED vars
    <2>1. UNCHANGED <<alive, impl_, life, list, functor, stack>>
      BY <1>2 DEF vars
    <2>2. TypeOK' /\ NoDanglingSignal'
      BY <1>1, <2>1 DEF IInv, TypeOK, NoDanglingSignal
    <2>3. QED
      BY <1>1, <2>1, <2>2 DEF IInv
  <1>3. CASE UserOperation
    BY <1>1, <1>3, UserStep
  <1>4. CASE Returns
    BY <1>1, <1>4, ReturnsStep
  <1>5. CASE Cleared
    BY <1>1, <1>5, ClearedStep
  <1>6. CASE Taken
    BY <1>1, <1>6, TakenStep
  <1>7. CASE Told
    BY <1>1, <1>7, ToldStep
  <1>8. CASE \E s \in Slot : ClearSlot(s)
    BY <1>1, <1>8, ClearSlotStep
  <1>9. QED
    BY <1>1, <1>2, <1>3, <1>4, <1>5, <1>6, <1>7, <1>8 DEF Next

\* The invariants are inductive together, for every number of signals,
\* signal_impls and slots, and every depth of the stack.
THEOREM HandleInvariant == Spec => []IInv
  BY InitIInv, NextIInv, PTL DEF Spec

\* Every variable keeps its type, and a signal object that does not exist
\* holds no signal_impl.
THEOREM HandleTypes == Spec => []TypeOK
  <1>1. IInv => TypeOK
    BY DEF IInv
  <1>2. QED
    BY <1>1, HandleInvariant, PTL

\* A signal_impl is alive just as long as a signal object or a slot shares it
\* (std::shared_ptr<internal::signal_impl> impl_), and its destructor runs
\* once, even if the functors that it destroys use other signals.
THEOREM ImplLivesWhileShared == Spec => []ImplLifetime
  <1>1. IInv => ImplLifetime
    BY DEF IInv, ImplLife, ImplLifetime
  <1>2. QED
    BY <1>1, HandleInvariant, PTL

\* No slot made by make_slot() of a trackable_signal emits a signal object
\* that is destroyed (signal.h:495-505): ~trackable empties it before.
THEOREM SignalsDoNotDangle == Spec => []NoDanglingSignal
  <1>1. IInv => NoDanglingSignal
    BY DEF IInv
  <1>2. QED
    BY <1>1, HandleInvariant, PTL

\* A slot that has its functor is in exactly one list, of a signal_impl that
\* still exists: nothing that was connected is forgotten, and the functors of
\* a signal go with its signal_impl.
THEOREM SlotsAreOwned == Spec => []NoLostSlot
  <1>1. IInv => NoLostSlot
    BY DEF IInv, SlotLife, NoLostSlot
  <1>2. QED
    BY <1>1, HandleInvariant, PTL

-----------------------------------------------------------------------------
(***************************************************************************)
(* Who takes a slot out of a list.                                         *)
(***************************************************************************)
\* That a step takes s from the list of i, and why it may.
Kept(i, s) ==
    \/ Disconnect(i, s)
    \/ \E g \in Trackable :
          /\ functor[s] = Fn("emits", g)
          /\ \/ Destroy(g)
             \/ \E h \in Handle : MoveSignal(h, g)
             \/ TopIs("tell") /\ Top.with = g

LEMMA UntrackedLoses ==
    ASSUME TypeOK, NEW h \in Handle, NEW S \in SUBSET EmittersOf(h), Untracked(S),
           NEW i \in Impl, NEW s \in list[i] \ list'[i]
    PROVE  h \in Trackable /\ functor[s] = Fn("emits", h)
  <1>1. S \in SUBSET Slot /\ \A t \in S : functor[t].op = "emits"
    BY EmittersFacts
  <1>2. s \in S
    BY <1>1, UntrackedFacts
  <1>3. QED
    BY <1>2, EmittersFacts

LEMMA UserKeeps ==
    ASSUME IInv, UserOperation, NEW i \in Impl, NEW s \in list[i] \ list'[i]
    PROVE  Kept(i, s)
  <1>1. TypeOK /\ list \in [Impl -> SUBSET Slot]
    BY DEF IInv, TypeOK
  <1>2. list' # list
    OBVIOUS
  <1>3. CASE \E h \in Handle : NewSignal(h) \/ Destroy(h)
    <2>1. PICK h \in Handle : Destroy(h)
      BY <1>2, <1>3 DEF NewSignal
    <2>2. Untracked(EmittersOf(h))
      BY <2>1 DEF Destroy
    <2>3. h \in Trackable /\ functor[s] = Fn("emits", h)
      BY <1>1, <2>2, UntrackedLoses
    <2>4. QED
      BY <2>1, <2>3 DEF Kept
  <1>4. CASE \E h, src \in Handle : MoveSignal(h, src) \/ MoveAssign(h, src)
    <2>1. PICK h \in Handle, src \in Handle : MoveSignal(h, src)
      BY <1>2, <1>4 DEF MoveAssign
    <2>2. Untracked(EmittersOf(src))
      BY <2>1 DEF MoveSignal
    <2>3. src \in Trackable /\ functor[s] = Fn("emits", src)
      BY <1>1, <2>2, UntrackedLoses
    <2>4. QED
      BY <2>1, <2>3 DEF Kept
  <1>5. CASE \E h, src \in Handle, j, new \in Impl \cup {Null} :
                CopySignal(h, src, j, new) \/ Assign(h, src, j, new)
    BY <1>2, <1>5 DEF CopySignal, Assign
  <1>6. CASE \E h \in Handle, t \in Slot, j \in Impl, new \in Impl \cup {Null} :
                \E f \in {Fn("plain", Null)} \cup {Fn("emits", g) : g \in Handle} :
                   Connect(h, t, f, j, new)
    <2>1. PICK j \in Impl, t \in Slot : list' = [list EXCEPT ![j] = list[j] \cup {t}]
      BY <1>6 DEF Connect
    <2>2. list[i] \subseteq list'[i]
      BY <1>1, <2>1
    <2>3. QED
      BY <2>2
  <1>7. CASE \E h, g \in Handle, t \in Slot : ConnectCopy(h, t, g)
    <2>1. PICK h \in Handle, t \in Slot :
              list' = [list EXCEPT ![impl_[h]] = list[impl_[h]] \cup {t}]
      BY <1>7 DEF ConnectCopy
    <2>2. list[i] \subseteq list'[i]
      BY <1>1, <2>1
    <2>3. QED
      BY <2>2
  <1>8. CASE \E j \in Impl, t \in Slot : Disconnect(j, t)
    <2>1. PICK j \in Impl, t \in Slot : Disconnect(j, t)
      BY <1>8
    <2>2. list' = [list EXCEPT ![j] = list[j] \ {t}]
      BY <2>1 DEF Disconnect
    <2>3. j = i /\ t = s
      BY <1>1, <2>2
    <2>4. QED
      BY <2>1, <2>3 DEF Kept
  <1>9. QED
    BY <1>3, <1>4, <1>5, <1>6, <1>7, <1>8 DEF UserOperation

\* The destructor of a signal_impl, too, takes slots from a list, but not from
\* one that is alive.
LEMMA ClearKeeps ==
    ASSUME IInv, NEW t \in Slot, ClearSlot(t),
           NEW i \in Impl, life[i] = "live"
    PROVE  list'[i] = list[i]
  <1>1. /\ stack # <<>> /\ Top.op = "clear"
        /\ list' = [list EXCEPT ![Top.of] = list[Top.of] \ {t}]
    BY DEF ClearSlot, TopIs
  <1>2. TypeOK /\ list \in [Impl -> SUBSET Slot]
    BY DEF IInv, TypeOK
  <1>3. PICK n \in DOMAIN stack : Top = stack[n] /\ Top \in Frame
    <2>1. Len(stack) \in DOMAIN stack
      BY <1>1, <1>2, TopFacts
    <2>2. QED
      BY <1>1, <1>2, <2>1, TopFacts
  <1>4. PICK c \in Impl : c = Top.of /\ stack[n] = Fr("clear", c, Null)
    BY <1>1, <1>3, FrameFacts
  <1>5. life[c] = "dying"
    BY <1>4 DEF IInv, ImplLife
  <1>6. QED
    BY <1>1, <1>2, <1>4, <1>5

LEMMA NextKeeps ==
    ASSUME IInv, Next, NEW i \in Impl, life[i] = "live",
           NEW s \in list[i] \ list'[i]
    PROVE  Kept(i, s)
  <1>1. list'[i] # list[i]
    OBVIOUS
  <1>2. CASE UserOperation
    BY <1>2, UserKeeps
  <1>3. CASE Returns \/ Cleared \/ Taken
    BY <1>1, <1>3 DEF Returns, Cleared, Taken
  <1>4. CASE Told
    <2>1. TypeOK /\ stack # <<>> /\ Top.op = "tell" /\ TopIs("tell")
      BY <1>4 DEF IInv, Told, TopIs
    <2>2. Top.with \in Handle
      BY <2>1, TopFacts, FrameFacts
    <2>3. PICK S \in SUBSET EmittersOf(Top.with) : Untracked(S)
      BY <1>4 DEF Told
    <2>4. Top.with \in Trackable /\ functor[s] = Fn("emits", Top.with)
      BY <2>1, <2>2, <2>3, UntrackedLoses
    <2>5. QED
      BY <2>1, <2>4 DEF Kept
  <1>5. CASE \E t \in Slot : ClearSlot(t)
    BY <1>1, <1>5, ClearKeeps
  <1>6. QED
    BY <1>2, <1>3, <1>4, <1>5 DEF Next

\* The slots of a signal stay connected (signal.h:380-383) until somebody
\* disconnects them, or the trackable_signal that they emit is destroyed or
\* moved from: no assignment, copy or end of another signal takes them.
THEOREM SlotsStayConnected == Spec => SlotsStay
  <1>1. IInv /\ [Next]_vars =>
            [\A i \in Impl : life[i] = "live" /\ life'[i] = "live" =>
                \A s \in list[i] \ list'[i] :
                   \/ Disconnect(i, s)
                   \/ \E g \in Trackable :
                         /\ functor[s] = Fn("emits", g)
                         /\ \/ Destroy(g)
                            \/ \E h \in Handle : MoveSignal(h, g)
                            \/ TopIs("tell") /\ Top.with = g]_vars
    BY NextKeeps DEF Kept
  <1>2. QED
    BY <1>1, HandleInvariant, PTL DEF Spec, SlotsStay

=============================================================================
