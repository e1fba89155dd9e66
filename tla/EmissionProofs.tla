---------------------------- MODULE EmissionProofs ----------------------------
(***************************************************************************)
(* What is proved of emissions that return something, for any number of    *)
(* slots and of iterators: the types, that an iterator executes a slot at  *)
(* most once, whose result it returns, and what emit() without an          *)
(* accumulator executes and returns.                                       *)
(***************************************************************************)
EXTENDS Emission, TLAPS

(***************************************************************************)
(* The inductive invariant. An iterator that is invoked has the result of  *)
(* the slot it stands on, and was executed there once. emit() has passed   *)
(* each slot in front of it, and its local variable has the result of the  *)
(* last one that it executed.                                              *)
(***************************************************************************)
BufferInv ==
    \A b \in Iter :
       /\ iter[b].invoked =>
             running # b /\ iter[b].i \in Slot /\ iter[b].r = Result(iter[b].i)
       /\ executed[b] = IF iter[b].invoked THEN 1 ELSE 0

LastResult ==
    IF ran = {} THEN r_ = IF Void THEN Nothing ELSE Default
    ELSE \E s \in ran : r_ = Result(s) /\ \A t \in ran : t <= s

EmitInv ==
    mode = Emit =>
       /\ running \in {Emit, None}
       /\ running = None => \A s \in ran : s < it
       /\ running = Emit => it \in ran /\ \A s \in ran : s <= it
       /\ \A s \in Slot : s < it => s \in ran \cup away
       /\ running = None => LastResult

IInv ==
    /\ TypeOK
    /\ gone \cup blocked \subseteq away
    /\ BufferInv
    /\ CallableGivesItsResult
    /\ EmitInv

-----------------------------------------------------------------------------
LEMMA Constants ==
    /\ N \in Nat \ {0} /\ Void \in BOOLEAN
    /\ Emit # None /\ Emit # "accumulate" /\ None # "accumulate"
    /\ Emit \notin Iter /\ None \notin Iter
    /\ Slot = 1 .. N /\ End = N + 1 /\ Slot \subseteq 0 .. End
    /\ 0 \in 0 .. End /\ 1 \in 0 .. End /\ End \in 0 .. End
    /\ 1 \in 1 .. End /\ End \in 1 .. End /\ Slot \subseteq 1 .. End
    /\ 0 \notin Slot /\ End \notin Slot
    /\ \A s \in Slot : Result(s) \in Slot \cup {Nothing} /\ Result(s) \in -2 .. N
  BY EmissionAssumption DEF Emit, None, Slot, End, Result, Nothing

BufferType == [i : 0 .. End, r : Slot \cup {Uninitialised, Nothing}, invoked : BOOLEAN]

LEMMA BufferTyped ==
    ASSUME NEW i \in 0 .. End, NEW r \in Slot \cup {Uninitialised, Nothing}
    PROVE  Buffer(i, r, FALSE) \in BufferType /\ Buffer(i, r, TRUE) \in BufferType
  BY DEF Buffer, BufferType

LEMMA BufferFieldsTyped ==
    ASSUME NEW x \in BufferType
    PROVE  /\ x.i \in 0 .. End
           /\ x.r \in Slot \cup {Uninitialised, Nothing}
           /\ x.invoked \in BOOLEAN
  BY DEF BufferType

LEMMA NoIteratorFields ==
    /\ NoIterator \in BufferType
    /\ NoIterator.invoked = FALSE
    /\ NoIterator.i = 0
  <1>1. 0 \in 0 .. End /\ Uninitialised \in Slot \cup {Uninitialised, Nothing}
    BY Constants
  <1>2. NoIterator \in BufferType
    BY <1>1, BufferTyped DEF NoIterator
  <1>3. QED
    BY <1>2 DEF NoIterator, Buffer

LEMMA InitHolds == Init => IInv
  <1> SUFFICES ASSUME Init PROVE IInv
    OBVIOUS
  <1> USE Constants
  <1>2. TypeOK
    BY NoIteratorFields DEF Init, TypeOK, BufferType, Default, Nothing
  <1>3. BufferInv
    BY NoIteratorFields DEF Init, BufferInv
  <1>4. QED
    BY <1>2, <1>3 DEF Init, IInv, CallableGivesItsResult, EmitInv

(***************************************************************************)
(* The steps of an accumulator.                                            *)
(***************************************************************************)
LEMMA AccumulateKeeps ==
    ASSUME IInv, NEW first \in Iter, NEW last \in Iter, NEW used \in BOOLEAN,
           Accumulate(first, last, used)
    PROVE  IInv'
  <1> USE Constants
  <1>1. /\ mode' = "accumulate" /\ mode = None /\ running' = running
        /\ gone' \subseteq Slot /\ blocked' \subseteq Slot /\ away' = gone' \cup blocked'
        /\ ran' = {} /\ it' = End /\ r_' = Default
        /\ returned' = [at |-> 0, value |-> Nothing]
        /\ executed' = [b \in Iter |-> 0]
    BY DEF Accumulate, Begin
  <1>2. running = None
    BY <1>1 DEF IInv, TypeOK, EmitInv
  <1>3. /\ iter' \in [Iter -> BufferType]
        /\ \A b \in Iter : iter'[b].invoked = FALSE
    <2>1. iter' = [b \in Iter |->
             IF ~used \/ b \notin {first, last} THEN NoIterator
             ELSE Buffer(IF b = first THEN 1 ELSE End, Uninitialised, FALSE)]
      BY DEF Accumulate
    <2>2. /\ Buffer(1, Uninitialised, FALSE) \in BufferType
          /\ Buffer(1, Uninitialised, FALSE).invoked = FALSE
          /\ Buffer(End, Uninitialised, FALSE) \in BufferType
          /\ Buffer(End, Uninitialised, FALSE).invoked = FALSE
      <3>1. /\ 1 \in 0 .. End /\ End \in 0 .. End
            /\ Uninitialised \in Slot \cup {Uninitialised, Nothing}
        OBVIOUS
      <3>2. /\ Buffer(1, Uninitialised, FALSE) \in BufferType
            /\ Buffer(End, Uninitialised, FALSE) \in BufferType
        BY <3>1, BufferTyped
      <3>3. QED
        BY <3>2 DEF Buffer
    <2>3. QED
      BY <2>1, <2>2, NoIteratorFields
  <1>4. TypeOK'
    BY <1>1, <1>2, <1>3 DEF TypeOK, BufferType, Default, Nothing
  <1>5. BufferInv'
    BY <1>1, <1>2, <1>3 DEF BufferInv
  <1>6. QED
    BY <1>1, <1>4, <1>5 DEF IInv, CallableGivesItsResult, EmitInv

LEMMA MoveKeeps ==
    ASSUME IInv, NEW b \in Iter, NEW to \in 1 .. End, Move(b, to)
    PROVE  IInv'
  <1> USE Constants
  <1>1. /\ mode = "accumulate" /\ running = None /\ UNCHANGED <<mode, gone, blocked>>
        /\ UNCHANGED <<running, it, r_, returned, ran, away>>
        /\ executed' = [executed EXCEPT ![b] = 0]
        /\ iter' = [iter EXCEPT ![b] = Buffer(to, iter[b].r, FALSE)]
    BY DEF Move, Uses
  <1>2. iter \in [Iter -> BufferType] /\ executed \in [Iter -> Nat]
    BY DEF IInv, TypeOK, BufferType
  <1>3. /\ Buffer(to, iter[b].r, FALSE) \in BufferType
        /\ Buffer(to, iter[b].r, FALSE).invoked = FALSE
    <2>1. iter[b].r \in Slot \cup {Uninitialised, Nothing} /\ to \in 0 .. End
      BY <1>2, BufferFieldsTyped
    <2>2. QED
      BY <2>1, BufferTyped DEF Buffer
  <1>4. iter' \in [Iter -> BufferType] /\ executed' \in [Iter -> Nat]
    BY <1>1, <1>2, <1>3
  <1>5. TypeOK'
    BY <1>1, <1>4 DEF IInv, TypeOK, BufferType
  <1>6. BufferInv'
    BY <1>1, <1>2, <1>3 DEF IInv, BufferInv
  <1>7. QED
    BY <1>1, <1>5, <1>6 DEF IInv, CallableGivesItsResult, EmitInv

LEMMA MovePostfixKeeps ==
    ASSUME IInv, NEW b \in Iter, NEW tmp \in Iter, NEW to \in 1 .. End,
           MovePostfix(b, tmp, to)
    PROVE  IInv'
  <1> USE Constants
  <1>1. /\ mode = "accumulate" /\ running = None /\ UNCHANGED <<mode, gone, blocked>>
        /\ UNCHANGED <<running, it, r_, returned, ran, away>> /\ tmp # b
        /\ executed' = [executed EXCEPT ![b] = 0, ![tmp] = executed[b]]
        /\ iter' = [iter EXCEPT ![b] = Buffer(to, iter[b].r, FALSE), ![tmp] = iter[b]]
    BY DEF MovePostfix, Uses
  <1>2. iter \in [Iter -> BufferType] /\ executed \in [Iter -> Nat]
    BY DEF IInv, TypeOK, BufferType
  <1>3. /\ Buffer(to, iter[b].r, FALSE) \in BufferType
        /\ Buffer(to, iter[b].r, FALSE).invoked = FALSE
    <2>1. iter[b].r \in Slot \cup {Uninitialised, Nothing} /\ to \in 0 .. End
      BY <1>2, BufferFieldsTyped
    <2>2. QED
      BY <2>1, BufferTyped DEF Buffer
  <1>4. iter' \in [Iter -> BufferType] /\ executed' \in [Iter -> Nat]
    BY <1>1, <1>2, <1>3
  <1>5. TypeOK'
    BY <1>1, <1>4 DEF IInv, TypeOK, BufferType
  <1>6. BufferInv'
    BY <1>1, <1>2, <1>3 DEF IInv, BufferInv
  <1>7. QED
    BY <1>1, <1>5, <1>6 DEF IInv, CallableGivesItsResult, EmitInv

\* An iterator that is invoked stands on a slot and has its result; one that
\* is not returns whatever it has, but only if its slot is not callable.
LEMMA DereferenceKeeps ==
    ASSUME IInv, NEW b \in Iter, Dereference(b)
    PROVE  IInv'
  <1> USE Constants
  <1>1. /\ mode = "accumulate" /\ running = None /\ iter[b].i # 0 /\ iter[b].i # End
        /\ UNCHANGED <<mode, gone, blocked, iter, it, r_, ran, away>>
    BY DEF Dereference, Uses
  <1>2. iter \in [Iter -> BufferType] /\ executed \in [Iter -> Nat]
    BY DEF IInv, TypeOK, BufferType
  <1>3. iter[b].i \in Slot /\ iter[b].r \in Slot \cup {Uninitialised, Nothing}
    BY <1>1, <1>2, BufferFieldsTyped
  <1>4. CASE Callable(iter[b].i) /\ ~iter[b].invoked
    <2>1. running' = b /\ UNCHANGED <<returned, executed>>
      BY <1>4 DEF Dereference
    <2>2. TypeOK'
      <3>1. mode' = "accumulate" /\ running' \in Iter /\ iter'[running'].i \in Slot
        BY <1>1, <1>3, <2>1
      <3>2. running' # Emit /\ running' \in Iter \cup {Emit, None}
        BY <3>1
      <3>3. TypeOK
        BY DEF IInv
      <3>4. QED
        BY <1>1, <2>1, <3>1, <3>2, <3>3, SMTT(30) DEF TypeOK
    <2>3. BufferInv'
      BY <1>1, <1>4, <2>1 DEF IInv, BufferInv
    <2>4. QED
      BY <1>1, <2>1, <2>2, <2>3 DEF IInv, CallableGivesItsResult, EmitInv
  <1>5. CASE ~(Callable(iter[b].i) /\ ~iter[b].invoked)
    <2>1. /\ returned' = [at |-> iter[b].i, value |-> iter[b].r]
          /\ UNCHANGED <<running, executed>>
      BY <1>5 DEF Dereference
    <2>2. returned' \in [at : 0 .. End, value : -2 .. N]
      <3>1. iter[b].i \in 0 .. End
        BY <1>3
      <3>2. iter[b].r \in -2 .. N
        BY <1>3 DEF Uninitialised, Nothing
      <3>3. QED
        BY <2>1, <3>1, <3>2
    <2>3. TypeOK'
      <3>1. TypeOK
        BY DEF IInv
      <3>2. QED
        BY <1>1, <2>1, <2>2, <3>1, SMTT(30) DEF TypeOK
    <2>4. BufferInv'
      BY <1>1, <2>1 DEF IInv, BufferInv
    <2>5. CallableGivesItsResult'
      <3>1. CASE iter[b].invoked
        <4>1. iter[b].r = Result(iter[b].i)
          BY <3>1 DEF IInv, BufferInv
        <4>2. QED
          BY <2>1, <4>1, <1>1 DEF CallableGivesItsResult, Result, Nothing
      <3>2. CASE ~Callable(iter[b].i)
        <4>1. iter[b].i \in away
          BY <1>3, <3>2 DEF IInv, Callable
        <4>2. QED
          BY <1>1, <2>1, <4>1 DEF CallableGivesItsResult
      <3>3. QED
        BY <1>5, <3>1, <3>2
    <2>6. QED
      BY <1>1, <2>1, <2>3, <2>4, <2>5 DEF IInv, EmitInv
  <1>6. QED
    BY <1>4, <1>5

LEMMA SlotReturnsKeeps ==
    ASSUME IInv, NEW b \in Iter, SlotReturns(b)
    PROVE  IInv'
  <1> USE Constants
  <1> DEFINE s == iter[b].i
  <1>1. /\ running = b /\ running' = None
        /\ UNCHANGED <<mode, gone, blocked, it, r_, ran, away>>
        /\ iter' = [iter EXCEPT ![b] = Buffer(s, Result(s), TRUE)]
        /\ executed' = [executed EXCEPT ![b] = executed[b] + 1]
        /\ returned' = [at |-> s, value |-> Result(s)]
    BY DEF SlotReturns
  <1>2. iter \in [Iter -> BufferType] /\ mode = "accumulate" /\ s \in Slot
        /\ executed \in [Iter -> Nat]
    BY <1>1 DEF IInv, TypeOK, BufferType
  <1>3. PICK r \in Slot \cup {Nothing} : r = Result(s) /\ r \in -2 .. N
    BY <1>2
  <1>4. /\ Buffer(s, r, TRUE) \in BufferType
        /\ Buffer(s, r, TRUE).invoked = TRUE
        /\ Buffer(s, r, TRUE).i = s
        /\ Buffer(s, r, TRUE).r = r
    <2>1. s \in 0 .. End /\ r \in Slot \cup {Uninitialised, Nothing}
      BY <1>2
    <2>2. Buffer(s, r, TRUE) \in BufferType
      BY <2>1, BufferTyped
    <2>3. QED
      BY <2>2 DEF Buffer
  <1>5. /\ iter' \in [Iter -> BufferType] /\ executed' \in [Iter -> Nat]
        /\ returned' \in [at : 0 .. End, value : -2 .. N]
    <2>1. iter' \in [Iter -> BufferType]
      BY <1>1, <1>2, <1>3, <1>4
    <2>2. executed' \in [Iter -> Nat]
      BY <1>1, <1>2
    <2>3. returned' \in [at : 0 .. End, value : -2 .. N]
      BY <1>1, <1>2, <1>3
    <2>4. QED
      BY <2>1, <2>2, <2>3
  <1>6. TypeOK'
    BY <1>1, <1>5 DEF IInv, TypeOK, BufferType
  <1>7. BufferInv'
    <2> SUFFICES ASSUME NEW c \in Iter
                 PROVE  /\ iter'[c].invoked =>
                              /\ running' # c /\ iter'[c].i \in Slot
                              /\ iter'[c].r = Result(iter'[c].i)
                        /\ executed'[c] = IF iter'[c].invoked THEN 1 ELSE 0
      BY DEF BufferInv, Result
    <2>1. CASE c = b
      <3>1. iter'[c] = Buffer(s, r, TRUE) /\ executed[b] = 0
        BY <1>1, <1>2, <1>3, <2>1 DEF IInv, BufferInv
      <3>2. executed'[c] = 1
        BY <1>1, <1>2, <2>1, <3>1
      <3>3. running' # c
        BY <1>1
      <3>4. QED
        BY <1>2, <1>3, <1>4, <3>1, <3>2, <3>3
    <2>2. CASE c # b
      <3>1. iter'[c] = iter[c] /\ executed'[c] = executed[c] /\ running # c
        BY <1>1, <1>2, <2>2
      <3>2. QED
        BY <1>1, <3>1 DEF IInv, BufferInv
    <2>3. QED
      BY <2>1, <2>2
  <1>8. CallableGivesItsResult'
    BY <1>1, <1>2 DEF CallableGivesItsResult, Result, Nothing
  <1>9. QED
    BY <1>1, <1>2, <1>6, <1>7, <1>8 DEF IInv, EmitInv

LEMMA SlotThrowsKeeps ==
    ASSUME IInv, NEW b \in Iter, SlotThrows(b)
    PROVE  IInv'
  <1> USE Constants
  <1>1. /\ running = b /\ running' = None
        /\ UNCHANGED <<mode, gone, blocked, iter, it, r_>>
        /\ UNCHANGED <<returned, executed, ran, away>>
    BY DEF SlotThrows, history
  <1>2. TypeOK'
    BY <1>1 DEF IInv, TypeOK
  <1>3. BufferInv'
    BY <1>1 DEF IInv, BufferInv
  <1>4. QED
    BY <1>1, <1>2, <1>3 DEF IInv, CallableGivesItsResult, EmitInv, TypeOK

LEMMA AccumulatorReturnsKeeps ==
    ASSUME IInv, AccumulatorReturns
    PROVE  IInv'
  <1> USE Constants
  <1>1. /\ running = None /\ mode' = None
        /\ UNCHANGED <<gone, blocked, running, it, r_, returned, ran, away>>
        /\ iter' = [b \in Iter |-> NoIterator]
        /\ executed' = [b \in Iter |-> 0]
    BY DEF AccumulatorReturns
  <1>2. iter' \in [Iter -> BufferType] /\ executed' \in [Iter -> Nat]
    BY <1>1, NoIteratorFields
  <1>3. TypeOK'
    BY <1>1, <1>2 DEF IInv, TypeOK, BufferType
  <1>4. BufferInv'
    BY <1>1, NoIteratorFields DEF BufferInv
  <1>5. QED
    BY <1>1, <1>3, <1>4 DEF IInv, CallableGivesItsResult, EmitInv

\* What the functors block and disconnect is put into away.
LEMMA UserChangesKeeps ==
    ASSUME IInv, UserChanges
    PROVE  IInv'
  <1> USE Constants
  <1>1. /\ gone' \subseteq Slot /\ blocked' \subseteq Slot
        /\ away' = away \cup gone' \cup blocked'
        /\ UNCHANGED <<mode, iter, running, it, r_, returned, executed, ran>>
    BY DEF UserChanges, IInv, TypeOK
  <1>2. TypeOK'
    BY <1>1 DEF IInv, TypeOK
  <1>3. BufferInv'
    BY <1>1 DEF IInv, BufferInv
  <1>4. CallableGivesItsResult'
    BY <1>1 DEF IInv, CallableGivesItsResult, Result
  <1>5. EmitInv'
    BY <1>1 DEF IInv, EmitInv, LastResult, Result
  <1>6. QED
    BY <1>1, <1>2, <1>3, <1>4, <1>5 DEF IInv

(***************************************************************************)
(* The steps of emit().                                                    *)
(***************************************************************************)
LEMMA EmitBeginKeeps ==
    ASSUME IInv, NEW used \in BOOLEAN, EmitBegin(used)
    PROVE  IInv'
  <1> USE Constants
  <1>1. /\ mode' = Emit /\ mode = None /\ running' = running
        /\ gone' \subseteq Slot /\ blocked' \subseteq Slot /\ away' = gone' \cup blocked'
        /\ (~used => gone' = Slot)
        /\ ran' = {} /\ it' = IF used THEN 1 ELSE End
        /\ r_' = IF Void THEN Nothing ELSE Default
        /\ returned' = [at |-> 0, value |-> Nothing]
        /\ UNCHANGED <<iter, executed>>
    BY DEF EmitBegin, Begin
  <1>2. running = None
    BY <1>1 DEF IInv, TypeOK
  <1>3. TypeOK'
    BY <1>1, <1>2 DEF IInv, TypeOK, Default, Nothing
  <1>4. BufferInv'
    BY <1>1 DEF IInv, BufferInv
  <1>5. EmitInv'
    BY <1>1, <1>2 DEF EmitInv, LastResult
  <1>6. QED
    BY <1>1, <1>3, <1>4, <1>5 DEF IInv, CallableGivesItsResult

LEMMA EmitSkipKeeps ==
    ASSUME IInv, EmitSkip
    PROVE  IInv'
  <1> USE Constants
  <1>1. /\ mode = Emit /\ running = None /\ it # End /\ ~Callable(it) /\ it' = it + 1
        /\ UNCHANGED <<mode, gone, blocked, iter, running, r_>>
        /\ UNCHANGED <<returned, executed, ran, away>>
    BY DEF EmitSkip, InLoop, history
  <1>2. it \in Slot /\ it' \in 1 .. End /\ ran \subseteq Slot /\ it \in away
    BY <1>1 DEF IInv, TypeOK, Callable
  <1>3. TypeOK'
    BY <1>1, <1>2 DEF IInv, TypeOK
  <1>4. BufferInv'
    BY <1>1 DEF IInv, BufferInv
  <1>5. LastResult'
    BY <1>1 DEF IInv, EmitInv, LastResult, Result
  <1>6. EmitInv'
    <2>1. \A s \in Slot : s < it' => s < it \/ s = it
      BY <1>1, <1>2
    <2>2. \A s \in ran : s < it'
      BY <1>1, <1>2 DEF IInv, EmitInv
    <2>3. QED
      BY <1>1, <1>2, <1>5, <2>1, <2>2 DEF IInv, EmitInv
  <1>7. QED
    BY <1>1, <1>3, <1>4, <1>6 DEF IInv, CallableGivesItsResult

LEMMA EmitInvokeKeeps ==
    ASSUME IInv, EmitInvoke
    PROVE  IInv'
  <1> USE Constants
  <1>1. /\ mode = Emit /\ running = None /\ it # End /\ running' = Emit
        /\ ran' = ran \cup {it}
        /\ UNCHANGED <<mode, gone, blocked, iter, it, r_, returned, executed, away>>
    BY DEF EmitInvoke, InLoop
  <1>2. it \in Slot /\ ran \subseteq Slot
    BY <1>1 DEF IInv, TypeOK
  <1>3. TypeOK'
    BY <1>1, <1>2 DEF IInv, TypeOK
  <1>4. BufferInv'
    BY <1>1 DEF IInv, BufferInv
  <1>5. EmitInv'
    <2>1. \A s \in ran : s < it
      BY <1>1 DEF IInv, EmitInv
    <2>2. \A s \in ran' : s <= it
      BY <1>1, <1>2, <2>1
    <2>3. \A s \in Slot : s < it => s \in ran' \cup away
      BY <1>1 DEF IInv, EmitInv
    <2>4. QED
      BY <1>1, <2>2, <2>3 DEF EmitInv
  <1>6. QED
    BY <1>1, <1>3, <1>4, <1>5 DEF IInv, CallableGivesItsResult

LEMMA EmitNextKeeps ==
    ASSUME IInv, EmitNext
    PROVE  IInv'
  <1> USE Constants
  <1>1. /\ running = Emit /\ running' = None /\ it' = it + 1 /\ r_' = Result(it)
        /\ UNCHANGED <<mode, gone, blocked, iter, returned, executed, ran, away>>
    BY DEF EmitNext, history
  <1>2. mode = Emit /\ it \in Slot /\ it' \in 1 .. End /\ ran \subseteq Slot
    BY <1>1 DEF IInv, TypeOK
  <1>3. it \in ran /\ \A s \in ran : s <= it
    BY <1>1, <1>2 DEF IInv, EmitInv
  <1>4. TypeOK'
    BY <1>1, <1>2 DEF IInv, TypeOK
  <1>5. BufferInv'
    BY <1>1 DEF IInv, BufferInv
  <1>6. LastResult'
    BY <1>1, <1>3 DEF LastResult, Result, Nothing
  <1>7. EmitInv'
    <2>1. \A s \in Slot : s < it' => s < it \/ s = it
      BY <1>1, <1>2
    <2>2. \A s \in ran : s < it'
      BY <1>1, <1>2, <1>3
    <2>3. QED
      BY <1>1, <1>2, <1>3, <1>6, <2>1, <2>2 DEF IInv, EmitInv
  <1>8. QED
    BY <1>1, <1>4, <1>5, <1>7 DEF IInv, CallableGivesItsResult, Result

LEMMA EmitThrowsKeeps ==
    ASSUME IInv, EmitThrows
    PROVE  IInv'
  <1> USE Constants
  <1>1. /\ running = Emit /\ running' = None /\ mode' = None /\ it' = End
        /\ UNCHANGED <<gone, blocked, iter, r_, returned, executed, ran, away>>
    BY DEF EmitThrows, history
  <1>2. TypeOK'
    BY <1>1 DEF IInv, TypeOK
  <1>3. BufferInv'
    BY <1>1 DEF IInv, BufferInv
  <1>4. QED
    BY <1>1, <1>2, <1>3 DEF IInv, CallableGivesItsResult, EmitInv

LEMMA EmitReturnsKeeps ==
    ASSUME IInv, EmitReturns
    PROVE  IInv'
  <1> USE Constants
  <1>1. /\ running = None /\ mode' = None
        /\ returned' = [at |-> End, value |-> r_]
        /\ UNCHANGED <<gone, blocked, iter, running, it, r_, executed, ran, away>>
    BY DEF EmitReturns
  <1>2. returned' \in [at : 0 .. End, value : -2 .. N]
    BY <1>1 DEF IInv, TypeOK, Default, Nothing
  <1>3. TypeOK'
    BY <1>1, <1>2 DEF IInv, TypeOK
  <1>4. BufferInv'
    BY <1>1 DEF IInv, BufferInv
  <1>5. QED
    BY <1>1, <1>3, <1>4 DEF IInv, CallableGivesItsResult, EmitInv

LEMMA StepKeeps == IInv /\ [Next]_vars => IInv'
  <1> SUFFICES ASSUME IInv, [Next]_vars PROVE IInv'
    OBVIOUS
  <1>1. ASSUME NEW b \in Iter, NEW other \in Iter, NEW used \in BOOLEAN,
               Accumulate(b, other, used)
        PROVE  IInv'
    BY <1>1, AccumulateKeeps
  <1>2. ASSUME NEW b \in Iter, NEW to \in 1 .. End, Move(b, to) PROVE IInv'
    BY <1>2, MoveKeeps
  <1>3. ASSUME NEW b \in Iter, NEW tmp \in Iter, NEW to \in 1 .. End,
               MovePostfix(b, tmp, to)
        PROVE  IInv'
    BY <1>3, MovePostfixKeeps
  <1>4. ASSUME NEW b \in Iter, Dereference(b) \/ SlotReturns(b) \/ SlotThrows(b)
        PROVE  IInv'
    BY <1>4, DereferenceKeeps, SlotReturnsKeeps, SlotThrowsKeeps
  <1>5. ASSUME UserChanges \/ AccumulatorReturns PROVE IInv'
    BY <1>5, UserChangesKeeps, AccumulatorReturnsKeeps
  <1>6. ASSUME NEW used \in BOOLEAN, EmitBegin(used) PROVE IInv'
    BY <1>6, EmitBeginKeeps
  <1>7. ASSUME EmitSkip \/ EmitInvoke \/ EmitNext \/ EmitThrows \/ EmitReturns
        PROVE  IInv'
    BY <1>7, EmitSkipKeeps, EmitInvokeKeeps, EmitNextKeeps, EmitThrowsKeeps,
       EmitReturnsKeeps
  <1>8. CASE UNCHANGED vars
    BY <1>8 DEF IInv, TypeOK, BufferInv, CallableGivesItsResult, EmitInv, LastResult,
       Result, vars, history
  <1>9. QED
    BY <1>1, <1>2, <1>3, <1>4, <1>5, <1>6, <1>7, <1>8 DEF Next

-----------------------------------------------------------------------------
(***************************************************************************)
(* The theorems.                                                           *)
(***************************************************************************)
\* The invariant that the rest follows from.
THEOREM InductiveInvariant == Spec => []IInv
  BY InitHolds, StepKeeps, PTL DEF Spec

\* The buffers, the local variables and the results have their types: no
\* iterator leaves the list, and none executes the placeholder. (signal.h:65-113)
THEOREM TypeCorrect == Spec => []TypeOK
  <1>1. IInv => TypeOK
    BY DEF IInv
  <1>2. QED
    BY <1>1, InductiveInvariant, PTL

\* An iterator executes the slot it stands on at most once, however often it is
\* dereferenced and whatever the functors change meanwhile. (signal.h:65-73)
THEOREM ExecutesOnce == Spec => []ExecutedOnce
  <1>1. IInv => ExecutedOnce
    BY DEF IInv, BufferInv, ExecutedOnce
  <1>2. QED
    BY <1>1, InductiveInvariant, PTL

\* A slot that stays callable gives its own result, never the buffered result
\* of another. (signal.h:65-73)
THEOREM ItsResult == Spec => []CallableGivesItsResult
  <1>1. IInv => CallableGivesItsResult
    BY DEF IInv
  <1>2. QED
    BY <1>1, InductiveInvariant, PTL

\* emit() executes no slot twice, although it has two loops. (signal.h:308-326)
THEOREM EmitRunsOnce == Spec => RunsOnce
  <1>1. IInv /\ [Next]_vars => [EmitInvoke => it \notin ran]_vars
    <2> SUFFICES ASSUME IInv, EmitInvoke PROVE it \notin ran
      OBVIOUS
    <2>1. mode = Emit /\ running = None
      BY DEF EmitInvoke, InLoop
    <2>2. \A s \in ran : s < it
      BY <2>1 DEF IInv, EmitInv
    <2>3. ran \subseteq Int /\ it \in Int
      BY Constants DEF IInv, TypeOK
    <2>4. QED
      BY <2>2, <2>3
  <1>2. QED
    BY <1>1, InductiveInvariant, PTL DEF Spec, RunsOnce

\* What emit() returns is the result of the last slot it executed, and it has
\* executed each that was callable all the time. (signal.h:301-329)
THEOREM EmitReturnsTheLast == Spec => EmitReturnsLast
  <1> DEFINE P == mode = Emit /\ returned' # returned =>
                     /\ Slot \subseteq ran \cup away
                     /\ returned'.value =
                           IF Void THEN Nothing ELSE IF ran = {} THEN Default
                           ELSE CHOOSE s \in ran : \A t \in ran : t <= s
  <1>1. IInv /\ [Next]_vars => [P]_vars
    <2> SUFFICES ASSUME IInv, Next, mode = Emit, returned' # returned
                 PROVE  P
      OBVIOUS
    <2> USE Constants
    <2>1. EmitReturns
      <3>1. running \in {Emit, None}
        BY DEF IInv, EmitInv
      <3>2. \A b \in Iter : running # b
        BY <3>1
      <3>3. \A b, c \in Iter, used \in BOOLEAN : ~Accumulate(b, c, used) /\ ~EmitBegin(used)
        BY DEF Accumulate, EmitBegin, Begin
      <3>4. \A b, c \in Iter, to \in 1 .. End : ~Move(b, to) /\ ~MovePostfix(b, c, to)
        BY DEF Move, MovePostfix, Uses
      <3>5. \A b \in Iter : ~Dereference(b) /\ ~SlotReturns(b) /\ ~SlotThrows(b)
        BY <3>2 DEF Dereference, Uses, SlotReturns, SlotThrows, history
      <3>6. ~UserChanges /\ ~AccumulatorReturns
        BY DEF UserChanges, AccumulatorReturns
      <3>7. ~EmitSkip /\ ~EmitInvoke /\ ~EmitNext /\ ~EmitThrows
        BY DEF EmitSkip, EmitInvoke, EmitNext, EmitThrows, history
      <3>8. EmitBegin(TRUE) \/ EmitBegin(FALSE) => FALSE
        BY DEF EmitBegin, Begin
      <3>9. QED
        BY <3>3, <3>4, <3>5, <3>6, <3>7, <3>8 DEF Next
    <2>2. /\ running = None /\ it = End
          /\ returned' = [at |-> End, value |-> r_]
      BY <2>1 DEF EmitReturns
    <2>3. Slot \subseteq ran \cup away /\ LastResult /\ ran \subseteq Slot
      BY <2>2 DEF IInv, TypeOK, EmitInv
    <2>4. CASE ran = {}
      BY <2>2, <2>3, <2>4 DEF LastResult
    <2>5. CASE ran # {}
      <3>1. PICK s \in ran : r_ = Result(s) /\ \A t \in ran : t <= s
        BY <2>3, <2>5 DEF LastResult
      <3>2. (CHOOSE x \in ran : \A t \in ran : t <= x) = s
        <4>1. \A x \in ran : (\A t \in ran : t <= x) => x = s
          BY <3>1, <2>3
        <4>2. QED
          BY <3>1, <4>1
      <3>3. QED
        BY <2>2, <2>3, <2>5, <3>1, <3>2 DEF Result
    <2>6. QED
      BY <2>4, <2>5
  <1>2. QED
    BY <1>1, InductiveInvariant, PTL DEF Spec, EmitReturnsLast

=============================================================================
