-------------------------- MODULE ConnectionProofs --------------------------
(***************************************************************************)
(* What is proved of connections and scoped connections, for any slots,    *)
(* connection objects and depth of the stack: the types, that no           *)
(* connection dangles, and, if user code leaves alone the object that an   *)
(* assignment works on, that a slot is disconnected before it is replaced  *)
(* and that scoped connections implement ScopedContract.                   *)
(***************************************************************************)
EXTENDS Connection, SequenceTheorems, TLAPS

(***************************************************************************)
(* The inductive invariant. The functions on the stack hold on to scoped   *)
(* connections across user code, and everything depends on what user code  *)
(* cannot have done to these: they exist, a function that began later has  *)
(* others, and the slot of one is not connected any more. A slot is being  *)
(* erased by at most one function.                                         *)
(***************************************************************************)
\* The scoped connection that a function assigns to or destroys.
Held(f) == IF f.op = "erase" THEN {} ELSE {f.of}

\* The scoped connections that a function still uses: the source of a move too,
\* which user code may change, but not destroy.
Uses(f) == Held(f) \cup (IF f.op = "move" THEN {f.with} ELSE {})

EraseInv(stk, slt) ==
    /\ \A i \in DOMAIN stk : stk[i].op = "erase" => slt[stk[i].of] = "dying"
    /\ \A i, j \in DOMAIN stk :
          stk[i].op = "erase" /\ stk[j].op = "erase" /\ i # j => stk[i].of # stk[j].of

HeldInv(stk, alv) ==
    /\ \A i \in DOMAIN stk : Uses(stk[i]) \subseteq alv
    /\ \A i, j \in DOMAIN stk :
          j < i /\ (TouchAssigned => stk[j].op = "dtor")
             => Uses(stk[i]) \cap Held(stk[j]) = {}
    /\ \A i, j \in DOMAIN stk :
          j < i /\ stk[i].op = "dtor" => Held(stk[i]) \cap Uses(stk[j]) = {}

\* The slot that a function is about to replace has been disconnected.
LeftInv(stk, slt, ptr) ==
    ~TouchAssigned =>
       \A i \in DOMAIN stk :
          stk[i].op # "erase" /\ ptr[stk[i].of] # Null => slt[ptr[stk[i].of]] # "valid"

IInv ==
    /\ TypeOK
    /\ NoDanglingPointer
    /\ EraseInv(stack, slot)
    /\ HeldInv(stack, alive)
    /\ LeftInv(stack, slot, pointer)

-----------------------------------------------------------------------------
(***************************************************************************)
(* Frames and the stack.                                                   *)
(***************************************************************************)
LEMMA FrameFacts ==
    ASSUME NEW f \in Frame
    PROVE  /\ f.op \in {"erase", "assign", "move", "dtor"}
           /\ f.op = "erase" => f.of \in Slot
           /\ f.op # "erase" => f.of \in Scoped
           /\ f.op = "assign" => f.with \in Temp
           /\ f.op = "move" => f.with \in Scoped
           /\ Held(f) \subseteq Uses(f) /\ Uses(f) \subseteq Scoped
           /\ f.op # "erase" => Held(f) = {f.of}
           /\ f.op = "move" => Uses(f) = {f.of, f.with}
           /\ f.op # "move" => Uses(f) = Held(f)
  BY DEF Frame, Held, Uses

LEMMA NewFrames ==
    /\ \A s \in Slot : Fr("erase", s, Null) \in Frame
    /\ \A sc \in Scoped, t \in Temp : Fr("assign", sc, t) \in Frame
    /\ \A sc, from \in Scoped : Fr("move", sc, from) \in Frame
    /\ \A sc \in Scoped : Fr("dtor", sc, Null) \in Frame
  BY DEF Frame, Fr

LEMMA Fields ==
    ASSUME NEW op, NEW x, NEW y
    PROVE  /\ Fr(op, x, y).op = op
           /\ Fr(op, x, y).of = x
           /\ Fr(op, x, y).with = y
  BY DEF Fr

LEMMA PushFacts ==
    ASSUME NEW stk \in Seq(Frame), NEW f \in Frame
    PROVE  /\ Append(stk, f) \in Seq(Frame)
           /\ DOMAIN stk = 1 .. Len(stk)
           /\ Len(stk) \in Nat
           /\ Len(Append(stk, f)) = Len(stk) + 1
           /\ DOMAIN Append(stk, f) = 1 .. Len(stk) + 1
           /\ Append(stk, f)[Len(stk) + 1] = f
           /\ \A i \in 1 .. Len(stk) : Append(stk, f)[i] = stk[i]
  OBVIOUS

LEMMA PopFacts ==
    ASSUME stack \in Seq(Frame), stack # <<>>
    PROVE  /\ Caller \in Seq(Frame)
           /\ Top \in Frame
           /\ Len(stack) \in DOMAIN stack
           /\ DOMAIN Caller = DOMAIN stack \ {Len(stack)}
           /\ \A i \in DOMAIN Caller : Caller[i] = stack[i]
  <1>1. \A i \in 1 .. Len(stack) : stack[i] \in Frame
    BY ElementOfSeq
  <1>2. /\ Len(stack) \in Nat \ {0}
        /\ DOMAIN stack = 1 .. Len(stack)
    BY LenProperties, EmptySeq
  <1>3. /\ Caller \in Seq(Frame)
        /\ Len(Caller) = Len(stack) - 1
        /\ \A i \in 1 .. Len(stack) - 1 : Caller[i] = stack[i]
    BY <1>1, <1>2, SubSeqProperties DEF Caller
  <1>4. DOMAIN Caller = 1 .. Len(stack) - 1
    BY <1>2, <1>3, LenProperties
  <1>5. QED
    BY <1>1, <1>2, <1>3, <1>4 DEF Top

LEMMA StackFrames ==
    ASSUME NEW stk \in Seq(Frame), NEW i \in DOMAIN stk
    PROVE  stk[i] \in Frame
  BY ElementOfSeq, LenProperties

\* What user code may use is held by no function that destroys it, and by no
\* function at all if it leaves alone what is assigned.
LEMMA UsableFacts ==
    ASSUME stack \in Seq(Frame), NEW sc \in Usable
    PROVE  /\ sc \in alive
           /\ \A i \in DOMAIN stack :
                (TouchAssigned => stack[i].op = "dtor") => sc \notin Held(stack[i])
  <1>1. sc \in alive /\ sc \notin Busy /\ (~TouchAssigned => sc \notin Assigned)
    BY DEF Usable
  <1>2. SUFFICES ASSUME NEW i \in DOMAIN stack,
                        TouchAssigned => stack[i].op = "dtor",
                        sc \in Held(stack[i])
                 PROVE  FALSE
    BY <1>1
  <1>3. stack[i] \in Frame
    BY StackFrames
  <1>4. sc \in Scoped
    BY <1>2, <1>3, FrameFacts
  <1>5. CASE stack[i].op = "dtor"
    BY <1>1, <1>2, <1>4, <1>5 DEF Busy, Held
  <1>6. CASE stack[i].op # "dtor"
    <2>1. ~TouchAssigned /\ sc \notin Assigned
      BY <1>1, <1>2, <1>6, ConnectionAssumption
    <2>2. CASE stack[i].op = "assign"
      BY <1>2, <1>4, <2>1, <2>2 DEF Assigned, Held
    <2>3. CASE stack[i].op = "move"
      BY <1>2, <1>4, <2>1, <2>3 DEF Assigned, Held
    <2>4. CASE stack[i].op = "erase"
      BY <1>2, <2>4 DEF Held
    <2>5. QED
      BY <1>3, <1>6, <2>2, <2>3, <2>4, FrameFacts
  <1>7. QED
    BY <1>5, <1>6

\* A push of a function that works on connections which no other one has.
LEMMA PushHeld ==
    ASSUME NEW stk \in Seq(Frame), NEW f \in Frame, NEW slt,
           f.op # "erase",
           Uses(f) \subseteq alive,
           \A i \in DOMAIN stk : (TouchAssigned => stk[i].op = "dtor")
              => Uses(f) \cap Held(stk[i]) = {},
           \A i \in DOMAIN stk : f.op = "dtor" => Held(f) \cap Uses(stk[i]) = {},
           EraseInv(stk, slt), HeldInv(stk, alive)
    PROVE  EraseInv(Append(stk, f), slt) /\ HeldInv(Append(stk, f), alive)
  <1> DEFINE new == Append(stk, f)
             n == Len(stk) + 1
  <1>1. /\ DOMAIN new = DOMAIN stk \cup {n}
        /\ n \notin DOMAIN stk
        /\ new[n] = f
        /\ \A i \in DOMAIN stk : new[i] = stk[i] /\ i < n
        /\ n \in Nat /\ DOMAIN stk \subseteq Nat
    BY PushFacts
  <1> HIDE DEF new, n
  <1>2. EraseInv(new, slt)
    BY <1>1 DEF EraseInv
  <1>3. \A i \in DOMAIN new : Uses(new[i]) \subseteq alive
    BY <1>1 DEF HeldInv
  <1>4. ASSUME NEW i \in DOMAIN new, NEW j \in DOMAIN new, j < i
        PROVE  /\ (TouchAssigned => new[j].op = "dtor")
                     => Uses(new[i]) \cap Held(new[j]) = {}
               /\ new[i].op = "dtor" => Held(new[i]) \cap Uses(new[j]) = {}
    <2>1. j \in DOMAIN stk /\ new[j] = stk[j]
      BY <1>1, <1>4
    <2>2. CASE i = n
      BY <1>1, <2>1, <2>2
    <2>3. CASE i # n
      BY <1>1, <1>4, <2>1, <2>3 DEF HeldInv
    <2>4. QED
      BY <2>2, <2>3
  <1>5. QED
    BY <1>2, <1>3, <1>4 DEF HeldInv, new

\* A slot that is not being erased begins to be: what a push of its frame on
\* the frames stk leaves true.
Erasing(stk, s, state) ==
    /\ slot[s] = state
    /\ slot' = [slot EXCEPT ![s] = "dying"]
    /\ stack' = Append(stk, Fr("erase", s, Null))

LEMMA EraseBegins ==
    ASSUME slot \in [Slot -> {"none", "valid", "invalid", "dying", "gone"}],
           NEW s \in Slot, NEW stk \in Seq(Frame), NEW state \in {"valid", "invalid"},
           EraseInv(stk, slot), HeldInv(stk, alive), Erasing(stk, s, state)
    PROVE  /\ slot' \in [Slot -> {"none", "valid", "invalid", "dying", "gone"}]
           /\ stack' \in Seq(Frame)
           /\ EraseInv(stack', slot') /\ HeldInv(stack', alive)
           /\ \A i \in DOMAIN stk : i \in DOMAIN stack' /\ stack'[i] = stk[i]
           /\ \A i \in DOMAIN stack' \ DOMAIN stk : stack'[i].op = "erase"
           /\ \A q \in Slot : slot'[q] = IF q = s THEN "dying" ELSE slot[q]
  <1> DEFINE f == Fr("erase", s, Null)
             n == Len(stk) + 1
  <1>1. f \in Frame /\ f.op = "erase" /\ f.of = s
    BY NewFrames, Fields
  <1>2. /\ stack' \in Seq(Frame)
        /\ DOMAIN stack' = DOMAIN stk \cup {n}
        /\ n \notin DOMAIN stk
        /\ stack'[n] = f
        /\ \A i \in DOMAIN stk : stack'[i] = stk[i] /\ i < n
        /\ n \in Nat /\ DOMAIN stk \subseteq Nat
    BY <1>1, PushFacts DEF Erasing
  <1> HIDE DEF f, n
  <1>3. /\ slot' \in [Slot -> {"none", "valid", "invalid", "dying", "gone"}]
        /\ \A q \in Slot : slot'[q] = IF q = s THEN "dying" ELSE slot[q]
        /\ slot[s] # "dying"
    BY DEF Erasing
  <1>4. \A i \in DOMAIN stk : stk[i].op = "erase" => stk[i].of \in Slot \ {s}
    BY <1>3, StackFrames, FrameFacts DEF EraseInv
  <1>5. EraseInv(stack', slot')
    BY <1>1, <1>2, <1>3, <1>4 DEF EraseInv
  <1>6. HeldInv(stack', alive)
    <2>1. Held(f) = {} /\ Uses(f) = {}
      BY <1>1 DEF Held, Uses
    <2>2. \A i \in DOMAIN stack' : Uses(stack'[i]) \subseteq alive
      BY <1>2, <2>1 DEF HeldInv
    <2>3. ASSUME NEW i \in DOMAIN stack', NEW j \in DOMAIN stack', j < i
          PROVE  /\ (TouchAssigned => stack'[j].op = "dtor")
                       => Uses(stack'[i]) \cap Held(stack'[j]) = {}
                 /\ stack'[i].op = "dtor" => Held(stack'[i]) \cap Uses(stack'[j]) = {}
      <3>1. j \in DOMAIN stk /\ stack'[j] = stk[j]
        BY <1>2, <2>3
      <3>2. CASE i = n
        BY <1>1, <1>2, <2>1, <3>1, <3>2
      <3>3. CASE i # n
        BY <1>2, <2>3, <3>1, <3>3 DEF HeldInv
      <3>4. QED
        BY <3>2, <3>3
    <2>4. QED
      BY <2>2, <2>3 DEF HeldInv
  <1>7. QED
    BY <1>1, <1>2, <1>3, <1>5, <1>6

\* disconnect() makes no slot valid, and the one of p is not valid after it.
LEMMA Disconnected ==
    ASSUME TypeOK, NEW p \in Pointer, NEW stk \in Seq(Frame),
           EraseInv(stk, slot), HeldInv(stk, alive), Disconnect(p, stk)
    PROVE  /\ slot' \in [Slot -> {"none", "valid", "invalid", "dying", "gone"}]
           /\ stack' \in Seq(Frame)
           /\ EraseInv(stack', slot') /\ HeldInv(stack', alive)
           /\ \A i \in DOMAIN stk : i \in DOMAIN stack' /\ stack'[i] = stk[i]
           /\ \A i \in DOMAIN stack' \ DOMAIN stk : stack'[i].op = "erase"
           /\ \A s \in Slot :
                 /\ slot'[s] = "valid" => slot[s] = "valid" /\ s # pointer[p]
                 /\ slot[s] \notin {"none", "gone"} => slot'[s] \notin {"none", "gone"}
           /\ \/ slot' = slot /\ (pointer[p] = Null \/ slot[pointer[p]] # "valid")
              \/ /\ pointer[p] \in Slot
                 /\ \A s \in Slot :
                       slot'[s] = "valid" <=> slot[s] = "valid" /\ s # pointer[p]
  <1> DEFINE s == pointer[p]
  <1>1. s \in Slot \cup {Null} /\ slot \in [Slot -> {"none", "valid", "invalid", "dying", "gone"}]
    BY DEF TypeOK
  <1>2. CASE ~(s # Null /\ slot[s] = "valid")
    <2>1. stack' = stk /\ slot' = slot
      BY <1>2 DEF Disconnect
    <2>2. QED
      BY <1>1, <1>2, <2>1, ConnectionAssumption
  <1>3. CASE s # Null /\ slot[s] = "valid" /\ slot' = [slot EXCEPT ![s] = "invalid"]
             /\ stack' = stk
    <2>1. EraseInv(stk, slot')
      <3>1. \A i \in DOMAIN stk : stk[i].op = "erase" => stk[i].of # s
        BY <1>3 DEF EraseInv
      <3>2. \A i \in DOMAIN stk : stk[i].op = "erase" => stk[i].of \in Slot
        BY StackFrames, FrameFacts
      <3>3. QED
        BY <1>1, <1>3, <3>1, <3>2 DEF EraseInv
    <2>2. QED
      BY <1>1, <1>3, <2>1
  <1>4. CASE s # Null /\ slot[s] = "valid" /\ slot' = [slot EXCEPT ![s] = "dying"]
             /\ stack' = Append(stk, Fr("erase", s, Null))
    <2>1. s \in Slot
      BY <1>1, <1>4
    <2>2. Erasing(stk, s, "valid")
      BY <1>4, <2>1 DEF Erasing
    <2>3. QED
      BY <1>1, <1>4, <2>1, <2>2, EraseBegins
  <1>5. QED
    BY <1>2, <1>3, <1>4 DEF Disconnect

-----------------------------------------------------------------------------
(***************************************************************************)
(* The invariant is inductive: what user code does.                        *)
(***************************************************************************)
\* The part of the invariant that is left when the slots and the stack stay.
LEMMA PointersMove ==
    ASSUME IInv, UNCHANGED <<slot, stack>>,
           pointer' \in [Pointer -> Slot \cup {Null}],
           \A p \in Pointer : pointer'[p] # Null => \E q \in Pointer : pointer[q] = pointer'[p],
           \A t \in Temp : pointer'[t] = pointer[t],
           alive \subseteq alive', alive' \subseteq Scoped,
           \A sc \in Scoped \ alive' : pointer'[sc] = Null,
           ~TouchAssigned => \A i \in DOMAIN stack : \A sc \in Held(stack[i]) :
                                pointer'[sc] = pointer[sc]
    PROVE  IInv'
  <1>1. TypeOK'
    BY DEF IInv, TypeOK
  <1>2. NoDanglingPointer'
    BY DEF IInv, TypeOK, NoDanglingPointer
  <1>3. EraseInv(stack', slot')
    BY DEF IInv, EraseInv
  <1>4. HeldInv(stack', alive')
    BY DEF IInv, HeldInv
  <1>5. LeftInv(stack', slot', pointer')
    <2>1. \A i \in DOMAIN stack : stack[i].op # "erase" => stack[i].of \in Held(stack[i])
      BY DEF Held
    <2>2. QED
      BY <2>1 DEF IInv, LeftInv
  <1>6. QED
    BY <1>1, <1>2, <1>3, <1>4, <1>5 DEF IInv

LEMMA ScopedFacts ==
    ASSUME IInv
    PROVE  /\ \A i \in DOMAIN stack : Held(stack[i]) \subseteq alive
           /\ \A i \in DOMAIN stack : Uses(stack[i]) \subseteq alive
           /\ alive \subseteq Scoped
           /\ Conn \cap Scoped = {} /\ Conn \cap Temp = {} /\ Scoped \cap Temp = {}
           /\ Pointer = Conn \cup Scoped \cup Temp
           /\ pointer \in [Pointer -> Slot \cup {Null}]
           /\ stack \in Seq(Frame)
           /\ \A sc \in Scoped \ alive : pointer[sc] = Null
  BY ConnectionAssumption DEF IInv, TypeOK, HeldInv, Uses, Pointer

LEMMA ConnectKeeps ==
    ASSUME IInv, NEW c \in Conn, NEW s \in Slot, Connect(c, s)
    PROVE  IInv'
  <1>1. /\ slot[s] = "none" /\ slot' = [slot EXCEPT ![s] = "valid"]
        /\ pointer' = [pointer EXCEPT ![c] = s]
        /\ UNCHANGED <<alive, stack>>
    BY DEF Connect
  <1>2. TypeOK'
    BY <1>1, ScopedFacts DEF IInv, TypeOK
  <1>3. NoDanglingPointer'
    BY <1>1, ScopedFacts DEF IInv, TypeOK, NoDanglingPointer
  <1>4. \A i \in DOMAIN stack :
           /\ stack[i].op = "erase" => stack[i].of \in Slot
           /\ stack[i].op # "erase" => stack[i].of \in Scoped
    BY StackFrames, FrameFacts, ScopedFacts
  <1>5. EraseInv(stack', slot')
    BY <1>1, <1>4 DEF IInv, TypeOK, EraseInv
  <1>6. HeldInv(stack', alive')
    BY <1>1 DEF IInv, HeldInv
  <1>7. LeftInv(stack', slot', pointer')
    <2>1. \A sc \in Scoped : pointer'[sc] = pointer[sc]
      BY <1>1, ScopedFacts
    <2>2. \A sc \in Scoped : pointer[sc] # Null => pointer[sc] \in Slot \ {s}
      BY <1>1, ScopedFacts DEF IInv, NoDanglingPointer
    <2>3. QED
      BY <1>1, <1>4, <2>1, <2>2 DEF IInv, TypeOK, LeftInv
  <1>8. QED
    BY <1>2, <1>3, <1>5, <1>6, <1>7 DEF IInv

LEMMA CopyConnKeeps ==
    ASSUME IInv, NEW c \in Conn, NEW p \in Conn \cup {Null}, CopyConn(c, p)
    PROVE  IInv'
  <1> DEFINE q == IF p = Null THEN Null ELSE pointer[p]
  <1>1. /\ pointer' = [pointer EXCEPT ![c] = q]
        /\ UNCHANGED <<slot, alive, stack>>
    BY DEF CopyConn
  <1>2. q = Null \/ (p \in Pointer /\ q = pointer[p])
    BY DEF Pointer
  <1>3. q \in Slot \cup {Null} /\ c \in Pointer
    BY <1>2, ScopedFacts
  <1> HIDE DEF q
  <1>4. QED
    BY <1>1, <1>2, <1>3, ScopedFacts, PointersMove

LEMMA NewScopedKeeps ==
    ASSUME IInv, NEW sc \in Scoped, NEW c \in Conn \cup {Null}, NewScoped(sc, c)
    PROVE  IInv'
  <1> DEFINE q == IF c = Null THEN Null ELSE pointer[c]
  <1>1. /\ sc \notin alive /\ alive' = alive \cup {sc}
        /\ pointer' = [pointer EXCEPT ![sc] = q]
        /\ UNCHANGED <<slot, stack>>
    BY DEF NewScoped
  <1>2. q = Null \/ (c \in Pointer /\ q = pointer[c])
    BY DEF Pointer
  <1>3. q \in Slot \cup {Null} /\ sc \in Pointer
    BY <1>2, ScopedFacts
  <1> HIDE DEF q
  <1>4. QED
    BY <1>1, <1>2, <1>3, ScopedFacts, PointersMove

LEMMA MoveScopedKeeps ==
    ASSUME IInv, NEW sc \in Scoped, NEW from \in Scoped, MoveScoped(sc, from)
    PROVE  IInv'
  <1>1. /\ sc \notin alive /\ from \in Usable /\ alive' = alive \cup {sc}
        /\ pointer' = [pointer EXCEPT ![from] = Null, ![sc] = pointer[from]]
        /\ UNCHANGED <<slot, stack>>
    BY DEF MoveScoped
  <1>2. \A p \in Pointer : pointer'[p] = IF p = sc THEN pointer[from]
                                         ELSE IF p = from THEN Null ELSE pointer[p]
    BY <1>1, ScopedFacts
  <1>3. pointer' \in [Pointer -> Slot \cup {Null}]
    BY <1>1, ScopedFacts
  <1>4. ~TouchAssigned => \A i \in DOMAIN stack : from \notin Held(stack[i])
    BY <1>1, UsableFacts, ScopedFacts
  <1>5. QED
    BY <1>1, <1>2, <1>3, <1>4, ScopedFacts, PointersMove

LEMMA SwapKeeps ==
    ASSUME IInv, NEW sca \in Scoped, NEW scb \in Scoped, Swap(sca, scb)
    PROVE  IInv'
  <1>1. /\ {sca, scb} \subseteq Usable
        /\ pointer' = [pointer EXCEPT ![sca] = pointer[scb], ![scb] = pointer[sca]]
        /\ UNCHANGED <<slot, alive, stack>>
    BY DEF Swap
  <1>2. \A p \in Pointer : pointer'[p] = IF p = scb THEN pointer[sca]
                                         ELSE IF p = sca THEN pointer[scb] ELSE pointer[p]
    BY <1>1, ScopedFacts
  <1>3. pointer' \in [Pointer -> Slot \cup {Null}]
    BY <1>1, ScopedFacts
  <1>4. /\ {sca, scb} \subseteq alive
        /\ ~TouchAssigned => \A i \in DOMAIN stack :
                                sca \notin Held(stack[i]) /\ scb \notin Held(stack[i])
    BY <1>1, UsableFacts, ScopedFacts
  <1>5. QED
    BY <1>1, <1>2, <1>3, <1>4, ScopedFacts, PointersMove

LEMMA ReleaseKeeps ==
    ASSUME IInv, NEW sc \in Scoped, NEW c \in Conn, Release(sc, c)
    PROVE  IInv'
  <1>1. /\ sc \in Usable
        /\ pointer' = [pointer EXCEPT ![sc] = Null, ![c] = pointer[sc]]
        /\ UNCHANGED <<slot, alive, stack>>
    BY DEF Release
  <1>2. \A p \in Pointer : pointer'[p] = IF p = c THEN pointer[sc]
                                         ELSE IF p = sc THEN Null ELSE pointer[p]
    BY <1>1, ScopedFacts
  <1>3. pointer' \in [Pointer -> Slot \cup {Null}]
    BY <1>1, ScopedFacts
  <1>4. /\ sc \in alive
        /\ ~TouchAssigned => \A i \in DOMAIN stack : sc \notin Held(stack[i])
    BY <1>1, UsableFacts, ScopedFacts
  <1>5. QED
    BY <1>1, <1>2, <1>3, <1>4, ScopedFacts, PointersMove

\* A function that works on scoped connections begins with a disconnect().
LEMMA BeginKeeps ==
    ASSUME IInv, NEW f \in Frame,
           f.op # "erase", Uses(f) \subseteq alive,
           \A i \in DOMAIN stack : (TouchAssigned => stack[i].op = "dtor")
              => Uses(f) \cap Held(stack[i]) = {},
           \A i \in DOMAIN stack : f.op = "dtor" => Held(f) \cap Uses(stack[i]) = {},
           Disconnect(f.of, Append(stack, f)),
           alive' = alive,
           pointer' \in [Pointer -> Slot \cup {Null}],
           \A p \in Pointer : pointer'[p] # Null => \E q \in Pointer : pointer[q] = pointer'[p],
           \A sc \in Scoped : pointer'[sc] = pointer[sc],
           \A t \in Temp : \/ pointer'[t] = pointer[t]
                           \/ f.op = "assign" /\ f.with = t /\ t = Len(stack) + 1
    PROVE  IInv'
  <1> DEFINE stk == Append(stack, f)
             n == Len(stack) + 1
  <1>1. stack \in Seq(Frame)
    BY ScopedFacts
  <1>2. /\ stk \in Seq(Frame)
        /\ DOMAIN stk = DOMAIN stack \cup {n}
        /\ n \notin DOMAIN stack
        /\ stk[n] = f
        /\ \A i \in DOMAIN stack : stk[i] = stack[i]
    BY <1>1, PushFacts
  <1>3. EraseInv(stk, slot) /\ HeldInv(stk, alive)
    BY <1>1, PushHeld DEF IInv
  <1>4. f.of \in Scoped /\ f.of \in Pointer
    BY FrameFacts DEF Pointer
  <1> HIDE DEF stk
  <1>5. /\ slot' \in [Slot -> {"none", "valid", "invalid", "dying", "gone"}]
        /\ stack' \in Seq(Frame)
        /\ EraseInv(stack', slot') /\ HeldInv(stack', alive)
        /\ \A i \in DOMAIN stk : i \in DOMAIN stack' /\ stack'[i] = stk[i]
        /\ \A i \in DOMAIN stack' \ DOMAIN stk : stack'[i].op = "erase"
        /\ \A s \in Slot :
              /\ slot'[s] = "valid" => slot[s] = "valid" /\ s # pointer[f.of]
              /\ slot[s] \notin {"none", "gone"} => slot'[s] \notin {"none", "gone"}
    <2>1. Disconnect(f.of, stk)
      BY DEF stk
    <2>2. TypeOK
      BY DEF IInv
    <2>3. QED
      BY <1>2, <1>3, <1>4, <2>1, <2>2, Disconnected
  <1>6. TypeOK'
    <2>1. \A t \in Temp : pointer'[t] # Null =>
             t \in DOMAIN stack' /\ stack'[t].op = "assign" /\ stack'[t].with = t
      <3>1. \A t \in Temp : pointer[t] # Null =>
               t \in DOMAIN stack /\ stack[t].op = "assign" /\ stack[t].with = t
        BY DEF IInv, TypeOK
      <3>2. QED
        BY <1>2, <1>5, <3>1
    <2>2. \A sc \in Scoped \ alive' : pointer'[sc] = Null
      BY ScopedFacts
    <2>3. alive' \subseteq Scoped
      BY ScopedFacts
    <2>4. QED
      BY <1>5, <2>1, <2>2, <2>3 DEF TypeOK
  <1>7. NoDanglingPointer'
    <2>1. \A p \in Pointer : pointer'[p] # Null =>
             pointer'[p] \in Slot /\ slot[pointer'[p]] \notin {"none", "gone"}
      BY DEF IInv, NoDanglingPointer
    <2>2. QED
      BY <1>5, <2>1 DEF NoDanglingPointer
  <1>8. LeftInv(stack', slot', pointer')
    <2> SUFFICES ASSUME ~TouchAssigned, NEW i \in DOMAIN stack',
                        stack'[i].op # "erase", pointer'[stack'[i].of] # Null
                 PROVE  slot'[pointer'[stack'[i].of]] # "valid"
      BY DEF LeftInv
    <2>1. i \in DOMAIN stk /\ stack'[i] = stk[i] /\ stk[i] \in Frame
      BY <1>2, <1>5, StackFrames
    <2>2. stk[i].of \in Scoped /\ pointer'[stk[i].of] = pointer[stk[i].of]
      BY <2>1, FrameFacts
    <2>3. pointer[stk[i].of] \in Slot
      BY <2>1, <2>2, ScopedFacts
    <2>4. CASE i = n
      BY <1>2, <1>5, <2>1, <2>2, <2>3, <2>4
    <2>5. CASE i # n
      <3>1. i \in DOMAIN stack /\ stk[i] = stack[i]
        BY <1>2, <2>1, <2>5
      <3>2. slot[pointer[stack[i].of]] # "valid"
        BY <2>1, <2>2, <3>1 DEF IInv, LeftInv
      <3>3. QED
        BY <1>5, <2>1, <2>2, <2>3, <3>1, <3>2
    <2>6. QED
      BY <2>4, <2>5
  <1>9. HeldInv(stack', alive')
    BY <1>5
  <1>10. QED
    BY <1>5, <1>6, <1>7, <1>8, <1>9 DEF IInv

LEMMA AssignKeeps ==
    ASSUME IInv, NEW sc \in Scoped, NEW c \in Conn, Assign(sc, c)
    PROVE  IInv'
  <1> DEFINE temp == Len(stack) + 1
             f == Fr("assign", sc, temp)
  <1>1. /\ sc \in Usable /\ Len(stack) < MaxStack /\ alive' = alive
        /\ pointer' = [pointer EXCEPT ![temp] = pointer[c]]
        /\ Disconnect(sc, Append(stack, f))
    BY DEF Assign
  <1>2. temp \in Temp
    <2>1. Len(stack) \in Nat
      BY ScopedFacts, LenProperties
    <2>2. QED
      BY <1>1, <2>1, ConnectionAssumption DEF Temp
  <1>3. f \in Frame /\ f.op = "assign" /\ f.of = sc /\ f.with = temp
    BY <1>2, NewFrames, Fields
  <1>4. temp = Len(stack) + 1
    OBVIOUS
  <1> HIDE DEF f, temp
  <1>5. Uses(f) = {sc}
    BY <1>3 DEF Held, Uses
  <1>6. sc \in alive /\ \A i \in DOMAIN stack :
           (TouchAssigned => stack[i].op = "dtor") => sc \notin Held(stack[i])
    BY <1>1, UsableFacts, ScopedFacts
  <1>7. /\ pointer' \in [Pointer -> Slot \cup {Null}]
        /\ \A p \in Pointer : pointer'[p] = IF p = temp THEN pointer[c] ELSE pointer[p]
        /\ c \in Pointer
        /\ temp \notin Scoped
    BY <1>1, <1>2, ScopedFacts
  <1>8. Disconnect(f.of, Append(stack, f))
    BY <1>1, <1>3
  <1>9. Uses(f) \subseteq alive /\ f.op \notin {"erase", "dtor"}
    BY <1>3, <1>5, <1>6
  <1>10. \A i \in DOMAIN stack : (TouchAssigned => stack[i].op = "dtor")
            => Uses(f) \cap Held(stack[i]) = {}
    BY <1>5, <1>6
  <1>11. /\ \A p \in Pointer : pointer'[p] # Null => \E q \in Pointer : pointer[q] = pointer'[p]
         /\ \A x \in Scoped : pointer'[x] = pointer[x]
         /\ \A t \in Temp : \/ pointer'[t] = pointer[t]
                            \/ f.op = "assign" /\ f.with = t /\ t = Len(stack) + 1
    BY <1>3, <1>4, <1>7, ScopedFacts
  <1>12. QED
    BY <1>1, <1>3, <1>7, <1>8, <1>9, <1>10, <1>11, BeginKeeps

LEMMA MoveAssignKeeps ==
    ASSUME IInv, NEW sc \in Scoped, NEW from \in Scoped, MoveAssign(sc, from)
    PROVE  IInv'
  <1> DEFINE f == Fr("move", sc, from)
  <1>1. /\ sc \in Usable /\ from \in Usable /\ UNCHANGED <<pointer, alive>>
        /\ Disconnect(sc, Append(stack, f))
    BY DEF MoveAssign
  <1>2. f \in Frame /\ f.op = "move" /\ f.of = sc /\ f.with = from
    BY NewFrames, Fields
  <1> HIDE DEF f
  <1>3. Uses(f) = {sc, from}
    BY <1>2 DEF Held, Uses
  <1>4. sc \in alive /\ \A i \in DOMAIN stack :
           (TouchAssigned => stack[i].op = "dtor") => sc \notin Held(stack[i])
    BY <1>1, UsableFacts, ScopedFacts
  <1>5. from \in alive /\ \A i \in DOMAIN stack :
           (TouchAssigned => stack[i].op = "dtor") => from \notin Held(stack[i])
    BY <1>1, UsableFacts, ScopedFacts
  <1>6. Disconnect(f.of, Append(stack, f))
    BY <1>1, <1>2
  <1>7. Uses(f) \subseteq alive /\ f.op \notin {"erase", "dtor"}
    BY <1>2, <1>3, <1>4, <1>5
  <1>8. \A i \in DOMAIN stack : (TouchAssigned => stack[i].op = "dtor")
           => Uses(f) \cap Held(stack[i]) = {}
    BY <1>3, <1>4, <1>5
  <1>9. QED
    BY <1>1, <1>2, <1>6, <1>7, <1>8, BeginKeeps, ScopedFacts

LEMMA EndScopedKeeps ==
    ASSUME IInv, NEW sc \in Scoped, EndScoped(sc)
    PROVE  IInv'
  <1> DEFINE f == Fr("dtor", sc, Null)
  <1>1. /\ sc \in Usable /\ sc \notin Assigned \cup Source /\ UNCHANGED <<pointer, alive>>
        /\ Disconnect(sc, Append(stack, f))
    BY DEF EndScoped
  <1>2. f \in Frame /\ f.op = "dtor" /\ f.of = sc
    BY NewFrames, Fields
  <1> HIDE DEF f
  <1>3. Held(f) = {sc} /\ Uses(f) = {sc}
    BY <1>2 DEF Held, Uses
  <1>4. sc \in alive /\ sc \notin Busy /\ sc \notin Assigned /\ sc \notin Source
    BY <1>1 DEF Usable
  <1>5. \A i \in DOMAIN stack : sc \notin Uses(stack[i]) /\ sc \notin Held(stack[i])
    <2>1. TAKE i \in DOMAIN stack
    <2>2. stack[i].op # "erase" => stack[i].of # sc
      BY <1>4, ScopedFacts, StackFrames, FrameFacts DEF Busy, Assigned
    <2>3. stack[i].op = "move" => stack[i].with # sc
      BY <1>4 DEF Source
    <2>4. QED
      BY <2>2, <2>3 DEF Held, Uses
  <1>6. Disconnect(f.of, Append(stack, f))
    BY <1>1, <1>2
  <1>7. QED
    BY <1>1, <1>2, <1>3, <1>4, <1>5, <1>6, BeginKeeps, ScopedFacts

\* Slots change, but connections do not: a disconnect() or the sweep of a slot.
LEMMA SlotsChange ==
    ASSUME IInv, UNCHANGED <<pointer, alive>>,
           slot' \in [Slot -> {"none", "valid", "invalid", "dying", "gone"}],
           stack' \in Seq(Frame),
           EraseInv(stack', slot'), HeldInv(stack', alive),
           \A i \in DOMAIN stack : i \in DOMAIN stack' /\ stack'[i] = stack[i],
           \A i \in DOMAIN stack' \ DOMAIN stack : stack'[i].op = "erase",
           \A s \in Slot :
              /\ slot'[s] = "valid" => slot[s] = "valid"
              /\ slot[s] \notin {"none", "gone"} => slot'[s] \notin {"none", "gone"}
    PROVE  IInv'
  <1>1. TypeOK'
    <2>1. \A t \in Temp : pointer[t] # Null =>
             t \in DOMAIN stack /\ stack[t].op = "assign" /\ stack[t].with = t
      BY DEF IInv, TypeOK
    <2>2. \A t \in Temp : pointer'[t] # Null =>
             t \in DOMAIN stack' /\ stack'[t].op = "assign" /\ stack'[t].with = t
      BY <2>1
    <2>3. QED
      BY <2>2 DEF IInv, TypeOK
  <1>2. NoDanglingPointer'
    BY ScopedFacts DEF IInv, NoDanglingPointer
  <1>3. LeftInv(stack', slot', pointer')
    <2> SUFFICES ASSUME ~TouchAssigned, NEW i \in DOMAIN stack',
                        stack'[i].op # "erase", pointer'[stack'[i].of] # Null
                 PROVE  slot'[pointer'[stack'[i].of]] # "valid"
      BY DEF LeftInv
    <2>1. i \in DOMAIN stack /\ stack'[i] = stack[i] /\ stack[i] \in Frame
      BY ScopedFacts, StackFrames
    <2>2. pointer[stack[i].of] \in Slot
      BY <2>1, FrameFacts, ScopedFacts
    <2>3. slot[pointer[stack[i].of]] # "valid"
      BY <2>1 DEF IInv, LeftInv
    <2>4. QED
      BY <2>1, <2>2, <2>3
  <1>4. HeldInv(stack', alive')
    OBVIOUS
  <1>5. QED
    BY <1>1, <1>2, <1>3, <1>4 DEF IInv

LEMMA DisconnectSlotKeeps ==
    ASSUME IInv, NEW p \in Pointer, DisconnectSlot(p)
    PROVE  IInv'
  <1>1. Disconnect(p, stack) /\ UNCHANGED <<pointer, alive>>
    BY DEF DisconnectSlot
  <1>2. TypeOK /\ EraseInv(stack, slot) /\ HeldInv(stack, alive)
    BY DEF IInv
  <1>3. QED
    BY <1>1, <1>2, ScopedFacts, Disconnected, SlotsChange

LEMMA SweepKeeps ==
    ASSUME IInv, NEW s \in Slot, Sweep(s)
    PROVE  IInv'
  <1>1. Erasing(stack, s, "invalid") /\ UNCHANGED <<pointer, alive>>
    BY DEF Sweep, Erasing
  <1>2. /\ slot \in [Slot -> {"none", "valid", "invalid", "dying", "gone"}]
        /\ EraseInv(stack, slot) /\ HeldInv(stack, alive)
    BY DEF IInv, TypeOK
  <1>3. QED
    BY <1>1, <1>2, ScopedFacts, EraseBegins, SlotsChange

LEMMA UserOperationKeeps ==
    ASSUME IInv, UserOperation
    PROVE  IInv'
  <1>1. Usable \subseteq Scoped
    BY ScopedFacts DEF Usable
  <1>2. Conn \cup Usable \subseteq Pointer
    BY <1>1 DEF Pointer
  <1>3. QED
    BY <1>2, ConnectKeeps, CopyConnKeeps, NewScopedKeeps, MoveScopedKeeps, SwapKeeps,
       ReleaseKeeps, AssignKeeps, MoveAssignKeeps, EndScopedKeeps, DisconnectSlotKeeps,
       SweepKeeps
       DEF UserOperation

-----------------------------------------------------------------------------
(***************************************************************************)
(* The invariant is inductive: what happens when user code returns.        *)
(***************************************************************************)
LEMMA PopKeeps ==
    ASSUME IInv, stack # <<>>, stack' = Caller
    PROVE  /\ stack' \in Seq(Frame) /\ Top \in Frame
           /\ DOMAIN stack' = DOMAIN stack \ {Len(stack)}
           /\ Len(stack) \in DOMAIN stack
           /\ \A i \in DOMAIN stack' : stack'[i] = stack[i] /\ stack'[i] \in Frame
           /\ EraseInv(stack', slot) /\ HeldInv(stack', alive)
           /\ LeftInv(stack', slot, pointer)
           /\ Uses(Top) \subseteq alive
           /\ \A i \in DOMAIN stack' :
                 /\ ~TouchAssigned => Uses(Top) \cap Held(stack'[i]) = {}
                 /\ Top.op = "dtor" => Held(Top) \cap Uses(stack'[i]) = {}
                 /\ Top.op = "erase" /\ stack'[i].op = "erase" => stack'[i].of # Top.of
           /\ Top.op = "erase" => slot[Top.of] = "dying"
  <1>1. /\ stack' \in Seq(Frame) /\ Top \in Frame
        /\ DOMAIN stack' = DOMAIN stack \ {Len(stack)}
        /\ Len(stack) \in DOMAIN stack
        /\ \A i \in DOMAIN stack' : stack'[i] = stack[i]
    BY PopFacts, ScopedFacts
  <1>2. \A i \in DOMAIN stack' : stack'[i] \in Frame
    BY <1>1, StackFrames
  <1>3. EraseInv(stack', slot) /\ HeldInv(stack', alive)
    BY <1>1 DEF IInv, EraseInv, HeldInv
  <1>4. LeftInv(stack', slot, pointer)
    BY <1>1 DEF IInv, LeftInv
  <1>5. Uses(Top) \subseteq alive
    BY <1>1, ScopedFacts DEF Top
  <1>6. \A i \in DOMAIN stack' :
           /\ ~TouchAssigned => Uses(Top) \cap Held(stack'[i]) = {}
           /\ Top.op = "dtor" => Held(Top) \cap Uses(stack'[i]) = {}
           /\ Top.op = "erase" /\ stack'[i].op = "erase" => stack'[i].of # Top.of
    <2>1. \A i \in DOMAIN stack' : i \in DOMAIN stack /\ i < Len(stack)
      BY <1>1, ScopedFacts, LenProperties
    <2>2. QED
      BY <1>1, <2>1 DEF IInv, HeldInv, EraseInv, Top
  <1>7. Top.op = "erase" => slot[Top.of] = "dying"
    BY <1>1 DEF IInv, EraseInv, Top
  <1>8. QED
    BY <1>1, <1>2, <1>3, <1>4, <1>5, <1>6, <1>7

LEMMA ErasedKeeps ==
    ASSUME IInv, Erased
    PROVE  IInv'
  <1>1. /\ stack # <<>> /\ Top.op = "erase" /\ stack' = Caller /\ alive' = alive
        /\ slot' = [slot EXCEPT ![Top.of] = "gone"]
        /\ pointer' = [p \in Pointer |-> IF pointer[p] = Top.of THEN Null ELSE pointer[p]]
    BY DEF Erased, TopIs
  <1>2. Top \in Frame /\ Top.of \in Slot
    BY <1>1, PopKeeps, FrameFacts
  <1>3. slot \in [Slot -> {"none", "valid", "invalid", "dying", "gone"}]
    BY DEF IInv, TypeOK
  <1>4. \A p \in Pointer : pointer'[p] # Null =>
           pointer'[p] = pointer[p] /\ pointer[p] \in Slot /\ pointer[p] # Top.of
    BY <1>1, ScopedFacts
  <1>5. \A i \in DOMAIN stack' : stack'[i].op = "erase" => stack'[i].of \in Slot \ {Top.of}
    BY <1>1, PopKeeps, FrameFacts
  <1>6. TypeOK'
    <2>1. /\ slot' \in [Slot -> {"none", "valid", "invalid", "dying", "gone"}]
          /\ pointer' \in [Pointer -> Slot \cup {Null}]
          /\ alive' \subseteq Scoped
          /\ stack' \in Seq(Frame)
      BY <1>1, <1>3, PopKeeps, ScopedFacts
    <2>2. \A sc \in Scoped \ alive' : pointer'[sc] = Null
      BY <1>1, <1>4, ScopedFacts
    <2>3. \A t \in Temp : pointer'[t] # Null =>
             t \in DOMAIN stack' /\ stack'[t].op = "assign" /\ stack'[t].with = t
      <3>1. \A t \in Temp : pointer[t] # Null =>
               t \in DOMAIN stack /\ stack[t].op = "assign" /\ stack[t].with = t
        BY DEF IInv, TypeOK
      <3>2. QED
        BY <1>1, <1>4, <3>1, PopKeeps, ScopedFacts DEF Top
    <2>4. QED
      BY <2>1, <2>2, <2>3 DEF TypeOK
  <1>7. NoDanglingPointer'
    BY <1>1, <1>3, <1>4 DEF IInv, NoDanglingPointer
  <1>8. EraseInv(stack', slot')
    BY <1>1, <1>2, <1>3, <1>5, PopKeeps DEF EraseInv
  <1>9. HeldInv(stack', alive')
    BY <1>1, PopKeeps
  <1>10. LeftInv(stack', slot', pointer')
    <2> SUFFICES ASSUME ~TouchAssigned, NEW i \in DOMAIN stack',
                        stack'[i].op # "erase", pointer'[stack'[i].of] # Null
                 PROVE  slot'[pointer'[stack'[i].of]] # "valid"
      BY DEF LeftInv
    <2>1. stack'[i].of \in Pointer
      BY <1>1, PopKeeps, FrameFacts, ScopedFacts
    <2>2. slot[pointer[stack'[i].of]] # "valid"
      BY <1>1, <1>4, <2>1, PopKeeps DEF LeftInv
    <2>3. QED
      BY <1>1, <1>2, <1>3, <1>4, <2>1, <2>2
  <1>11. QED
    BY <1>6, <1>7, <1>8, <1>9, <1>10 DEF IInv

\* Assigning and Moving: the connection of the object of the top function is
\* replaced by that which it was given, which becomes null.
LEMMA TakeKeeps ==
    ASSUME IInv, stack # <<>>, Top.op \in {"assign", "move"},
           pointer' = [pointer EXCEPT ![Top.with] = Null, ![Top.of] = pointer[Top.with]],
           stack' = Caller, UNCHANGED <<slot, alive>>
    PROVE  IInv'
  <1> DEFINE x == Top.of
             w == Top.with
  <1>1. Top \in Frame /\ x \in Scoped /\ x \in alive /\ Uses(Top) \subseteq alive
        /\ x \in Uses(Top)
    <2>1. Top \in Frame /\ x \in Scoped /\ Uses(Top) \subseteq alive
      BY PopKeeps, FrameFacts
    <2>2. x \in Uses(Top)
      BY DEF Held, Uses
    <2>3. QED
      BY <2>1, <2>2
  <1>2. /\ Top.op = "assign" => w \in Temp
        /\ Top.op = "move" => w \in alive /\ w \in Uses(Top) /\ w \in Scoped
    BY <1>1, FrameFacts
  <1>3. x \in Pointer /\ w \in Pointer
    BY <1>1, <1>2, ScopedFacts
  <1>4. /\ pointer' \in [Pointer -> Slot \cup {Null}]
        /\ \A p \in Pointer : pointer'[p] = IF p = x THEN pointer[w]
                                            ELSE IF p = w THEN Null ELSE pointer[p]
    BY <1>3, ScopedFacts
  <1> HIDE DEF x, w
  <1>5. TypeOK'
    <2>1. \A sc \in Scoped \ alive' : pointer'[sc] = Null
      BY <1>1, <1>4, ScopedFacts
    <2>2. \A t \in Temp : pointer'[t] # Null =>
             t \in DOMAIN stack' /\ stack'[t].op = "assign" /\ stack'[t].with = t
      <3>1. \A t \in Temp : pointer[t] # Null =>
               t \in DOMAIN stack /\ stack[t].op = "assign" /\ stack[t].with = t
        BY DEF IInv, TypeOK
      <3>2. \A t \in Temp : pointer'[t] # Null => t # w /\ pointer[t] # Null
        BY <1>1, <1>4, ScopedFacts
      <3>3. \A t \in Temp : pointer'[t] # Null => t # Len(stack)
        BY <3>1, <3>2 DEF Top, w
      <3>4. QED
        BY <3>1, <3>2, <3>3, PopKeeps
    <2>3. /\ slot' \in [Slot -> {"none", "valid", "invalid", "dying", "gone"}]
          /\ alive' \subseteq Scoped /\ stack' \in Seq(Frame)
      BY PopKeeps DEF IInv, TypeOK
    <2>4. QED
      BY <1>4, <2>1, <2>2, <2>3 DEF TypeOK
  <1>6. NoDanglingPointer'
    BY <1>3, <1>4 DEF IInv, NoDanglingPointer
  <1>7. EraseInv(stack', slot') /\ HeldInv(stack', alive')
    BY PopKeeps
  <1>8. LeftInv(stack', slot', pointer')
    <2> SUFFICES ASSUME ~TouchAssigned, NEW i \in DOMAIN stack',
                        stack'[i].op # "erase", pointer'[stack'[i].of] # Null
                 PROVE  slot'[pointer'[stack'[i].of]] # "valid"
      BY DEF LeftInv
    <2>1. stack'[i].of \in Scoped /\ stack'[i].of \in Held(stack'[i])
      <3>1. stack'[i] \in Frame
        BY PopKeeps
      <3>2. QED
        BY <3>1, FrameFacts DEF Held
    <2>2. Uses(Top) \cap Held(stack'[i]) = {}
      BY PopKeeps
    <2>3. stack'[i].of # x /\ stack'[i].of # w
      BY <1>1, <1>2, <2>1, <2>2, ScopedFacts
    <2>4. pointer'[stack'[i].of] = pointer[stack'[i].of]
      BY <1>4, <2>1, <2>3, ScopedFacts
    <2>5. QED
      BY <2>4, PopKeeps DEF LeftInv
  <1>9. QED
    BY <1>5, <1>6, <1>7, <1>8 DEF IInv

LEMMA EndedKeeps ==
    ASSUME IInv, Ended
    PROVE  IInv'
  <1> DEFINE x == Top.of
  <1>1. /\ stack # <<>> /\ Top.op = "dtor" /\ stack' = Caller /\ slot' = slot
        /\ pointer' = [pointer EXCEPT ![x] = Null] /\ alive' = alive \ {x}
    BY DEF Ended, TopIs
  <1>2. Top \in Frame /\ x \in Scoped /\ Held(Top) = {x}
    BY <1>1, PopKeeps, FrameFacts DEF Held
  <1>3. \A i \in DOMAIN stack' : x \notin Uses(stack'[i])
    BY <1>1, <1>2, PopKeeps
  <1>4. /\ pointer' \in [Pointer -> Slot \cup {Null}]
        /\ \A p \in Pointer : pointer'[p] = IF p = x THEN Null ELSE pointer[p]
    BY <1>1, <1>2, ScopedFacts
  <1>5. \A t \in Temp : pointer[t] # Null =>
           t \in DOMAIN stack' /\ stack'[t].op = "assign" /\ stack'[t].with = t
    BY <1>1, PopKeeps DEF IInv, TypeOK, Top
  <1> HIDE DEF x
  <1>6. TypeOK'
    <2>1. \A sc \in Scoped \ alive' : pointer'[sc] = Null
      BY <1>1, <1>4, ScopedFacts
    <2>2. \A t \in Temp : pointer'[t] # Null =>
             t \in DOMAIN stack' /\ stack'[t].op = "assign" /\ stack'[t].with = t
      BY <1>4, <1>5, ScopedFacts
    <2>3. QED
      BY <1>1, <1>4, <2>1, <2>2, PopKeeps DEF IInv, TypeOK
  <1>7. NoDanglingPointer'
    BY <1>1, <1>4 DEF IInv, NoDanglingPointer
  <1>8. EraseInv(stack', slot')
    BY <1>1, PopKeeps
  <1>9. HeldInv(stack', alive')
    BY <1>1, <1>3, PopKeeps DEF HeldInv
  <1>10. LeftInv(stack', slot', pointer')
    <2>1. \A i \in DOMAIN stack' : stack'[i].op # "erase" => stack'[i].of \in Pointer
      BY <1>1, PopKeeps, FrameFacts, ScopedFacts
    <2>2. QED
      BY <1>1, <1>4, <2>1, PopKeeps DEF LeftInv
  <1>11. QED
    BY <1>6, <1>7, <1>8, <1>9, <1>10 DEF IInv

\* Nothing that users or the functions on the stack do breaks the invariant.
LEMMA StepKeeps ==
    ASSUME IInv, [Next]_vars
    PROVE  IInv'
  <1>1. CASE UserOperation
    BY <1>1, UserOperationKeeps
  <1>2. CASE Erased
    BY <1>2, ErasedKeeps
  <1>3. CASE Assigning
    BY <1>3, TakeKeeps DEF Assigning, TopIs
  <1>4. CASE Moving
    BY <1>4, TakeKeeps DEF Moving, TopIs
  <1>5. CASE Ended
    BY <1>5, EndedKeeps
  <1>6. CASE UNCHANGED vars
    BY <1>6 DEF vars, IInv, TypeOK, NoDanglingPointer, EraseInv, HeldInv, LeftInv
  <1>7. QED
    BY <1>1, <1>2, <1>3, <1>4, <1>5, <1>6 DEF Next

LEMMA InitHolds == Init => IInv
  BY DEF Init, IInv, TypeOK, NoDanglingPointer, EraseInv, HeldInv, LeftInv, Pointer

-----------------------------------------------------------------------------
(***************************************************************************)
(* The theorems.                                                           *)
(***************************************************************************)
\* Whatever user code does in the functors' destructors, the functions on the
\* stack hold what they think they hold. (scoped_connection.cc:30-56)
THEOREM InductiveInvariant == Spec => []IInv
  <1>1. IInv /\ [Next]_vars => IInv'
    BY StepKeeps
  <1>2. QED
    BY <1>1, InitHolds, PTL DEF Spec

\* Every connection, also a temporary one, has a value of its type, and none
\* outlives its object. (connection.cc:22-35)
THEOREM TypeCorrect == Spec => []TypeOK
  <1>1. IInv => TypeOK
    BY DEF IInv
  <1>2. QED
    BY <1>1, InductiveInvariant, PTL

\* A connection never points to a slot whose rep is deleted, however many
\* copies were made while it was being deleted. (weak_raw_ptr.h:85-92)
THEOREM NoDangling == Spec => []NoDanglingPointer
  <1>1. IInv => NoDanglingPointer
    BY DEF IInv
  <1>2. QED
    BY <1>1, InductiveInvariant, PTL

LEMMA TopLeft ==
    ASSUME IInv, ~TouchAssigned, stack # <<>>, Top.op # "erase", pointer[Top.of] # Null
    PROVE  slot[pointer[Top.of]] # "valid"
  <1>1. Len(stack) \in DOMAIN stack
    BY PopFacts, ScopedFacts
  <1>2. QED
    BY <1>1 DEF IInv, LeftInv, Top

\* If user code does not use the object that is being assigned to, a slot is
\* disconnected before a scoped connection lets go of it.
\* (scoped_connection.h:93, 112)
THEOREM ReplacedDisconnected == ~TouchAssigned /\ Spec => Replaced
  <1>1. ASSUME IInv, ~TouchAssigned, [Next]_vars
        PROVE  [(Assigning \/ Moving \/ Ended)
                   /\ pointer[Top.of] # Null /\ pointer[Top.of] # pointer'[Top.of]
                      => slot[pointer[Top.of]] # "valid"]_vars
    <2>1. ASSUME Assigning \/ Moving \/ Ended, pointer[Top.of] # Null
          PROVE  slot[pointer[Top.of]] # "valid"
      <3>1. stack # <<>> /\ Top.op # "erase"
        BY <2>1 DEF Assigning, Moving, Ended, TopIs
      <3>2. QED
        BY <1>1, <2>1, <3>1, TopLeft
    <2>2. QED
      BY <2>1
  <1>2. SUFFICES ASSUME ~TouchAssigned
                 PROVE  Spec => Replaced
    OBVIOUS
  <1>3. IInv /\ [Next]_vars =>
           [(Assigning \/ Moving \/ Ended)
               /\ pointer[Top.of] # Null /\ pointer[Top.of] # pointer'[Top.of]
                  => slot[pointer[Top.of]] # "valid"]_vars
    BY <1>1, <1>2
  <1>4. QED
    BY <1>3, InductiveInvariant, PTL DEF Spec, Replaced

-----------------------------------------------------------------------------
(***************************************************************************)
(* Scoped connections implement ScopedContract: every step is a step of    *)
(* the contract or leaves what it speaks of alone.                         *)
(***************************************************************************)
CareKept == [sc \in Scoped |-> pointer'[sc]] = [sc \in Scoped |-> pointer[sc]]

ConnectedKept == {s \in Slot : slot'[s] = "valid"} = {s \in Slot : slot[s] = "valid"}

\* A step under which the contract stutters, or takes a step of its own.
Refines == Contract!Next \/ (CareKept /\ ConnectedKept)

LEMMA ContractSteps ==
    /\ \A s \in Slot : Contract!Connect(s) => Refines
    /\ \A s \in Slot : Contract!Disconnect(s) => Refines
    /\ \A sc \in Scoped, s \in Slot \cup {Null} : Contract!Take(sc, s) => Refines
    /\ \A S \in SUBSET Scoped : Contract!Forget(S) => Refines
    /\ \A sc \in Scoped : Contract!Release(sc) => Refines
    /\ \A sc, other \in Scoped : Contract!Move(sc, other) => Refines
    /\ \A sc, other \in Scoped : Contract!Swap(sc, other) => Refines
  BY DEF Refines, Contract!Next

LEMMA RefineConnect ==
    ASSUME IInv, NEW c \in Conn, NEW s \in Slot, Connect(c, s)
    PROVE  Refines
  <1>1. /\ slot[s] = "none" /\ slot' = [slot EXCEPT ![s] = "valid"]
        /\ pointer' = [pointer EXCEPT ![c] = s]
    BY DEF Connect
  <1>2. CareKept
    BY <1>1, ScopedFacts DEF CareKept
  <1>3. {q \in Slot : slot'[q] = "valid"} = {q \in Slot : slot[q] = "valid"} \cup {s}
    BY <1>1 DEF IInv, TypeOK
  <1>4. Contract!Connect(s)
    BY <1>2, <1>3 DEF CareKept, Contract!Connect
  <1>5. QED
    BY <1>4, ContractSteps

LEMMA RefineDisconnect ==
    ASSUME IInv, NEW p \in Pointer, NEW stk \in Seq(Frame),
           EraseInv(stk, slot), HeldInv(stk, alive), Disconnect(p, stk), CareKept
    PROVE  Refines
  <1>1. \/ slot' = slot
        \/ /\ pointer[p] \in Slot
           /\ \A s \in Slot : slot'[s] = "valid" <=> slot[s] = "valid" /\ s # pointer[p]
    BY Disconnected DEF IInv
  <1>2. CASE slot' = slot
    BY <1>2 DEF Refines, ConnectedKept
  <1>3. CASE /\ pointer[p] \in Slot
             /\ \A s \in Slot : slot'[s] = "valid" <=> slot[s] = "valid" /\ s # pointer[p]
    <2>1. {s \in Slot : slot'[s] = "valid"} = {s \in Slot : slot[s] = "valid"} \ {pointer[p]}
      BY <1>3
    <2>2. PICK q \in Slot : q = pointer[p]
      BY <1>3
    <2>3. Contract!Disconnect(q)
      BY <2>1, <2>2 DEF CareKept, Contract!Disconnect
    <2>4. QED
      BY <2>3, ContractSteps
  <1>4. QED
    BY <1>1, <1>2, <1>3

\* A function of scoped connections that begins: its frame holds on to no
\* slot, so the disconnect() is all that the contract sees.
LEMMA RefineBegin ==
    ASSUME IInv, NEW f \in Frame, f.op # "erase", NEW p \in Pointer,
           Disconnect(p, Append(stack, f)), CareKept
    PROVE  Refines
  <1>0. PICK s : s = pointer[p]
    OBVIOUS
  <1>1. s \in Slot \cup {Null} /\ slot \in [Slot -> {"none", "valid", "invalid", "dying", "gone"}]
    BY <1>0 DEF IInv, TypeOK
  <1>2. CASE ~(s # Null /\ slot[s] = "valid")
    BY <1>0, <1>2 DEF Disconnect, Refines, ConnectedKept
  <1>3. CASE s # Null /\ slot[s] = "valid"
    <2>1. s \in Slot
      BY <1>1, <1>3
    <2>2. slot' = [slot EXCEPT ![s] = "dying"] \/ slot' = [slot EXCEPT ![s] = "invalid"]
      BY <1>0, <1>3 DEF Disconnect
    <2>3. {q \in Slot : slot'[q] = "valid"} = {q \in Slot : slot[q] = "valid"} \ {s}
      BY <1>1, <2>1, <2>2
    <2>4. Contract!Disconnect(s)
      BY <2>3 DEF CareKept, Contract!Disconnect
    <2>5. QED
      BY <2>1, <2>4, ContractSteps
  <1>4. QED
    BY <1>2, <1>3

\* The connections of scoped connections change, those of slots do not.
LEMMA RefineTake ==
    ASSUME IInv, NEW sc \in Scoped, NEW q \in Slot \cup {Null}, ConnectedKept,
           pointer[sc] = Null \/ slot[pointer[sc]] # "valid",
           \A x \in Scoped : pointer'[x] = IF x = sc THEN q ELSE pointer[x]
    PROVE  Contract!Take(sc, q)
  <1>1. pointer[sc] \notin {s \in Slot : slot[s] = "valid"}
    BY ConnectionAssumption
  <1>2. [x \in Scoped |-> pointer'[x]] = [[x \in Scoped |-> pointer[x]] EXCEPT ![sc] = q]
    OBVIOUS
  <1>3. QED
    BY <1>1, <1>2 DEF Contract!Take, Contract!Idle, ConnectedKept

LEMMA RefineMove ==
    ASSUME IInv, NEW sc \in Scoped, NEW from \in Scoped, ConnectedKept,
           pointer[sc] = Null \/ slot[pointer[sc]] # "valid",
           \A x \in Scoped : pointer'[x] = IF x = sc THEN pointer[from]
                                           ELSE IF x = from THEN Null ELSE pointer[x]
    PROVE  Contract!Move(sc, from)
  <1>1. pointer[sc] \notin {s \in Slot : slot[s] = "valid"}
    BY ConnectionAssumption
  <1>2. [x \in Scoped |-> pointer'[x]] =
           [[x \in Scoped |-> pointer[x]] EXCEPT ![from] = Null, ![sc] = pointer[from]]
    OBVIOUS
  <1>3. QED
    BY <1>1, <1>2 DEF Contract!Move, Contract!Idle, ConnectedKept

LEMMA RefineForget ==
    ASSUME IInv, NEW S \in SUBSET Scoped, ConnectedKept,
           \A x \in S : pointer[x] = Null \/ slot[pointer[x]] # "valid",
           \A x \in Scoped : pointer'[x] = IF x \in S THEN Null ELSE pointer[x]
    PROVE  Contract!Forget(S)
  <1>1. \A x \in S : pointer[x] \notin {s \in Slot : slot[s] = "valid"}
    BY ConnectionAssumption
  <1>2. [x \in Scoped |-> pointer'[x]] =
           [x \in Scoped |-> IF x \in S THEN Null ELSE [y \in Scoped |-> pointer[y]][x]]
    OBVIOUS
  <1>3. QED
    BY <1>1, <1>2 DEF Contract!Forget, Contract!Idle, ConnectedKept

LEMMA RefineNew ==
    ASSUME IInv, NEW sc \in Scoped, NEW d \in Conn \cup {Null}, NewScoped(sc, d)
    PROVE  Refines
  <1>1. PICK q : q = IF d = Null THEN Null ELSE pointer[d]
    OBVIOUS
  <1>2. q \in Slot \cup {Null}
    BY <1>1, ScopedFacts
  <1>3. sc \notin alive /\ pointer' = [pointer EXCEPT ![sc] = q] /\ slot' = slot
    BY <1>1 DEF NewScoped
  <1>4. /\ \A x \in Scoped : pointer'[x] = IF x = sc THEN q ELSE pointer[x]
        /\ pointer[sc] = Null
    BY <1>3, ScopedFacts
  <1>5. ConnectedKept
    BY <1>3 DEF ConnectedKept
  <1>6. Contract!Take(sc, q)
    BY <1>2, <1>4, <1>5, RefineTake
  <1>7. QED
    BY <1>2, <1>6, ContractSteps

LEMMA RefineMoveScoped ==
    ASSUME IInv, NEW sc \in Scoped, NEW from \in Scoped, MoveScoped(sc, from)
    PROVE  Refines
  <1>1. /\ sc \notin alive /\ slot' = slot
        /\ pointer' = [pointer EXCEPT ![from] = Null, ![sc] = pointer[from]]
    BY DEF MoveScoped
  <1>2. Contract!Move(sc, from)
    BY <1>1, ScopedFacts, RefineMove DEF ConnectedKept
  <1>3. QED
    BY <1>2, ContractSteps

LEMMA RefineSwap ==
    ASSUME IInv, NEW sca \in Scoped, NEW scb \in Scoped, Swap(sca, scb)
    PROVE  Refines
  <1>1. pointer' = [pointer EXCEPT ![sca] = pointer[scb], ![scb] = pointer[sca]] /\ slot' = slot
    BY DEF Swap
  <1>2. [x \in Scoped |-> pointer'[x]] =
           [[x \in Scoped |-> pointer[x]] EXCEPT ![sca] = pointer[scb], ![scb] = pointer[sca]]
    BY <1>1, ScopedFacts
  <1>3. Contract!Swap(sca, scb)
    BY <1>1, <1>2 DEF Contract!Swap
  <1>4. QED
    BY <1>3, ContractSteps

LEMMA RefineRelease ==
    ASSUME IInv, NEW sc \in Scoped, NEW c \in Conn, Release(sc, c)
    PROVE  Refines
  <1>1. pointer' = [pointer EXCEPT ![sc] = Null, ![c] = pointer[sc]] /\ slot' = slot
    BY DEF Release
  <1>2. [x \in Scoped |-> pointer'[x]] = [[x \in Scoped |-> pointer[x]] EXCEPT ![sc] = Null]
    BY <1>1, ScopedFacts
  <1>3. Contract!Release(sc)
    BY <1>1, <1>2 DEF Contract!Release
  <1>4. QED
    BY <1>3, ContractSteps

LEMMA RefineAssign ==
    ASSUME IInv, NEW sc \in Scoped, NEW c \in Conn, Assign(sc, c)
    PROVE  Refines
  <1> DEFINE temp == Len(stack) + 1
  <1>1. /\ Len(stack) < MaxStack
        /\ pointer' = [pointer EXCEPT ![temp] = pointer[c]]
        /\ Disconnect(sc, Append(stack, Fr("assign", sc, temp)))
    BY DEF Assign
  <1>2. temp \in Temp
    BY <1>1, ScopedFacts, LenProperties, ConnectionAssumption DEF Temp
  <1> HIDE DEF temp
  <1>3. CareKept
    BY <1>1, <1>2, ScopedFacts DEF CareKept
  <1>4. sc \in Pointer
    BY DEF Pointer
  <1>5. QED
    BY <1>1, <1>2, <1>3, <1>4, NewFrames, Fields, RefineBegin

LEMMA RefineMoveAssign ==
    ASSUME IInv, NEW sc \in Scoped, NEW from \in Scoped, MoveAssign(sc, from)
    PROVE  Refines
  BY NewFrames, Fields, RefineBegin DEF MoveAssign, CareKept, Pointer

LEMMA RefineEndScoped ==
    ASSUME IInv, NEW sc \in Scoped, EndScoped(sc)
    PROVE  Refines
  BY NewFrames, Fields, RefineBegin DEF EndScoped, CareKept, Pointer

LEMMA RefineUser ==
    ASSUME IInv, UserOperation
    PROVE  Refines
  <1>1. ASSUME NEW c \in Conn, NEW p \in Conn \cup {Null}, CopyConn(c, p)
        PROVE  Refines
    <2>1. slot' = slot
          /\ pointer' = [pointer EXCEPT ![c] = IF p = Null THEN Null ELSE pointer[p]]
      BY <1>1 DEF CopyConn
    <2>2. CareKept
      BY <2>1, ScopedFacts DEF CareKept
    <2>3. QED
      BY <2>1, <2>2 DEF Refines, ConnectedKept
  <1>2. ASSUME NEW p \in Conn \cup Usable, DisconnectSlot(p)
        PROVE  Refines
    <2>1. p \in Pointer
      BY ScopedFacts DEF Usable
    <2>2. QED
      BY <1>2, <2>1, ScopedFacts, RefineDisconnect DEF DisconnectSlot, CareKept, IInv
  <1>3. ASSUME NEW s \in Slot, Sweep(s)
        PROVE  Refines
    <2>1. slot[s] = "invalid" /\ slot' = [slot EXCEPT ![s] = "dying"] /\ pointer' = pointer
      BY <1>3 DEF Sweep
    <2>2. ConnectedKept
      BY <2>1 DEF ConnectedKept, IInv, TypeOK
    <2>3. QED
      BY <2>1, <2>2 DEF Refines, CareKept
  <1>4. QED
    BY <1>1, <1>2, <1>3, RefineConnect, RefineNew, RefineMoveScoped, RefineSwap,
       RefineRelease, RefineAssign, RefineMoveAssign, RefineEndScoped DEF UserOperation

LEMMA RefineErased ==
    ASSUME IInv, Erased
    PROVE  Refines
  <1> DEFINE S == {sc \in Scoped : pointer[sc] = Top.of}
  <1>1. /\ stack # <<>> /\ Top.op = "erase" /\ stack' = Caller
        /\ slot' = [slot EXCEPT ![Top.of] = "gone"]
        /\ pointer' = [p \in Pointer |-> IF pointer[p] = Top.of THEN Null ELSE pointer[p]]
    BY DEF Erased, TopIs
  <1>2. Top.of \in Slot /\ slot[Top.of] = "dying"
    BY <1>1, PopKeeps, FrameFacts
  <1>3. ConnectedKept
    BY <1>1, <1>2 DEF ConnectedKept, IInv, TypeOK
  <1>4. /\ \A x \in S : slot[pointer[x]] # "valid"
        /\ \A x \in Scoped : pointer'[x] = IF x \in S THEN Null ELSE pointer[x]
        /\ S \in SUBSET Scoped
    BY <1>1, <1>2 DEF Pointer
  <1> HIDE DEF S
  <1>5. PICK R \in SUBSET Scoped : R = S
    BY <1>4
  <1>6. Contract!Forget(R)
    BY <1>3, <1>4, <1>5, RefineForget
  <1>7. QED
    BY <1>6, ContractSteps

LEMMA RefineAssigning ==
    ASSUME IInv, ~TouchAssigned, Assigning
    PROVE  Refines
  <1> DEFINE q == pointer[Top.with]
  <1>1. /\ stack # <<>> /\ Top.op = "assign" /\ slot' = slot
        /\ pointer' = [pointer EXCEPT ![Top.with] = Null, ![Top.of] = q]
    BY DEF Assigning, TopIs
  <1>2. Top.of \in Scoped /\ Top.with \in Temp
    BY <1>1, PopFacts, ScopedFacts, FrameFacts
  <1>3. /\ q \in Slot \cup {Null}
        /\ \A x \in Scoped : pointer'[x] = IF x = Top.of THEN q ELSE pointer[x]
    BY <1>1, <1>2, ScopedFacts
  <1>4. pointer[Top.of] = Null \/ slot[pointer[Top.of]] # "valid"
    BY <1>1, TopLeft
  <1>5. ConnectedKept
    BY <1>1 DEF ConnectedKept
  <1> HIDE DEF q
  <1>6. PICK sc \in Scoped : sc = Top.of
    BY <1>2
  <1>7. PICK s \in Slot \cup {Null} : s = q
    BY <1>3
  <1>8. Contract!Take(sc, s)
    BY <1>3, <1>4, <1>5, <1>6, <1>7, RefineTake
  <1>9. QED
    BY <1>8, ContractSteps

LEMMA RefineMoving ==
    ASSUME IInv, ~TouchAssigned, Moving
    PROVE  Refines
  <1>1. /\ stack # <<>> /\ Top.op = "move" /\ slot' = slot
        /\ pointer' = [pointer EXCEPT ![Top.with] = Null, ![Top.of] = pointer[Top.with]]
    BY DEF Moving, TopIs
  <1>2. Top.of \in Scoped /\ Top.with \in Scoped
    BY <1>1, PopFacts, ScopedFacts, FrameFacts
  <1>3. \A x \in Scoped : pointer'[x] = IF x = Top.of THEN pointer[Top.with]
                                        ELSE IF x = Top.with THEN Null ELSE pointer[x]
    BY <1>1, <1>2, ScopedFacts
  <1>4. pointer[Top.of] = Null \/ slot[pointer[Top.of]] # "valid"
    BY <1>1, TopLeft
  <1>5. ConnectedKept
    BY <1>1 DEF ConnectedKept
  <1>6. PICK sc \in Scoped : sc = Top.of
    BY <1>2
  <1>7. PICK from \in Scoped : from = Top.with
    BY <1>2
  <1>8. Contract!Move(sc, from)
    BY <1>3, <1>4, <1>5, <1>6, <1>7, RefineMove
  <1>9. QED
    BY <1>8, ContractSteps

LEMMA RefineEnded ==
    ASSUME IInv, ~TouchAssigned, Ended
    PROVE  Refines
  <1>1. /\ stack # <<>> /\ Top.op = "dtor" /\ slot' = slot
        /\ pointer' = [pointer EXCEPT ![Top.of] = Null]
    BY DEF Ended, TopIs
  <1>2. Top.of \in Scoped
    BY <1>1, PopFacts, ScopedFacts, FrameFacts
  <1>3. \A x \in Scoped : pointer'[x] = IF x \in {Top.of} THEN Null ELSE pointer[x]
    BY <1>1, <1>2, ScopedFacts
  <1>4. pointer[Top.of] = Null \/ slot[pointer[Top.of]] # "valid"
    BY <1>1, TopLeft
  <1>5. ConnectedKept
    BY <1>1 DEF ConnectedKept
  <1>6. PICK S \in SUBSET Scoped : S = {Top.of}
    BY <1>2
  <1>7. Contract!Forget(S)
    BY <1>3, <1>4, <1>5, <1>6, RefineForget
  <1>8. QED
    BY <1>7, ContractSteps

\* If user code leaves alone what is being assigned to, scoped connections do
\* what their class promises: a slot in the care of one is disconnected when
\* the object is destroyed or assigned to, and passes on alive only by a move,
\* a swap or release(). (scoped_connection.h:25-78)
THEOREM Implementation == ~TouchAssigned /\ Spec => ImplementsContract
  <1>1. SUFFICES ASSUME ~TouchAssigned
                 PROVE  Spec => Contract!Spec
    BY DEF ImplementsContract
  <1>2. Init => Contract!Init
    BY ConnectionAssumption DEF Init, Contract!Init, Pointer
  <1>3. ASSUME IInv, Next
        PROVE  Refines
    BY <1>1, <1>3, RefineUser, RefineErased, RefineAssigning, RefineMoving, RefineEnded
       DEF Next
  <1>4. Refines => [Contract!Next]_(Contract!vars)
    BY DEF Refines, CareKept, ConnectedKept, Contract!vars
  <1>5. UNCHANGED vars => [Contract!Next]_(Contract!vars)
    BY DEF vars, Contract!vars
  <1>6. IInv /\ [Next]_vars => [Contract!Next]_(Contract!vars)
    BY <1>3, <1>4, <1>5
  <1>7. QED
    BY <1>2, <1>6, InductiveInvariant, PTL DEF Spec, Contract!Spec

=============================================================================
