------------------------------- MODULE Emission -------------------------------
(***************************************************************************)
(* Emissions that return something (signal.h): with an accumulator, which  *)
(* is user code that steps through the slots with slot_iterator_bufs, and  *)
(* without one, when the result of the last slot is returned.              *)
(*                                                                         *)
(* The functors that are executed block and disconnect slots of the list;  *)
(* module Signal shows that the list itself stays in order meanwhile.      *)
(***************************************************************************)
EXTENDS Integers

CONSTANTS
    N,      \* the number of slots in front of the placeholder
    Iter,   \* bound: the iterators that an accumulator has at a time
    Void    \* whether the slots return nothing

Slot == 1 .. N
End == N + 1        \* the placeholder
Emit == "emit"      \* emit() without an accumulator
None == "none"

ASSUME EmissionAssumption ==
    N \in Nat \ {0} /\ Void \in BOOLEAN /\ Emit \notin Iter /\ None \notin Iter

Default == 0        \* T_return()
Uninitialised == -1
Nothing == -2       \* what void functions return

\* What the functor of s returns: the properties are about whose result it is.
Result(s) == IF Void THEN Nothing ELSE s

VARIABLES
    mode,       \* None, "accumulate", or Emit: the emission in progress
    gone,       \* the slots that are empty
    blocked,    \* the slots that are blocked
    iter,       \* the iterators of the accumulator
    running,    \* who executes a slot: an iterator, Emit, or None
    it, r_,     \* the local variables of emit() without an accumulator
    returned,   \* history: the result of the last operator*, or of emit()
    executed,   \* history: how often a functor has returned to each iterator
                \* since it stands where it is
    ran,        \* history: the slots that emit() has executed
    away        \* history: the slots that were not callable all the time

history == <<returned, executed, ran, away>>
vars == <<mode, gone, blocked, iter, running, it, r_, history>>

\* A slot_iterator_buf; what is not an iterator at the time has i = 0.
TypeOK ==
    /\ mode \in {None, "accumulate", Emit}
    /\ gone \subseteq Slot /\ blocked \subseteq Slot
    /\ ran \subseteq Slot /\ away \subseteq Slot
    /\ iter \in [Iter -> [i : 0 .. End, r : Slot \cup {Uninitialised, Nothing},
                          invoked : BOOLEAN]]
    /\ running \in Iter \cup {Emit, None}
    /\ running \in Iter => mode = "accumulate" /\ iter[running].i \in Slot
    /\ running = Emit => mode = Emit /\ it \in Slot
    /\ it \in 1 .. End
    /\ r_ \in Slot \cup {Default, Nothing}
    /\ returned \in [at : 0 .. End, value : -2 .. N]
    /\ executed \in [Iter -> Nat]

Buffer(i, r, invoked) == [i |-> i, r |-> r, invoked |-> invoked]

NoIterator == Buffer(0, Uninitialised, FALSE)

Callable(s) == s \notin gone \cup blocked

Init ==
    /\ mode = None /\ running = None
    /\ gone = {} /\ blocked = {}
    /\ iter = [b \in Iter |-> NoIterator]
    /\ it = End /\ r_ = Default
    /\ returned = [at |-> 0, value |-> Nothing]
    /\ executed = [b \in Iter |-> 0]
    /\ ran = {} /\ away = {}

\* An emission of the kind m begins with any of the slots empty or blocked.
\* If the signal was never used it has no signal_impl, and no slot is there.
Begin(m, used) ==
    /\ mode = None
    /\ mode' = m
    /\ gone' \in IF used THEN SUBSET Slot ELSE {Slot}
    /\ blocked' \in SUBSET Slot
    /\ away' = gone' \cup blocked'
    /\ ran' = {}
    /\ returned' = [at |-> 0, value |-> Nothing]
    /\ UNCHANGED running

\* The functor that is executed blocks, unblocks and disconnects slots.
UserChanges ==
    /\ running # None
    /\ \/ \E s \in Slot \ gone : gone' = gone \cup {s} /\ UNCHANGED blocked
       \/ \E s \in Slot : blocked' \in {blocked \cup {s}, blocked \ {s}} /\ UNCHANGED gone
    /\ away' = away \cup gone' \cup blocked'
    /\ UNCHANGED <<mode, iter, running, it, r_, returned, executed, ran>>

-----------------------------------------------------------------------------
(***************************************************************************)
(* With an accumulator.                                                    *)
(***************************************************************************)
\* accumulator(first, last). Without a signal_impl the iterators are equal,
\* and the accumulator does not use them.
Accumulate(first, last, used) ==
    /\ Begin("accumulate", used)
    /\ first # last
    /\ iter' = [b \in Iter |->
                  IF ~used \/ b \notin {first, last} THEN NoIterator
                  ELSE Buffer(IF b = first THEN 1 ELSE End, Uninitialised, FALSE)]
    /\ executed' = [b \in Iter |-> 0]
    /\ it' = End /\ r_' = Default

\* The accumulator uses its iterator b.
Uses(b) == mode = "accumulate" /\ running = None /\ iter[b].i # 0

Steps(b) == (1 .. End) \cap {iter[b].i - 1, iter[b].i + 1}

\* Mutant: the iterator keeps its result for the next slot.
MoveInvoked(b, to) ==
    /\ Uses(b)
    /\ to \in Steps(b)
    /\ iter' = [iter EXCEPT ![b].i = to]
    /\ executed' = [executed EXCEPT ![b] = 0]
    /\ UNCHANGED <<mode, gone, blocked, running, it, r_, returned, ran, away>>

\* operator++() and operator--()
Move(b, to) ==
    /\ Uses(b)
    /\ to \in Steps(b)
    /\ iter' = [iter EXCEPT ![b] = Buffer(to, iter[b].r, FALSE)]
    /\ executed' = [executed EXCEPT ![b] = 0]
    /\ UNCHANGED <<mode, gone, blocked, running, it, r_, returned, ran, away>>

\* operator++(int) and operator--(int) return tmp, the iterator as it was.
MovePostfix(b, tmp, to) ==
    /\ Uses(b) /\ tmp # b
    /\ to \in Steps(b)
    /\ iter' = [iter EXCEPT ![b] = Buffer(to, iter[b].r, FALSE), ![tmp] = iter[b]]
    /\ executed' = [executed EXCEPT ![b] = 0, ![tmp] = executed[b]]
    /\ UNCHANGED <<mode, gone, blocked, running, it, r_, returned, ran, away>>

\* Mutant: the result is not buffered.
DereferenceAgain(b) ==
    /\ Uses(b) /\ iter[b].i # End
    /\ IF Callable(iter[b].i)
       THEN running' = b /\ UNCHANGED returned
       ELSE /\ returned' = [at |-> iter[b].i, value |-> iter[b].r]
            /\ UNCHANGED running
    /\ UNCHANGED <<mode, gone, blocked, iter, it, r_, executed, ran, away>>

\* operator*(), up to the functor if there is one to execute.
Dereference(b) ==
    /\ Uses(b) /\ iter[b].i # End
    /\ IF Callable(iter[b].i) /\ ~iter[b].invoked
       THEN running' = b /\ UNCHANGED returned
       ELSE /\ returned' = [at |-> iter[b].i, value |-> iter[b].r]
            /\ UNCHANGED running
    /\ UNCHANGED <<mode, gone, blocked, iter, it, r_, executed, ran, away>>

SlotReturns(b) ==
    /\ running = b
    /\ LET s == iter[b].i
       IN  /\ iter' = [iter EXCEPT ![b] = Buffer(s, Result(s), TRUE)]
           /\ returned' = [at |-> s, value |-> Result(s)]
    /\ executed' = [executed EXCEPT ![b] = executed[b] + 1]
    /\ running' = None
    /\ UNCHANGED <<mode, gone, blocked, it, r_, ran, away>>

\* The accumulator may catch what the functor throws, and go on. Nothing is
\* buffered and invoked_ is not set: the next operator*() executes the slot
\* again.
SlotThrows(b) ==
    /\ running = b
    /\ running' = None
    /\ UNCHANGED <<mode, gone, blocked, iter, it, r_, history>>

AccumulatorReturns ==
    /\ mode = "accumulate" /\ running = None
    /\ mode' = None
    /\ iter' = [b \in Iter |-> NoIterator]
    /\ executed' = [b \in Iter |-> 0]
    /\ UNCHANGED <<gone, blocked, running, it, r_, returned, ran, away>>

-----------------------------------------------------------------------------
(***************************************************************************)
(* Without an accumulator.                                                 *)
(***************************************************************************)
\* emit() up to its loops; without a signal_impl it has none.
EmitBegin(used) ==
    /\ Begin(Emit, used)
    /\ it' = IF used THEN 1 ELSE End
    /\ r_' = IF Void THEN Nothing ELSE Default
    /\ UNCHANGED <<iter, executed>>

\* Mutant: the loop does not stop at the placeholder.
PastEnd == mode = Emit /\ running = None

InLoop == mode = Emit /\ running = None /\ it # End

EmitSkip ==
    /\ InLoop
    /\ ~Callable(it)
    /\ it' = it + 1
    /\ UNCHANGED <<mode, gone, blocked, iter, running, r_, history>>

EmitInvoke ==
    /\ InLoop
    /\ Callable(it)
    /\ running' = Emit
    /\ ran' = ran \cup {it}
    /\ UNCHANGED <<mode, gone, blocked, iter, it, r_, returned, executed, away>>

\* Mutant: the result of the first slot is kept.
EmitKeeps ==
    /\ running = Emit
    /\ r_' = IF ran = {it} THEN Result(it) ELSE r_
    /\ it' = it + 1
    /\ running' = None
    /\ UNCHANGED <<mode, gone, blocked, iter, history>>

EmitNext ==
    /\ running = Emit
    /\ r_' = Result(it)
    /\ it' = it + 1
    /\ running' = None
    /\ UNCHANGED <<mode, gone, blocked, iter, history>>

EmitThrows ==
    /\ running = Emit
    /\ mode' = None /\ running' = None
    /\ it' = End
    /\ UNCHANGED <<gone, blocked, iter, r_, history>>

EmitReturns ==
    /\ mode = Emit /\ running = None /\ it = End
    /\ mode' = None
    /\ returned' = [at |-> End, value |-> r_]
    /\ UNCHANGED <<gone, blocked, iter, running, it, r_, executed, ran, away>>

Next ==
    \/ \E b, other \in Iter, used \in BOOLEAN : Accumulate(b, other, used)
    \/ \E b \in Iter, to \in 1 .. End :
          \/ Move(b, to)
          \/ \E tmp \in Iter : MovePostfix(b, tmp, to)
    \/ \E b \in Iter : Dereference(b) \/ SlotReturns(b) \/ SlotThrows(b)
    \/ UserChanges \/ AccumulatorReturns
    \/ \E used \in BOOLEAN : EmitBegin(used)
    \/ EmitSkip \/ EmitInvoke \/ EmitNext \/ EmitThrows \/ EmitReturns

Spec == Init /\ [][Next]_vars

-----------------------------------------------------------------------------
(***************************************************************************)
(* Safety.                                                                 *)
(***************************************************************************)
\* "The return value is buffered, so that in an expression like (*i) * (*i)
\* the slot is executed only once" (signal.h:38-39): once a functor has returned
\* it is not executed again until the iterator moves, whatever the functors
\* block or disconnect in between, and however often it threw before that.
ExecutedOnce == \A b \in Iter : executed[b] <= 1

\* The result that operator* returns is one of the slot that the iterator
\* stands on, if that slot was callable all the time. (signal.h:65-73)
CallableGivesItsResult ==
    mode = "accumulate" /\ returned.at \in Slot \ away
        => returned.value = Result(returned.at)

\* "operator*() executes the slot. The return value is buffered." (signal.h:38)
OwnResult ==
    returned.at \in Slot => returned.value = Result(returned.at)

\* No slot is executed twice by an emission without accumulator.
RunsOnce == [][EmitInvoke => it \notin ran]_vars

\* "The return value of the last slot invoked is returned" (signal.h:287), or
\* T_return(), when every slot that was callable all the time is invoked.
EmitReturnsLast ==
    [][mode = Emit /\ returned' # returned =>
          /\ Slot \subseteq ran \cup away
          /\ returned'.value = IF Void THEN Nothing
                               ELSE IF ran = {} THEN Default
                               ELSE CHOOSE s \in ran : \A t \in ran : t <= s]_vars

=============================================================================
