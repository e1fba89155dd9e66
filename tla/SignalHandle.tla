----------------------------- MODULE SignalHandle -----------------------------
(***************************************************************************)
(* The signal objects that users hold (signal_base, signal.h): handles     *)
(* that share a signal_impl, which is created when it is first needed and  *)
(* destroyed, with its slots, when the last one that shares it is gone.    *)
(*                                                                         *)
(* Slots hold signals, too: a slot made by make_slot() refers to a signal  *)
(* object, and a slot made of a signal shares its signal_impl. Destroying  *)
(* a slot runs user code, so that anything may happen to the signals in    *)
(* the middle of an assignment. The emission is in module Signal.          *)
(***************************************************************************)
EXTENDS Integers, Sequences

CONSTANTS
    Handle,         \* signal objects of one type
    Trackable,      \* those that are trackable_signals
    Impl,           \* bound: the signal_impls that exist at the same time
    Slot,           \* bound: the slots that exist at the same time
    MaxStack,       \* bound: operations begin on a stack shorter than this
    AssignUnused    \* whether a signal without signal_impl is assigned to another

Null == "nullptr"

ASSUME HandleAssumption ==
    /\ Trackable \subseteq Handle
    /\ MaxStack \in Nat
    /\ AssignUnused \in BOOLEAN
    /\ Null \notin Impl

VARIABLES
    alive,      \* the signal objects that exist
    impl_,      \* impl_ of each of them
    life,       \* of each signal_impl: "none", "live", "dying" in its destructor
    list,       \* its slots_
    functor,    \* of each slot; None if the slot does not exist
    stack       \* the functions of the library that have not returned

vars == <<alive, impl_, life, list, functor, stack>>

Functor == [op : {"none", "plain"}, of : {Null}]
             \cup [op : {"emits"}, of : Handle]     \* make_slot()
             \cup [op : {"shares"}, of : Impl]      \* a copy of a signal

Fn(op, x) == [op |-> op, of |-> x]

None == Fn("none", Null)

(***************************************************************************)
(* The frames of the stack.                                                *)
(*   functor  the destructor of a functor, which is user code              *)
(*   clear    ~signal_impl of the object of                                *)
(*   assign   operator=(const signal_base&) of the signal of, at its end   *)
(*   take     operator=(signal_base&&) of the signal of, before the source *)
(*            with is reset                                                *)
(*   tell     the same of a trackable_signal, before the source is told    *)
(***************************************************************************)
Frame == [op : {"functor"}, of : {Null}, with : {Null}]
           \cup [op : {"clear"}, of : Impl, with : {Null}]
           \cup [op : {"assign", "take", "tell"}, of : Handle, with : Handle]

Fr(op, x, y) == [op |-> op, of |-> x, with |-> y]

Top == stack[Len(stack)]

TopIs(op) == stack # <<>> /\ Top.op = op

Caller == SubSeq(stack, 1, Len(stack) - 1)

TypeOK ==
    /\ alive \subseteq Handle
    /\ impl_ \in [Handle -> Impl \cup {Null}]
    /\ life \in [Impl -> {"none", "live", "dying"}]
    /\ list \in [Impl -> SUBSET Slot]
    /\ functor \in [Slot -> Functor]
    /\ stack \in Seq(Frame)
    /\ \A h \in Handle \ alive : impl_[h] = Null

Init ==
    /\ alive = {}
    /\ impl_ = [h \in Handle |-> Null]
    /\ life = [i \in Impl |-> "none"]
    /\ list = [i \in Impl |-> {}]
    /\ functor = [s \in Slot |-> None]
    /\ stack = <<>>

-----------------------------------------------------------------------------
UserTurn == stack # <<>> => Top.op = "functor"

\* Whether anything shares i, given the values of impl_ and functor.
Shared(i, im, fn) ==
    \/ \E h \in Handle : im[h] = i
    \/ \E s \in Slot : fn[s] = Fn("shares", i)

\* The end of a step that leaves the stack stk: it may have created the
\* signal_impl new, and one that nothing shares any more is destroyed.
Settle(new, stk) ==
    LET gone == {i \in Impl : life[i] = "live" /\ ~Shared(i, impl_', functor')}
    IN  /\ life' = [i \in Impl |-> IF i = new THEN "live"
                                   ELSE IF i \in gone THEN "dying" ELSE life[i]]
        /\ IF gone = {} THEN stack' = stk
           ELSE \E i \in gone : stack' = Append(stk, Fr("clear", i, Null))

\* impl() of h returns i, which is new if h had none.
ImplOf(h, i, new) ==
    \/ impl_[h] = i /\ i # Null /\ new = Null
    \/ impl_[h] = Null /\ i \in Impl /\ life[i] = "none" /\ new = i

\* notify_callbacks() of h: the slots whose functor emits it are disconnected
\* and their functors destroyed. One of a dying signal_impl stays in its list.
EmittersOf(h) == {s \in Slot : h \in Trackable /\ functor[s] = Fn("emits", h)}

Untracked(S) ==
    /\ functor' = [s \in Slot |-> IF s \in S THEN None ELSE functor[s]]
    /\ list' = [i \in Impl |-> IF life[i] = "live" THEN list[i] \ S ELSE list[i]]

\* The signal objects that a function further down works on are not destroyed
\* or assigned to meanwhile: the assignment of a std::shared_ptr, which it waits
\* in, is not to be entered again for the same object, nor to outlive it.
Busy == {h \in Handle : \E k \in DOMAIN stack :
            \/ stack[k].op \in {"assign", "take", "tell"} /\ h = stack[k].of
            \/ stack[k].op \in {"take", "tell"} /\ h = stack[k].with}

(***************************************************************************)
(* What user code does with signals.                                       *)
(***************************************************************************)
NewSignal(h) ==
    /\ h \notin alive
    /\ alive' = alive \cup {h}
    /\ UNCHANGED <<impl_, life, list, functor, stack>>

\* signal_base(const signal_base&)
CopySignal(h, src, i, new) ==
    /\ h \notin alive
    /\ src \in alive
    /\ ImplOf(src, i, new)
    /\ alive' = alive \cup {h}
    /\ impl_' = [impl_ EXCEPT ![src] = i, ![h] = i]
    /\ UNCHANGED <<list, functor>>
    /\ Settle(new, stack)

\* signal_base(signal_base&&), and trackable(trackable&&)
MoveSignal(h, src) ==
    /\ h \notin alive
    /\ src \in alive \ Busy
    /\ (h \in Trackable) = (src \in Trackable)
    /\ alive' = alive \cup {h}
    /\ impl_' = [impl_ EXCEPT ![src] = Null, ![h] = impl_[src]]
    /\ Untracked(EmittersOf(src))
    /\ Settle(Null, stack)

\* Mutant: trackable::operator= is called, too.
AssignTells(h, src, i, new) ==
    /\ {h, src} \subseteq alive
    /\ h \notin Busy
    /\ impl_[src] # impl_[h]
    /\ ImplOf(src, i, new)
    /\ impl_' = [impl_ EXCEPT ![src] = i, ![h] = i]
    /\ Untracked(EmittersOf(h))
    /\ UNCHANGED alive
    /\ Settle(new, Append(stack, Fr("assign", h, src)))

\* operator=(const signal_base&), up to the end of the old signal_impl
Assign(h, src, i, new) ==
    /\ {h, src} \subseteq alive
    /\ h \notin Busy
    /\ IF impl_[src] = impl_[h]
       THEN /\ impl_[h] = Null => AssignUnused
            /\ i = impl_[h] /\ new = Null
            /\ UNCHANGED impl_
       ELSE /\ ImplOf(src, i, new)
            /\ impl_' = [impl_ EXCEPT ![src] = i, ![h] = i]
    /\ UNCHANGED <<alive, list, functor>>
    /\ Settle(new, Append(stack, Fr("assign", h, src)))

\* operator=(signal_base&&), up to the end of the old signal_impl
MoveAssign(h, src) ==
    /\ {h, src} \subseteq alive \ Busy
    /\ impl_[src] # impl_[h]
    /\ impl_' = [impl_ EXCEPT ![h] = impl_[src]]
    /\ UNCHANGED <<alive, list, functor>>
    /\ Settle(Null, Append(stack, Fr("take", h, src)))

\* Mutant: the slots that emit the signal are left alone.
DestroyUntold(h) ==
    /\ h \in alive \ Busy
    /\ alive' = alive \ {h}
    /\ impl_' = [impl_ EXCEPT ![h] = Null]
    /\ UNCHANGED <<list, functor>>
    /\ Settle(Null, stack)

\* Mutant: impl_ is left as it is.
DestroyKeeps(h) ==
    /\ h \in alive \ Busy
    /\ alive' = alive \ {h}
    /\ Untracked(EmittersOf(h))
    /\ UNCHANGED <<impl_, life, stack>>

\* Mutant: the signal_impl is destroyed with any signal that shares it.
DestroyImpl(h) ==
    /\ h \in alive \ Busy
    /\ alive' = alive \ {h}
    /\ impl_' = [impl_ EXCEPT ![h] = Null]
    /\ Untracked(EmittersOf(h))
    /\ IF impl_[h] = Null THEN UNCHANGED <<life, stack>>
       ELSE /\ life' = [life EXCEPT ![impl_[h]] = "dying"]
            /\ stack' = Append(stack, Fr("clear", impl_[h], Null))

\* ~trackable, and ~signal_base
Destroy(h) ==
    /\ h \in alive \ Busy
    /\ alive' = alive \ {h}
    /\ impl_' = [impl_ EXCEPT ![h] = Null]
    /\ Untracked(EmittersOf(h))
    /\ Settle(Null, stack)

\* connect() of a slot that emits the signal g, or nothing of the kind
Connect(h, s, f, i, new) ==
    /\ h \in alive
    /\ functor[s] = None /\ \A j \in Impl : s \notin list[j]
    /\ f.op = "emits" => f.of \in alive
    /\ ImplOf(h, i, new)
    /\ impl_' = [impl_ EXCEPT ![h] = i]
    /\ list' = [list EXCEPT ![i] = list[i] \cup {s}]
    /\ functor' = [functor EXCEPT ![s] = f]
    /\ UNCHANGED alive
    /\ Settle(new, stack)

\* connect(g): the slot shares the signal_impl of a signal that has been used.
ConnectCopy(h, s, g) ==
    /\ {g, h} \subseteq alive
    /\ impl_[g] # Null /\ impl_[h] # Null
    /\ functor[s] = None /\ \A j \in Impl : s \notin list[j]
    /\ list' = [list EXCEPT ![impl_[h]] = list[impl_[h]] \cup {s}]
    /\ functor' = [functor EXCEPT ![s] = Fn("shares", impl_[g])]
    /\ UNCHANGED <<alive, impl_>>
    /\ Settle(Null, stack)

\* The functor of s is destroyed.
Dropped(s, stk) ==
    /\ functor' = [functor EXCEPT ![s] = None]
    /\ Settle(Null, IF functor[s] = Fn("plain", Null)
                    THEN Append(stk, Fr("functor", Null, Null)) ELSE stk)

Disconnect(i, s) ==
    /\ life[i] = "live" /\ s \in list[i]
    /\ list' = [list EXCEPT ![i] = list[i] \ {s}]
    /\ UNCHANGED <<alive, impl_>>
    /\ Dropped(s, stack)

UserOperation ==
    /\ UserTurn
    /\ Len(stack) < MaxStack
    /\ \/ \E h \in Handle : NewSignal(h) \/ Destroy(h)
       \/ \E h, src \in Handle : MoveSignal(h, src) \/ MoveAssign(h, src)
       \/ \E h, src \in Handle, i, new \in Impl \cup {Null} :
             CopySignal(h, src, i, new) \/ Assign(h, src, i, new)
       \/ \E h \in Handle, s \in Slot, i \in Impl, new \in Impl \cup {Null} :
             \E f \in {Fn("plain", Null)} \cup {Fn("emits", g) : g \in Handle} :
                Connect(h, s, f, i, new)
       \/ \E h, g \in Handle, s \in Slot : ConnectCopy(h, s, g)
       \/ \E i \in Impl, s \in Slot : Disconnect(i, s)

(***************************************************************************)
(* The functions go on when user code returns.                             *)
(***************************************************************************)
Returns ==
    /\ TopIs("functor") \/ TopIs("assign")
    /\ stack' = Caller
    /\ UNCHANGED <<alive, impl_, life, list, functor>>

\* Mutant: the list is freed without the functors.
ClearAtOnce(s) ==
    /\ TopIs("clear")
    /\ s \in list[Top.of]
    /\ list' = [list EXCEPT ![Top.of] = {}]
    /\ UNCHANGED <<alive, impl_, life, functor, stack>>

\* slots_.clear() in ~signal_impl, slot by slot
ClearSlot(s) ==
    /\ TopIs("clear")
    /\ s \in list[Top.of]
    /\ list' = [list EXCEPT ![Top.of] = list[Top.of] \ {s}]
    /\ UNCHANGED <<alive, impl_>>
    /\ Dropped(s, stack)

Cleared ==
    /\ TopIs("clear")
    /\ list[Top.of] = {}
    /\ life' = [life EXCEPT ![Top.of] = "none"]
    /\ stack' = Caller
    /\ UNCHANGED <<alive, impl_, list, functor>>

\* src.impl_ = nullptr, after the old signal_impl of the target is released
Taken ==
    /\ TopIs("take")
    /\ impl_' = [impl_ EXCEPT ![Top.with] = Null]
    /\ UNCHANGED <<alive, list, functor>>
    /\ Settle(Null, Append(Caller, Fr("tell", Top.of, Top.with)))

\* src.notify_callbacks() of a trackable_signal
Told ==
    /\ TopIs("tell")
    /\ Untracked(IF impl_[Top.with] # impl_[Top.of] THEN EmittersOf(Top.with) ELSE {})
    /\ stack' = Caller
    /\ UNCHANGED <<alive, impl_, life>>

Next ==
    \/ UserOperation
    \/ Returns \/ Cleared \/ Taken \/ Told
    \/ \E s \in Slot : ClearSlot(s)

Spec == Init /\ [][Next]_vars

-----------------------------------------------------------------------------
(***************************************************************************)
(* Safety.                                                                 *)
(***************************************************************************)
\* No slot emits a trackable_signal that is gone. (signal.h:495-505)
NoDanglingSignal ==
    \A s \in Slot : functor[s] \in [op : {"emits"}, of : Trackable]
        => functor[s].of \in alive

\* A signal_impl lives as long as something shares it, its destructor runs
\* once, and only what is on the stack is being destroyed.
ImplLifetime ==
    \A i \in Impl :
        /\ Shared(i, impl_, functor) <=> life[i] = "live"
        /\ life[i] = "dying" <=> \E k \in DOMAIN stack : stack[k] = Fr("clear", i, Null)
        /\ \A k, l \in DOMAIN stack :
              stack[k] = Fr("clear", i, Null) /\ stack[l] = stack[k] => k = l

\* Every slot that has a functor is in one list, and no list is of the dead:
\* the functors go with the last signal.
NoLostSlot ==
    \A s \in Slot :
        /\ functor[s] # None => \E i \in Impl : s \in list[i]
        /\ \A i, j \in Impl : s \in list[i] \cap list[j] => i = j
        /\ \A i \in Impl : s \in list[i] => life[i] # "none"

\* "When a signal object is copied [...] both signal objects then refer to the
\* same signal_impl object" (signal_base.h:314-318), which they keep until one
\* of them is assigned to, moved or destroyed.
CopiesShare ==
    [][\A h, src \in Handle, i, new \in Impl \cup {Null} :
          h # src /\ (Assign(h, src, i, new) \/ CopySignal(h, src, i, new))
             => impl_'[h] # Null /\ impl_'[h] = impl_'[src]]_vars

\* "The signal's slots are not disconnected until both the signal and its
\* clone are destroyed" (signal.h:380-383), unless that is asked for, or the
\* signal that they emit is destroyed or moved from.
SlotsStay ==
    [][\A i \in Impl : life[i] = "live" /\ life'[i] = "live" =>
          \A s \in list[i] \ list'[i] :
             \/ Disconnect(i, s)
             \/ \E g \in Trackable :
                   /\ functor[s] = Fn("emits", g)
                   /\ \/ Destroy(g)
                      \/ \E h \in Handle : MoveSignal(h, g)
                      \/ TopIs("tell") /\ Top.with = g]_vars

=============================================================================
