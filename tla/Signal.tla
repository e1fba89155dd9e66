------------------------------- MODULE Signal -------------------------------
(***************************************************************************)
(* One sigc::internal::signal_impl (signal_base.h, signal_base.cc), the    *)
(* slots in its list, and the emissions that walk the list (signal_emit    *)
(* and temp_slot_list in signal.h).                                        *)
(*                                                                         *)
(* libsigc++ runs in one thread. What is hard about it is re-entrancy: the *)
(* library calls functors, and destructors of functors, that may call any  *)
(* operation of the signal they are called from. The model therefore keeps *)
(* the call stack. A frame of the stack is a function of the library that  *)
(* has begun and not yet returned; the functions that call no user code    *)
(* run to their end in one action.                                         *)
(***************************************************************************)
EXTENDS Integers, Sequences, SequencesExt, FiniteSets, Functions, Selection

CONSTANTS
    Slot,               \* the slots; each is connected at most once
    Owner,              \* the slots whose functor holds a copy of the signal
    EmptySlot,          \* the slots that have no rep when they are connected
    MaxStack,           \* bound: emissions begin on a stack shorter than this
    MaxHandles,         \* bound: the signal objects outside of functors
    CallerKeepsHandle   \* whether the signal object that clear() is called on
                        \* is kept alive by its user during the call

ASSUME SlotAssumption ==
    /\ Owner \subseteq Slot
    /\ EmptySlot \subseteq Slot \ Owner
    /\ Slot \cap Int = {}

ASSUME BoundAssumption ==
    /\ MaxStack \in Nat
    /\ MaxHandles \in Nat
    /\ CallerKeepsHandle \in BOOLEAN

\* The placeholder of the emission at depth d of the stack is the mark d.
Mark == 1 .. MaxStack
Node == Slot \cup Mark
End == 0                    \* slots_.end()

VARIABLES
    slots,      \* slots_: slots and placeholders
    exec,       \* exec_count_
    deferred,   \* deferred_
    call,       \* the slots whose rep_->call_ is not null
    parent,     \* the slots whose rep_->parent_ is not null
    blocked,    \* the nodes whose blocked_ is true
    rep,        \* rep_: "none" before the connection, "live", or "freed"
    functor,    \* functor_: "none", "held", or "dying" in its destructor
    handles,    \* the signal objects whose impl_ is this signal_impl
    impl,       \* the signal_impl: "live", "dying" in its destructor, "dead"
    stack,      \* the functions of the library that have not returned
    invalidated \* history: the live slots that a trackable has invalidated

vars == <<slots, exec, deferred, call, parent, blocked, rep, functor,
          handles, impl, stack, invalidated>>

(***************************************************************************)
(* The frames of the stack.                                                *)
(*   emit     signal_emit::emit; at is its iterator, running tells that it *)
(*            is executing the functor of the slot at that iterator        *)
(*   sweep    signal_impl::sweep; at is its iterator                       *)
(*   erase    the notification that erases the slot from the list          *)
(*   clear    signal_impl::clear, called by signal_base::clear             *)
(*   dtor     signal_impl::clear, called by ~signal_impl                   *)
(*   notify   slot_rep::notify_slot_rep_invalidated of the slot at         *)
(*   destroy  the destructor of the functor of the slot at, called by      *)
(*            slot_rep::destroy                                            *)
(*   delete   the same, called by ~slot_rep: the rep is freed afterwards   *)
(***************************************************************************)
Holder == {"emit", "sweep", "erase", "clear", "dtor"}
FunctorDtor == {"destroy", "delete"}

Frame == [op      : Holder \cup FunctorDtor \cup {"notify"},
          at      : Node \cup {End},
          running : BOOLEAN]

Call(op, n) == [op |-> op, at |-> n, running |-> FALSE]

Top == stack[Len(stack)]

TopIs(op) == stack # <<>> /\ Top.op = op

Caller == SubSeq(stack, 1, Len(stack) - 1)

Push(f) == Append(stack, f)

Continue(f) == Append(Caller, f)

\* Every variable has a value of its type; exec_count_ is never negative.
TypeOK ==
    /\ slots \in Seq(Node)
    /\ exec \in Nat
    /\ deferred \in BOOLEAN
    /\ call \subseteq Slot
    /\ parent \subseteq Slot
    /\ blocked \subseteq Node
    /\ rep \in [Slot -> {"none", "live", "freed"}]
    /\ functor \in [Slot -> {"none", "held", "dying"}]
    /\ handles \in Nat
    /\ impl \in {"live", "dying", "dead"}
    /\ stack \in Seq(Frame)
    /\ invalidated \subseteq Slot

-----------------------------------------------------------------------------
(***************************************************************************)
(* The list of slots.                                                      *)
(***************************************************************************)
Listed == ToSet(slots)

PositionOf(n) == CHOOSE i \in DOMAIN slots : slots[i] = n

First(list) == IF list = <<>> THEN End ELSE list[1]

Successor(n) ==
    IF PositionOf(n) = Len(slots) THEN End ELSE slots[PositionOf(n) + 1]

Without(n) == RemoveAt(slots, PositionOf(n))

\* slot_base::empty(): a placeholder has no rep_.
Empty(n) == n \notin call

(***************************************************************************)
(* Who may act.                                                            *)
(***************************************************************************)
\* User code runs between the calls of the library, in a functor and in the
\* destructor of a functor.
UserTurn ==
    \/ stack = <<>>
    \/ TopIs("emit") /\ Top.running
    \/ \E op \in FunctorDtor : TopIs(op)

\* The signal may only be used through a signal object.
HasHandle == handles > 0 \/ \E s \in Owner : functor[s] # "none"

\* A std::list must not be used by the destructors of the elements that its
\* clear() or its destructor destroys.
ListBusy == \E i \in DOMAIN stack : stack[i].op \in {"clear", "dtor"}

\* Mutant: the notification erases with a plain pointer to the signal_impl.
EraseKeepsNothing(f) == f.op \in {"emit", "sweep"}

\* The frames that hold a std::shared_ptr to the signal_impl.
KeepsImpl(f) ==
    \/ f.op \in {"emit", "sweep", "erase"}
    \/ f.op = "clear" /\ CallerKeepsHandle

\* The use count of the signal_impl is zero.
Orphaned ==
    /\ impl = "live"
    /\ ~HasHandle
    /\ \A i \in DOMAIN stack : ~KeepsImpl(stack[i])

Init ==
    /\ slots = <<>>
    /\ exec = 0
    /\ deferred = FALSE
    /\ call = {}
    /\ parent = {}
    /\ blocked = {}
    /\ rep = [s \in Slot |-> "none"]
    /\ functor = [s \in Slot |-> "none"]
    /\ handles = 1
    /\ impl = "live"
    /\ stack = <<>>
    /\ invalidated = {}

(***************************************************************************)
(* Helpers shared by the functions of the library.                         *)
(***************************************************************************)

\* Mutant: sweep() does not raise exec again for its own loop.
SweepUncounted(list) ==
    /\ exec' = exec - 1
    /\ IF exec = 1 /\ deferred
       THEN stack' = Continue(Call("sweep", First(list))) /\ deferred' = FALSE
       ELSE stack' = Caller /\ UNCHANGED deferred

\* The end of an exec holder, when the list of slots is list. sweep() runs
\* inside the destructor of the holder, and takes its place on the stack.
Release(list) ==
    IF exec = 1 /\ deferred
    THEN /\ stack' = Continue(Call("sweep", First(list)))
         /\ deferred' = FALSE
         /\ UNCHANGED exec
    ELSE /\ stack' = Caller
         /\ exec' = exec - 1
         /\ UNCHANGED deferred

\* The rep is gone, and with it what the list node says of the slot.
Free(s) ==
    /\ rep' = [rep EXCEPT ![s] = "freed"]
    /\ blocked' = blocked \ {s}
    /\ invalidated' = invalidated \ {s}

\* delete rep_, called from a function whose call stack is then stk. The
\* functor is destroyed first, unless it is destroyed already or the
\* destructor of its owner is being executed further down the stack.
DeleteRep(s, stk) ==
    /\ call' = call \ {s}
    /\ IF functor[s] = "held"
       THEN /\ functor' = [functor EXCEPT ![s] = "dying"]
            /\ stack' = Append(stk, Call("delete", s))
            /\ UNCHANGED <<rep, blocked, invalidated>>
       ELSE /\ Free(s)
            /\ stack' = stk
            /\ UNCHANGED functor

\* Mutant: the slot is erased even if an emission is in progress.
EraseAtOnce(s, stk) ==
    LET notified == s \in parent /\ impl = "live"
    IN  /\ parent' = parent \ {s}
        /\ UNCHANGED deferred
        /\ IF notified
           THEN /\ exec' = exec + 1
                /\ slots' = Without(s)
                /\ DeleteRep(s, Append(stk, Call("erase", s)))
           ELSE /\ call' = call \ {s}
                /\ stack' = stk
                /\ UNCHANGED <<slots, exec, blocked, rep, functor, invalidated>>

\* Mutant: nobody is told that a removal has been put off.
ForgetDeferred(s, stk) ==
    LET notified == s \in parent /\ impl = "live"
    IN  /\ parent' = parent \ {s}
        /\ UNCHANGED deferred
        /\ IF notified /\ exec = 0
           THEN /\ exec' = exec + 1
                /\ slots' = Without(s)
                /\ DeleteRep(s, Append(stk, Call("erase", s)))
           ELSE /\ call' = call \ {s}
                /\ stack' = stk
                /\ UNCHANGED <<slots, exec, blocked, rep, functor, invalidated>>

\* slot_rep::disconnect, called from a function whose call stack is then stk.
\* A parent that is still alive erases the slot, or defers that to sweep().
DisconnectRep(s, stk) ==
    LET notified == s \in parent /\ impl = "live"
    IN  /\ parent' = parent \ {s}
        /\ IF notified /\ exec = 0
           THEN /\ exec' = exec + 1
                /\ slots' = Without(s)
                /\ DeleteRep(s, Append(stk, Call("erase", s)))
                /\ UNCHANGED deferred
           ELSE /\ call' = call \ {s}
                /\ deferred' = (deferred \/ notified)
                /\ stack' = stk
                /\ UNCHANGED <<slots, exec, blocked, rep, functor, invalidated>>

-----------------------------------------------------------------------------
(***************************************************************************)
(* What user code does.                                                    *)
(***************************************************************************)

\* Mutant: the new slot is put in front of the placeholder of an emission.
ConnectInFront(s) ==
    /\ HasHandle
    /\ ~ListBusy
    /\ rep[s] = "none"
    /\ slots' = IF slots # <<>> /\ Last(slots) \in Mark
                THEN Front(slots) \o <<s, Last(slots)>>
                ELSE Append(slots, s)
    /\ parent' = parent \cup {s}
    /\ rep' = [rep EXCEPT ![s] = "live"]
    /\ call' = call \cup {s}
    /\ functor' = [functor EXCEPT ![s] = "held"]
    /\ UNCHANGED <<exec, deferred, blocked, handles, impl, stack, invalidated>>

\* connect() and connect_first() of a slot that is blocked, or is not; a copy
\* of an empty slot is blocked too if the original is. A slot that is empty
\* gets a rep only when insert() sets its parent.
Connect(s) ==
    /\ HasHandle
    /\ ~ListBusy
    /\ rep[s] = "none"
    /\ slots' \in {Append(slots, s), <<s>> \o slots}
    /\ parent' = parent \cup {s}
    /\ rep' = [rep EXCEPT ![s] = "live"]
    /\ blocked' \in {blocked, blocked \cup {s}}
    /\ IF s \in EmptySlot
       THEN UNCHANGED <<call, functor>>
       ELSE /\ call' = call \cup {s}
            /\ functor' = [functor EXCEPT ![s] = "held"]
    /\ UNCHANGED <<exec, deferred, handles, impl, stack, invalidated>>

\* connection::disconnect(), for as long as the rep lives.
Disconnect(s) ==
    /\ rep[s] = "live"
    /\ DisconnectRep(s, stack)
    /\ UNCHANGED <<handles, impl>>

\* A trackable that the functor refers to dies, is moved or overwritten.
Invalidate(s) ==
    /\ rep[s] = "live"
    /\ functor[s] = "held"
    /\ DisconnectRep(s, Push(Call("notify", s)))
    /\ UNCHANGED <<handles, impl>>

\* connection::block()
Block(s) ==
    /\ rep[s] = "live"
    /\ blocked' \in {blocked \cup {s}, blocked \ {s}}
    /\ UNCHANGED <<slots, exec, deferred, call, parent, rep, functor, handles,
                   impl, stack, invalidated>>

\* signal_base::block(): the placeholders are blocked as well.
BlockAll ==
    /\ HasHandle
    /\ ~ListBusy
    /\ blocked' \in {blocked \cup Listed, blocked \ Listed}
    /\ UNCHANGED <<slots, exec, deferred, call, parent, rep, functor, handles,
                   impl, stack, invalidated>>

\* Mutant: the list is cleared at once, by an emission too.
ClearDuringEmission ==
    /\ HasHandle
    /\ ~ListBusy
    /\ call' = call \ Listed
    /\ parent' = parent \ Listed
    /\ exec' = exec + 1
    /\ stack' = Push(Call("clear", End))
    /\ UNCHANGED <<slots, deferred, blocked, rep, functor, handles, impl,
                   invalidated>>

\* Mutant: the slots are not disconnected before they are deleted.
ClearWithoutDisconnect ==
    /\ HasHandle
    /\ ~ListBusy
    /\ exec = 0
    /\ exec' = exec + 1
    /\ stack' = Push(Call("clear", End))
    /\ UNCHANGED <<slots, deferred, call, parent, blocked, rep, functor, handles,
                   impl, invalidated>>

\* signal_base::clear(). The slots notify the signal while exec is raised.
\* During an emission the list is left to sweep().
Clear ==
    /\ HasHandle
    /\ ~ListBusy
    /\ call' = call \ Listed
    /\ parent' = parent \ Listed
    /\ IF exec > 0
       THEN /\ deferred' = (deferred \/ Listed \cap parent # {})
            /\ UNCHANGED <<exec, stack>>
       ELSE /\ exec' = exec + 1
            /\ stack' = Push(Call("clear", End))
            /\ UNCHANGED deferred
    /\ UNCHANGED <<slots, blocked, rep, functor, handles, impl, invalidated>>

\* signal::emit(): the placeholder is the end of the list for this emission.
Emit ==
    /\ HasHandle
    /\ ~ListBusy
    /\ slots # <<>>
    /\ Len(stack) < MaxStack
    /\ slots' = Append(slots, Len(stack) + 1)
    /\ exec' = exec + 1
    /\ stack' = Push(Call("emit", First(slots)))
    /\ UNCHANGED <<deferred, call, parent, blocked, rep, functor, handles, impl,
                   invalidated>>

\* The signal object is copied.
CopyHandle ==
    /\ HasHandle
    /\ handles < MaxHandles
    /\ handles' = handles + 1
    /\ UNCHANGED <<slots, exec, deferred, call, parent, blocked, rep, functor,
                   impl, stack, invalidated>>

\* A signal object is destroyed, moved from or assigned to.
DropHandle ==
    /\ handles > 0
    /\ handles' = handles - 1
    /\ UNCHANGED <<slots, exec, deferred, call, parent, blocked, rep, functor,
                   impl, stack, invalidated>>

UserOperation ==
    /\ UserTurn
    /\ \/ \E s \in Slot : Connect(s) \/ Disconnect(s) \/ Invalidate(s) \/ Block(s)
       \/ BlockAll \/ Clear \/ Emit
       \/ CopyHandle \/ DropHandle

-----------------------------------------------------------------------------
(***************************************************************************)
(* Emission.                                                               *)
(***************************************************************************)
Emitting == TopIs("emit") /\ ~Top.running

\* The placeholder of the emission at the top of the stack.
TopMark == Len(stack)

EmitSkip ==
    /\ Emitting
    /\ Top.at # TopMark
    /\ Empty(Top.at) \/ Top.at \in blocked
    /\ stack' = Continue(Call("emit", Successor(Top.at)))
    /\ UNCHANGED <<slots, exec, deferred, call, parent, blocked, rep, functor,
                   handles, impl, invalidated>>

\* Mutant: only empty slots are skipped.
InvokeBlocked ==
    /\ Emitting
    /\ Top.at # TopMark
    /\ ~Empty(Top.at)
    /\ stack' = Continue([Top EXCEPT !.running = TRUE])
    /\ UNCHANGED <<slots, exec, deferred, call, parent, blocked, rep, functor,
                   handles, impl, invalidated>>

EmitInvoke ==
    /\ Emitting
    /\ Top.at # TopMark
    /\ ~Empty(Top.at)
    /\ Top.at \notin blocked
    /\ stack' = Continue([Top EXCEPT !.running = TRUE])
    /\ UNCHANGED <<slots, exec, deferred, call, parent, blocked, rep, functor,
                   handles, impl, invalidated>>

\* ~temp_slot_list, then ~signal_impl_holder.
EmitEnd ==
    /\ Emitting
    /\ Top.at = TopMark
    /\ slots' = Without(TopMark)
    /\ blocked' = blocked \ {TopMark}
    /\ Release(Without(TopMark))
    /\ UNCHANGED <<call, parent, rep, functor, handles, impl, invalidated>>

\* The functor that an emission executes returns.
SlotReturns ==
    /\ TopIs("emit") /\ Top.running
    /\ stack' = Continue(Call("emit", Successor(Top.at)))
    /\ UNCHANGED <<slots, exec, deferred, call, parent, blocked, rep, functor,
                   handles, impl, invalidated>>

\* Mutant: the exception passes by the holder of the emission.
ThrowPastHolder ==
    /\ TopIs("emit") /\ Top.running
    /\ stack' = Caller
    /\ slots' = Without(TopMark)
    /\ UNCHANGED <<exec, deferred, call, parent, blocked, rep, functor, handles,
                   impl, invalidated>>

\* It throws: the emission is unwound without considering the other slots.
SlotThrows ==
    /\ TopIs("emit") /\ Top.running
    /\ stack' = Continue(Call("emit", TopMark))
    /\ UNCHANGED <<slots, exec, deferred, call, parent, blocked, rep, functor,
                   handles, impl, invalidated>>

(***************************************************************************)
(* Removal of slots.                                                       *)
(***************************************************************************)

\* destroy() follows in notify_slot_rep_invalidated, if the rep still lives.
NotifyResume ==
    /\ TopIs("notify")
    /\ LET s == Top.at
       IN  IF rep[s] = "live" /\ functor[s] = "held"
           THEN /\ functor' = [functor EXCEPT ![s] = "dying"]
                /\ call' = call \ {s}
                /\ invalidated' = invalidated \cup {s}
                /\ stack' = Continue(Call("destroy", s))
           ELSE /\ stack' = Caller
                /\ UNCHANGED <<call, functor, invalidated>>
    /\ UNCHANGED <<slots, exec, deferred, parent, blocked, rep, handles, impl>>

\* The destructor of the functor has returned; the functor is gone, and with
\* it the signal object that an Owner held.
FunctorDone ==
    /\ \E op \in FunctorDtor : TopIs(op)
    /\ functor' = [functor EXCEPT ![Top.at] = "none"]
    /\ IF Top.op = "delete"
       THEN Free(Top.at)
       ELSE UNCHANGED <<rep, blocked, invalidated>>
    /\ stack' = Caller
    /\ UNCHANGED <<slots, exec, deferred, call, parent, handles, impl>>

EraseDone ==
    /\ TopIs("erase")
    /\ Release(slots)
    /\ UNCHANGED <<slots, call, parent, blocked, rep, functor, handles, impl,
                   invalidated>>

\* Mutant: the slot leaves the list and is not deleted.
SweepUnlinks ==
    /\ TopIs("sweep")
    /\ Top.at # End
    /\ Empty(Top.at)
    /\ slots' = Without(Top.at)
    /\ stack' = Continue(Call("sweep", Successor(Top.at)))
    /\ UNCHANGED <<exec, deferred, call, parent, blocked, rep, functor, handles,
                   impl, invalidated>>

\* One iteration of sweep(): the iterator moves on before the slot dies.
SweepErase ==
    /\ TopIs("sweep")
    /\ Top.at # End
    /\ Empty(Top.at)
    /\ slots' = Without(Top.at)
    /\ LET here == Continue(Call("sweep", Successor(Top.at)))
       IN  IF Top.at \in Slot
           THEN DeleteRep(Top.at, here)
           ELSE /\ stack' = here
                /\ UNCHANGED <<call, blocked, rep, functor, invalidated>>
    /\ UNCHANGED <<exec, deferred, parent, handles, impl>>

SweepSkip ==
    /\ TopIs("sweep")
    /\ Top.at # End
    /\ ~Empty(Top.at)
    /\ stack' = Continue(Call("sweep", Successor(Top.at)))
    /\ UNCHANGED <<slots, exec, deferred, call, parent, blocked, rep, functor,
                   handles, impl, invalidated>>

SweepEnd ==
    /\ TopIs("sweep")
    /\ Top.at = End
    /\ Release(slots)
    /\ UNCHANGED <<slots, call, parent, blocked, rep, functor, handles, impl,
                   invalidated>>

(***************************************************************************)
(* slots_.clear(), and the destructor of the signal_impl.                  *)
(***************************************************************************)
Clearing == TopIs("clear") \/ TopIs("dtor")

ClearStep ==
    /\ Clearing
    /\ slots # <<>>
    /\ slots' = Tail(slots)
    /\ IF Head(slots) \in Slot
       THEN DeleteRep(Head(slots), stack)
       ELSE UNCHANGED <<call, blocked, rep, functor, stack, invalidated>>
    /\ UNCHANGED <<exec, deferred, parent, handles, impl>>

ClearDone ==
    /\ Clearing
    /\ slots = <<>>
    /\ Release(slots)
    /\ impl' = IF TopIs("dtor") THEN "dead" ELSE impl
    /\ UNCHANGED <<slots, call, parent, blocked, rep, functor, handles,
                   invalidated>>

\* Mutant: the destructor leaves the slots to the destructor of the list.
DestroyedWithoutClear ==
    /\ Orphaned
    /\ impl' = "dying"
    /\ exec' = exec + 1
    /\ stack' = Push(Call("dtor", End))
    /\ UNCHANGED <<slots, deferred, call, parent, blocked, rep, functor, handles,
                   invalidated>>

\* Mutant: the slots notify the signal_impl that is being destroyed.
NotifiedWhileDying ==
    /\ Orphaned
    /\ impl' = "dying"
    /\ exec' = exec + 1
    /\ call' = call \ Listed
    /\ parent' = parent \ Listed
    /\ deferred' = (deferred \/ Listed \cap parent # {})
    /\ stack' = Push(Call("dtor", End))
    /\ UNCHANGED <<slots, blocked, rep, functor, handles, invalidated>>

\* The last shared_ptr is gone. The slots find no signal to notify, and the
\* flag deferred_ is not changed. (No other function of the signal is being
\* executed then, or clear() is, if CallerKeepsHandle is FALSE and
\* ImplOutlivesItsFrames is violated: what follows that is not modelled, since
\* clear() goes on to use an object that is gone.)
ImplDestroyed ==
    /\ Orphaned
    /\ impl' = "dying"
    /\ exec' = exec + 1
    /\ call' = call \ Listed
    /\ parent' = parent \ Listed
    /\ stack' = Push(Call("dtor", End))
    /\ UNCHANGED <<slots, deferred, blocked, rep, functor, handles,
                   invalidated>>

-----------------------------------------------------------------------------
(***************************************************************************)
(* The specification. The destruction of the signal_impl is part of the    *)
(* statement that makes its use count zero: nothing happens before it.     *)
(***************************************************************************)
LibraryStep ==
    \/ EmitSkip \/ EmitInvoke \/ EmitEnd
    \/ NotifyResume \/ EraseDone
    \/ SweepErase \/ SweepSkip \/ SweepEnd
    \/ ClearStep \/ ClearDone

UserReturns == SlotReturns \/ SlotThrows \/ FunctorDone

\* The program has ended.
Finished == stack = <<>> /\ impl = "dead" /\ UNCHANGED vars

Next ==
    \/ ImplDestroyed
    \/ ~Orphaned /\ (UserOperation \/ UserReturns \/ LibraryStep \/ Finished)

Spec == Init /\ [][Next]_vars

\* User code may do what it likes, but each functor and each destructor
\* returns to the library: strong fairness, because what it calls in between
\* takes its frame off the top of the stack for a while.
Returns(d) == ~Orphaned /\ Len(stack) = d /\ UserReturns

\* bound: no behaviour has more frames on its stack
MaxDepth == MaxStack + Cardinality(Slot) + 2

FairSpec ==
    /\ Spec
    /\ WF_vars(ImplDestroyed \/ (~Orphaned /\ LibraryStep))
    /\ \A d \in 1 .. MaxDepth : SF_vars(Returns(d))

-----------------------------------------------------------------------------
(***************************************************************************)
(* Safety.                                                                 *)
(***************************************************************************)
Frames(op) == {i \in DOMAIN stack : stack[i].op = op}

\* The iterators that the library's functions keep across user code stay
\* valid: the placeholder of every emission is in the list, the emission's
\* iterator too and not past the placeholder, and the iterator of sweep() is
\* in the list or its end. (signal.h:199-220, 350-366; signal_base.cc:164-181)
IteratorsValid ==
    /\ IsInjective(slots)
    /\ \A i \in Frames("emit") :
          /\ {i, stack[i].at} \subseteq Listed
          /\ PositionOf(stack[i].at) <= PositionOf(i)
    /\ \A i \in Frames("sweep") : stack[i].at \in Listed \cup {End}

\* exec_count_ is the number of holders on the call stack, whichever way the
\* emissions end: no exception and no re-entrant call leaves it raised, after
\* which no slot would be erased any more. (signal_base.h:66-76, 186-231)
ExecCountsHolders ==
    exec = Cardinality({i \in DOMAIN stack : stack[i].op \in Holder})

\* A slot that is being executed is not deleted under its own feet, whoever
\* disconnects it or clears the signal. Only the death of a trackable that
\* the functor refers to destroys a functor that runs.
\* (signal_base.cc:205-212; slot_base.cc:51-88)
RunningSlotSurvives ==
    \A i \in Frames("emit") : stack[i].running =>
        LET s == stack[i].at
        IN  /\ s \in Slot
            /\ rep[s] = "live"
            /\ functor[s] # "held" => s \in invalidated

\* When no function of the signal is being executed, no removal is pending:
\* every slot in the list is valid, or was connected without a functor.
\* (signal_base.h:72-76; signal_base.cc:164-213)
SweptWhenIdle ==
    exec = 0 => ~deferred /\ Listed \subseteq call \cup EmptySlot

\* As long as a rep can notify its parent, the iterator in the notification
\* may be erased: its slot is in the list of a signal that is alive.
\* (signal_base.cc:28-37, 142-146, 183-213)
NotificationsValid ==
    \A s \in parent : rep[s] = "live" => s \in Listed /\ impl = "live"

\* The notification that insert() allocated for a slot is released before
\* the slot is, by the disconnection that comes first ("Disconnect all
\* connected slots before they are deleted ... and delete the self_and_iter
\* structs", signal_base.cc:74-78): a freed rep has no parent left.
NoOrphanedNotification ==
    \A s \in parent : rep[s] # "freed"

\* The destructor of signal_impl never gets to sweep(): shared_from_this()
\* would throw in it. (signal_base.cc:41-45, 67-71, 86, 170)
DestructorNeverSweeps ==
    Frames("dtor") # {} => ~deferred

\* The signal_impl is not deleted while one of its functions is executed:
\* "the deletion of this is deferred to ~signal_impl_holder()" in sweep() and in
\* an erasure (signal_base.cc:167-170, 198-202), and of what clear() does, too,
\* it is said that it "increments the reference and execution counter"
\* (signal_base.h:65).
ImplOutlivesItsFrames ==
    \A i \in DOMAIN stack :
        stack[i].op \in Holder \ {"dtor"} => impl = "live"

\* Once the signal is gone and nothing is executed any more, no rep and no
\* functor that was connected to it remains. (signal_base.cc:41-45, 77-88)
NothingLeftBehind ==
    impl = "dead" /\ stack = <<>> =>
        \A s \in Slot : rep[s] # "live" /\ functor[s] = "none"

\* How many elements the emission at depth i has still in front of it, and
\* the steps it takes to get past them: executing one of them is half of it.
Ahead(i) == PositionOf(i) - PositionOf(stack[i].at)

Work(i) == 2 * Ahead(i) - (IF stack[i].running THEN 1 ELSE 0)

\* Nothing that the functors of an emission do to the signal gives the
\* emission more to do, and each step of its own leaves it less: a functor can
\* "connect itself during emission without inadvertently entering an infinite
\* loop", however many slots are connected. (signal.h:191-220, 350-366)
EmissionsAdvance ==
    [][\A i \in Frames("emit") \cap Frames("emit")' :
          /\ Work(i)' <= Work(i)
          /\ stack'[i] # stack[i] => Work(i)' < Work(i)]_vars

\* What signal_impl::blocked() returns.
SignalBlocked == Listed \subseteq blocked

\* "true if all slots are blocked or the list is empty" (signal_base.h:91-92)
BlockedAsDocumented ==
    UserTurn /\ HasHandle /\ ~ListBusy =>
        (Listed \cap Slot \subseteq blocked => SignalBlocked)

(***************************************************************************)
(* Liveness, under FairSpec.                                               *)
(***************************************************************************)
\* A slot that was disconnected is deleted, and its functor with it, once
\* the functors that are being executed have returned: a deferred removal
\* is not forgotten. (signal_base.h:68-76)
DisconnectedEventuallyFreed ==
    \A s \in Slot \ EmptySlot :
        rep[s] = "live" /\ s \notin call ~> rep[s] = "freed"

(***************************************************************************)
(* The contract that this module implements. An emission has still to      *)
(* consider the valid slots between its iterator and its placeholder.      *)
(***************************************************************************)
NoSlot == End

Valid(from, to) == InOrder(slots, {k \in from .. to : ~Empty(slots[k])})

TodoOf(i) ==
    LET from == PositionOf(stack[i].at) + (IF stack[i].running THEN 1 ELSE 0)
    IN  Valid(from, PositionOf(i))

EmissionOf(i) ==
    [todo    |-> TodoOf(i),
     running |-> IF stack[i].running THEN stack[i].at ELSE NoSlot]

Contract == INSTANCE SignalContract WITH
    connected <- Valid(1, Len(slots)),
    blocked   <- blocked \cap call,
    emissions <- InOrder([i \in Frames("emit") |-> EmissionOf(i)], Frames("emit"))

\* Slots are invoked as the contract says. (signal.h:191-366)
ImplementsContract == Contract!Spec

=============================================================================
