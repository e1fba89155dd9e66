------------------------------ MODULE Trackable ------------------------------
(***************************************************************************)
(* sigc::trackable and its list of destroy notification callbacks          *)
(* (trackable.h, trackable.cc), the two clients that the library has for   *)
(* it, slot_rep (slot_base.h, slot_base.cc, slot.h) and weak_raw_ptr, and  *)
(* callbacks that users install themselves.                                *)
(*                                                                         *)
(* A rep registers with every object that its functor refers to, as often  *)
(* as the functor refers to it. When the object is destroyed, moved from   *)
(* or overwritten, the callbacks run one after the other, and each of them *)
(* may run user code that adds and removes callbacks of the same list,     *)
(* deletes reps and destroys other objects. The variable stack holds the   *)
(* functions of the library that have not returned.                        *)
(***************************************************************************)
EXTENDS Integers, Sequences, FiniteSets, Selection

CONSTANTS
    Object,             \* the trackable objects of the user
    Rep,                \* the slot_reps; each of them is a trackable as well
    Times,              \* Times[r][o]: how often the functor of r refers to o
    Data,               \* what users register themselves
    Weak,               \* the weak_raw_ptrs of connections
    MaxStack,           \* bound: objects are notified on a stack below this
    MaxRegistrations,   \* bound: what one Data is registered with one object
    AddWhileNotified,   \* whether users register with an object that is being
                        \* notified
    Reenter             \* whether users notify an object from its callbacks

Null == "nullptr"

ASSUME ClientAssumption ==
    /\ Times \in [Rep -> [Object -> Nat]]
    /\ Rep \cap Object = {}
    /\ Rep \cap Data = {}
    /\ Weak \cap Nat = {}
    /\ Null \notin Object \cup Rep
    /\ "dies" \notin Object

ASSUME BoundAssumption ==
    /\ MaxStack \in Nat
    /\ MaxRegistrations \in Nat
    /\ AddWhileNotified \in BOOLEAN
    /\ Reenter \in BOOLEAN

\* The notifier of the invalidation at depth d of the stack is the pointer d.
WeakPtr == Weak \cup 1 .. MaxStack
Trackables == Object \cup Rep
VARIABLES
    callbacks,  \* callbacks_ of each trackable, <<>> if it has no list
    clearing,   \* the objects whose list is being destroyed: clearing_
    dead,       \* the objects whose destructor has returned
    rep,        \* "none" before the rep is created, "live" or "freed"
    functor,    \* functor_: "none", "held", or "dying" in its destructor
    pointer,    \* p_ of each weak_raw_ptr
    stack,      \* the functions of the library that have not returned
    owed        \* history: the calls a user may expect for each Data

vars == <<callbacks, clearing, dead, rep, functor, pointer, stack, owed>>

(***************************************************************************)
(* The frames of the stack.                                                *)
(*   notify      ~trackable_callback_list of the object of; at is the next *)
(*               callback, after what follows in the caller                *)
(*   invalidate  slot_rep::notify_slot_rep_invalidated of the rep of, in   *)
(*               disconnect()                                              *)
(*   destroy     the same, in the destructor of the functor                *)
(*   delete      ~slot_rep, in the destructor of the functor               *)
(*   user        a callback of a user                                      *)
(***************************************************************************)
Frame == [op    : {"notify", "invalidate", "destroy", "delete", "user"},
          of    : Object \cup Rep \cup Data,
          at    : Nat,
          after : {<<>>, <<"dies">>} \cup {<<o>> : o \in Object}]

Call(op, x) == [op |-> op, of |-> x, at |-> 1, after |-> <<>>]

Top == stack[Len(stack)]

TopIs(op) == stack # <<>> /\ Top.op = op

Caller == SubSeq(stack, 1, Len(stack) - 1)

Frames(op) == {i \in DOMAIN stack : stack[i].op = op}

Callback == [data : Rep \cup Data \cup WeakPtr, func : BOOLEAN]

\* Every variable has a value of its type.
TypeOK ==
    /\ callbacks \in [Trackables -> Seq(Callback)]
    /\ clearing \subseteq Object
    /\ dead \subseteq Object
    /\ rep \in [Rep -> {"none", "live", "freed"}]
    /\ functor \in [Rep -> {"none", "held", "dying"}]
    /\ pointer \in [WeakPtr -> Rep \cup {Null}]
    /\ stack \in Seq(Frame)
    /\ owed \in [Object -> [Data -> 0 .. MaxRegistrations]]

-----------------------------------------------------------------------------
(***************************************************************************)
(* trackable_callback_list.                                                *)
(***************************************************************************)
Matches(list, d) == {i \in DOMAIN list : list[i].data = d /\ list[i].func}

\* The positions that n calls of remove_callback(d) find.
FirstMatches(list, d, n) ==
    {i \in Matches(list, d) : Cardinality({j \in Matches(list, d) : j <= i}) <= n}

KeepOthers(list, gone) == InOrder(list, DOMAIN list \ gone)

\* The list of o after n calls of add_callback(d): no list grows while it is
\* being destroyed.
Added(o, d, n) ==
    IF o \in clearing
    THEN callbacks[o]
    ELSE callbacks[o] \o [i \in 1 .. n |-> [data |-> d, func |-> TRUE]]

\* Mutant: the element is erased under the iterator of the destructor.
RemoveAtOnce(o, d, n) ==
    KeepOthers(callbacks[o], FirstMatches(callbacks[o], d, n))

\* Mutant: a functor that refers to an object twice is removed once.
RemoveOnce(o, d, n) ==
    LET gone == FirstMatches(callbacks[o], d, IF n > 1 THEN 1 ELSE n)
    IN  IF o \in clearing
        THEN [i \in DOMAIN callbacks[o] |->
                [callbacks[o][i] EXCEPT !.func = @ /\ i \notin gone]]
        ELSE KeepOthers(callbacks[o], gone)

\* The list of o after n calls of remove_callback(d). An element of a list
\* that is being destroyed stays, without its function.
Removed(o, d, n) ==
    LET gone == FirstMatches(callbacks[o], d, n)
    IN  IF o \in clearing
        THEN [i \in DOMAIN callbacks[o] |->
                [callbacks[o][i] EXCEPT !.func = @ /\ i \notin gone]]
        ELSE KeepOthers(callbacks[o], gone)

\* slot_do_bind and slot_do_unbind, for all that the functor of r refers to.
Bind(r) == [o \in Trackables |->
    IF o \in Object THEN Added(o, r, Times[r][o]) ELSE callbacks[o]]

Unbind(r) == [o \in Trackables |->
    IF o \in Object THEN Removed(o, r, Times[r][o]) ELSE callbacks[o]]

-----------------------------------------------------------------------------
Init ==
    /\ callbacks = [o \in Trackables |-> <<>>]
    /\ clearing = {}
    /\ dead = {}
    /\ rep = [r \in Rep |-> "none"]
    /\ functor = [r \in Rep |-> "none"]
    /\ pointer = [w \in WeakPtr |-> Null]
    /\ stack = <<>>
    /\ owed = [o \in Object |-> [d \in Data |-> 0]]

(***************************************************************************)
(* What user code does, between the calls of the library, in callbacks, in *)
(* the parents that a rep notifies, and in destructors of functors.        *)
(***************************************************************************)
UserTurn == stack # <<>> => Top.op # "notify"

Dying == {stack[i].of : i \in {j \in Frames("notify") : stack[j].after = <<"dies">>}}

\* New references are made to living objects only.
Usable(o) == o \notin dead \cup Dying /\ (o \in clearing => AddWhileNotified)

\* A slot is made of a functor; the functor may refer to living objects.
NewSlot(r) ==
    /\ rep[r] = "none"
    /\ \A o \in Object : Times[r][o] > 0 => Usable(o)
    /\ rep' = [rep EXCEPT ![r] = "live"]
    /\ functor' = [functor EXCEPT ![r] = "held"]
    /\ callbacks' = Bind(r)
    /\ UNCHANGED <<clearing, dead, pointer, stack, owed>>

\* The rep is freed; its own list tells the weak pointers, the last of which
\* is the notifier of an invalidation further down the stack.
Free(r) ==
    /\ rep' = [rep EXCEPT ![r] = "freed"]
    /\ pointer' = [w \in WeakPtr |->
                      IF Matches(callbacks[r], w) # {} THEN Null ELSE pointer[w]]

\* delete rep_: by the user, or by the signal that erases the slot.
DeleteSlot(r) ==
    /\ rep[r] = "live"
    /\ \A i \in Frames("delete") : stack[i].of # r
    /\ IF functor[r] = "held"
       THEN /\ functor' = [functor EXCEPT ![r] = "dying"]
            /\ callbacks' = Unbind(r)
            /\ stack' = Append(stack, Call("delete", r))
            /\ UNCHANGED <<rep, pointer>>
       ELSE /\ Free(r)
            /\ callbacks' = [callbacks EXCEPT ![r] = <<>>]
            /\ UNCHANGED <<functor, stack>>
    /\ UNCHANGED <<clearing, dead, owed>>

\* A connection to a slot is made, copied, or assigned: the pointer leaves
\* the list of the rep it pointed to and enters that of the new one.
Watch(w, r) ==
    /\ r # Null => rep[r] = "live"
    /\ r # pointer[w]
    /\ pointer' = [pointer EXCEPT ![w] = r]
    /\ callbacks' = [o \in Trackables |->
                        IF o = pointer[w] THEN Removed(o, w, 1)
                        ELSE IF o = r THEN Added(o, w, 1)
                        ELSE callbacks[o]]
    /\ UNCHANGED <<clearing, dead, rep, functor, stack, owed>>

AddCallback(o, d) ==
    /\ Usable(o)
    /\ owed[o][d] < MaxRegistrations
    /\ callbacks' = [callbacks EXCEPT ![o] = Added(o, d, 1)]
    /\ owed' = [owed EXCEPT ![o][d] = @ + 1]
    /\ UNCHANGED <<clearing, dead, rep, functor, pointer, stack>>

RemoveCallback(o, d) ==
    /\ o \notin dead
    /\ owed[o][d] > 0
    /\ callbacks' = [callbacks EXCEPT ![o] = Removed(o, d, 1)]
    /\ owed' = [owed EXCEPT ![o][d] = @ - 1]
    /\ UNCHANGED <<clearing, dead, rep, functor, pointer, stack>>

\* trackable::notify_callbacks(): by the user (with after = <<>>), by copy
\* assignment, by the move constructor for its source, by move assignment
\* for both objects, and by the destructor.
Notify(o, after) ==
    /\ o \notin dead
    /\ o \in clearing => Reenter
    /\ Len(stack) + 1 < MaxStack
    /\ clearing' = clearing \cup {o}
    /\ stack' = Append(stack, [Call("notify", o) EXCEPT !.after = after])
    /\ UNCHANGED <<callbacks, dead, rep, functor, pointer, owed>>

\* Mutant: the destructor does not notify.
DestroyQuietly(o) ==
    /\ o \notin dead \cup clearing
    /\ dead' = dead \cup {o}
    /\ UNCHANGED <<callbacks, clearing, rep, functor, pointer, stack, owed>>

Destroy(o) ==
    /\ \A i \in Frames("notify") :
          o # stack[i].of /\ <<o>> # stack[i].after
    /\ Notify(o, <<"dies">>)

MoveAssign(o, src) ==
    /\ o # src
    /\ src \notin dead \cup clearing
    /\ Notify(o, <<src>>)

UserOperation ==
    /\ UserTurn
    /\ \/ \E r \in Rep : NewSlot(r) \/ DeleteSlot(r)
       \/ \E w \in Weak, r \in Rep \cup {Null} : Watch(w, r)
       \/ \E o \in Object, d \in Data : AddCallback(o, d) \/ RemoveCallback(o, d)
       \/ \E o \in Object : Notify(o, <<>>) \/ Destroy(o)
       \/ \E o, src \in Object : MoveAssign(o, src)

-----------------------------------------------------------------------------
(***************************************************************************)
(* ~trackable_callback_list.                                               *)
(***************************************************************************)
Next1 == [Top EXCEPT !.at = @ + 1]

NotifySkip ==
    /\ TopIs("notify")
    /\ Top.at <= Len(callbacks[Top.of])
    /\ ~callbacks[Top.of][Top.at].func
    /\ stack' = Append(Caller, Next1)
    /\ UNCHANGED <<callbacks, clearing, dead, rep, functor, pointer, owed>>

\* Mutant: the iterator does not advance past a callback of a user.
CallAgain ==
    /\ TopIs("notify")
    /\ Top.at <= Len(callbacks[Top.of])
    /\ callbacks[Top.of][Top.at].func
    /\ LET d == callbacks[Top.of][Top.at].data
       IN  IF d \in Rep
           THEN /\ stack' = Append(Caller, Next1) \o <<Call("invalidate", d)>>
                /\ UNCHANGED owed
           ELSE /\ stack' = Append(stack, Call("user", d))
                /\ owed' = [owed EXCEPT ![Top.of][d] = @ - 1]
    /\ UNCHANGED <<callbacks, clearing, dead, rep, functor, pointer>>

\* notify_slot_rep_invalidated begins with a weak pointer to its own rep,
\* then calls disconnect().
NotifyCall ==
    /\ TopIs("notify")
    /\ Top.at <= Len(callbacks[Top.of])
    /\ callbacks[Top.of][Top.at].func
    /\ LET d == callbacks[Top.of][Top.at].data
           n == Len(stack) + 1
       IN  IF d \in Rep
           THEN /\ stack' = Append(Caller, Next1) \o <<Call("invalidate", d)>>
                /\ pointer' = [pointer EXCEPT ![n] = d]
                /\ callbacks' = [callbacks EXCEPT ![d] = Added(d, n, 1)]
                /\ UNCHANGED owed
           ELSE /\ stack' = Append(Caller, Next1) \o <<Call("user", d)>>
                /\ owed' = [owed EXCEPT ![Top.of][d] = @ - 1]
                /\ UNCHANGED <<pointer, callbacks>>
    /\ UNCHANGED <<clearing, dead, rep, functor>>

\* The list is gone; notify_callbacks() or its caller goes on.
NotifyEnd ==
    /\ TopIs("notify")
    /\ Top.at > Len(callbacks[Top.of])
    /\ callbacks' = [callbacks EXCEPT ![Top.of] = <<>>]
    /\ LET o == Top.of
           left == clearing \ {o}
       IN  IF Top.after \in {<<>>, <<"dies">>}
           THEN /\ dead' = IF Top.after = <<>> THEN dead ELSE dead \cup {o}
                /\ clearing' = left
                /\ stack' = Caller
           ELSE /\ clearing' = left \cup {Head(Top.after)}
                /\ stack' = Append(Caller, Call("notify", Head(Top.after)))
                /\ UNCHANGED dead
    /\ UNCHANGED <<rep, functor, pointer, owed>>

UserCallbackReturns ==
    /\ TopIs("user")
    /\ stack' = Caller
    /\ UNCHANGED <<callbacks, clearing, dead, rep, functor, pointer, owed>>

(***************************************************************************)
(* notify_slot_rep_invalidated, and the end of a rep.                      *)
(***************************************************************************)
\* ~weak_raw_ptr of the notifier at the top of the stack.
DropNotifier(lists) ==
    LET n == Len(stack)
    IN  /\ pointer' = [pointer EXCEPT ![n] = Null]
        /\ callbacks' = IF pointer[n] = Null THEN lists
                        ELSE [lists EXCEPT ![pointer[n]] =
                                 KeepOthers(@, FirstMatches(@, n, 1))]

\* Mutant: the notifier is not asked whether the rep is still there.
ResumeUnchecked ==
    /\ TopIs("invalidate")
    /\ functor' = [functor EXCEPT ![Top.of] = "dying"]
    /\ callbacks' = Unbind(Top.of)
    /\ stack' = Append(Caller, Call("destroy", Top.of))
    /\ UNCHANGED <<clearing, dead, rep, pointer, owed>>

\* disconnect() has returned. The functor is detached from all objects and
\* destroyed, unless the rep is gone or is losing its functor already.
InvalidateResume ==
    /\ TopIs("invalidate")
    /\ IF pointer[Len(stack)] # Null /\ functor[Top.of] = "held"
       THEN /\ functor' = [functor EXCEPT ![Top.of] = "dying"]
            /\ callbacks' = Unbind(Top.of)
            /\ stack' = Append(Caller, Call("destroy", Top.of))
            /\ UNCHANGED pointer
       ELSE /\ DropNotifier(callbacks)
            /\ stack' = Caller
            /\ UNCHANGED functor
    /\ UNCHANGED <<clearing, dead, rep, owed>>

\* Mutant: the rep is freed without telling the weak pointers.
DeletedInSilence ==
    /\ TopIs("delete")
    /\ functor' = [functor EXCEPT ![Top.of] = "none"]
    /\ rep' = [rep EXCEPT ![Top.of] = "freed"]
    /\ stack' = Caller
    /\ UNCHANGED <<callbacks, pointer, clearing, dead, owed>>

\* The destructor of the functor has returned.
FunctorDestroyed ==
    /\ TopIs("destroy")
    /\ functor' = [functor EXCEPT ![Top.of] = "none"]
    /\ DropNotifier(callbacks)
    /\ stack' = Caller
    /\ UNCHANGED <<clearing, dead, rep, owed>>

RepDeleted ==
    /\ TopIs("delete")
    /\ functor' = [functor EXCEPT ![Top.of] = "none"]
    /\ Free(Top.of)
    /\ callbacks' = [callbacks EXCEPT ![Top.of] = <<>>]
    /\ stack' = Caller
    /\ UNCHANGED <<clearing, dead, owed>>

\* The program has ended.
Finished == stack = <<>> /\ dead = Object /\ UNCHANGED vars

Next ==
    \/ UserOperation \/ Finished
    \/ NotifySkip \/ NotifyCall \/ NotifyEnd
    \/ UserCallbackReturns
    \/ InvalidateResume \/ FunctorDestroyed \/ RepDeleted

Spec == Init /\ [][Next]_vars

-----------------------------------------------------------------------------
(***************************************************************************)
(* Safety.                                                                 *)
(***************************************************************************)
\* The promise of the library: a functor that a slot still holds refers to no
\* object that is gone. "A slot built from a member function of a trackable
\* derived type installs a callback that is invoked when the trackable object
\* is destroyed or overwritten." (trackable.h:97-99)
NoDanglingReference ==
    \A r \in Rep, o \in dead : functor[r] = "held" => Times[r][o] = 0

\* No object holds a callback into a rep that has lost its functor, let alone
\* into one that is freed, whatever was removed while lists were being
\* destroyed; and none is lost or doubled. When the notification of an object
\* has ended, every slot that referred to it has lost its functor: it "can
\* therefore be used to disconnect from all signals" (trackable.h:105-106).
\* (slot.h:107-119; trackable.cc:133)
RegisteredAsReferred ==
    \A r \in Rep, o \in Object :
        LET n == Cardinality(Matches(callbacks[o], r))
        IN  IF functor[r] # "held" THEN n = 0
            ELSE o \notin clearing => n = Times[r][o]

\* A weak pointer is null as soon as its rep is freed, and the list of a rep
\* has one callback for each pointer to it and no other: none into a weak
\* pointer that is gone. (weak_raw_ptr.h:36-92)
WeakPointersTold ==
    /\ \A w \in WeakPtr : pointer[w] # Null => rep[pointer[w]] = "live"
    /\ \A w \in WeakPtr, r \in Rep :
          Cardinality(Matches(callbacks[r], w)) = IF pointer[w] = r THEN 1 ELSE 0

\* What users installed is called once, unless they remove it first: the
\* callbacks that the list still has to call are those that are owed.
\* (trackable.h:139-152)
CallsMatchRegistrations ==
    \A o \in Object, d \in Data :
        LET walks == {i \in Frames("notify") : stack[i].of = o}
        IN  owed[o][d] = Cardinality({k \in Matches(callbacks[o], d) :
                                        \A i \in walks : k >= stack[i].at})

\* "Callback executed upon destruction of the object." (trackable.h:141)
EveryCallbackCalled ==
    \A o \in dead, d \in Data : owed[o][d] = 0

\* A callback that was removed "is not executed" (trackable.h:146), and those
\* that were executed are removed (trackable.h:151).
NeverCalledUnasked ==
    \A o \in Object, d \in Data : owed[o][d] >= 0

\* A functor is destroyed once, and by a rep that lives, even if several
\* objects that it refers to die inside of one another and its slot is deleted
\* meanwhile. (slot_base.cc:71-88)
DestroyedOnce ==
    [][\A r \in Rep : functor[r] # "dying" /\ functor'[r] = "dying" =>
          functor[r] = "held" /\ rep[r] = "live"]_vars

=============================================================================
