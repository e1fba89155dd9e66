# A formal model of libsigc++

libsigc++ is a library of typed callbacks: *signals* keep lists of *slots*,
slots hold *functors*, and functors that refer to *trackable* objects are
disconnected when those objects die. It runs in one thread. What makes it hard
is **re-entrancy**: the library calls functors, and destructors of functors, and
these may call any operation of the signal they are called from, while the
library's functions further down the call stack keep iterators, counters and
pointers.

The modules here model that behaviour in TLA+. TLC checks them on small
instances, and TLAPS proves the safety properties of six of them for every
number of objects, every depth of the stack and every size of the heap.

## Inventory

| component (under `src/sigc++`) | state | operations | interacts with |
|---|---|---|---|
| `signal_impl` (`signal_base.h/.cc`) | `slots_`, `exec_count_`, `deferred_` | `connect`, `connect_first`, `insert`, `clear`, `block`, `sweep`, `notify_self_and_iter_of_invalidated_slot` | slots notify it; emissions walk its list |
| emission (`signal.h`: `signal_emit`, `temp_slot_list`, holders) | an iterator, a placeholder in the list, a raised counter | begin, skip, invoke, end, unwind | calls functors; `sweep()` on its way out |
| `slot_rep`, `typed_slot_rep`, `slot_base` (`functors/slot*.h/.cc`) | `call_`, `parent_`, `cleanup_`, `functor_`, `blocked_` | `disconnect`, `notify_slot_rep_invalidated`, `destroy`, copy, move, assign, `set_parent`, `block` | notifies its parent; registers with trackables |
| `trackable`, `trackable_callback_list` | list of callbacks, `clearing_` | add, remove, notify all | calls slots and weak pointers |
| `signal_base`, `signal_with_accumulator`, `trackable_signal` | `impl_` (a `shared_ptr`, created lazily) | copy, move, assign, everything of `signal_impl` | shares a `signal_impl` |
| `connection`, `scoped_connection`, `weak_raw_ptr` | a weak pointer to a list element | `disconnect`, `block`, assignment, `release` | is told of the death of the rep |
| `visit_each`, `limit_reference`, visitors of the adaptors | none | which trackables of a functor are visited | `slot_do_bind` / `slot_do_unbind` |
| `slot_iterator_buf`, accumulators | iterator, `r_`, `invoked_` | `*`, `++`, `--` | executes slots |
| `tuple-utils`, adaptors | none | selection and order of arguments | pure |
| `mem_fun`, `ptr_fun`, `functor_trait` | none | a call | wrapped by adaptors |
| type traits, build files, docs, tests | none | | not modelled |

What is hard in each of them, and what makes it correct:

* **signal_impl and emission.** Emissions nest, and functors disconnect, connect,
  clear, emit, throw, or drop the last reference to the signal. Correct means: no
  iterator is invalidated, no slot is deleted under its own functor, exactly the
  right slots are invoked, deferred removals are made up for, and the
  `signal_impl` outlives the functions that run on it.
* **slots.** `disconnect()` and `destroy()` may delete the object they are
  called on. Correct means: every functor is destroyed exactly once, every parent
  is notified at most once and only while it lives.
* **trackable.** Callbacks remove and add callbacks of the list that is being
  walked, destroy other objects and delete slots. Correct means: each registered
  callback is called exactly once unless it is removed first, and never after.
* **slots as values.** Assignment hands a parent from one rep to another, and
  slots contain or refer to slots. Correct means: every rep has one owner, every
  parent is there, every list is told.
* **connection.** The pointer in a connection must be null as soon as the element
  is gone. `scoped_connection` disconnects exactly what it owns.
* **handles.** Copies share one list, which lives as long as they do.
* **visitors.** Every trackable that a functor refers to is watched.
* **adaptors.** The arguments arrive where the documentation says.
* **accumulators.** A slot is executed at most once per position, and yields its
  own result.

The hazards are listed in `PROJECT.json`, each at its line, with the property
that covers it, or the reason why none does.

## Modules

| module | what it is |
|---|---|
| `SignalContract` | What a signal promises: the connected slots, the blocked ones, and for each emission in progress the slots it has still to consider. No list with placeholders, no counter, no deferred work. |
| `Signal` | `signal_impl`, its slots and their functors, and the emissions, with the call stack. |
| `SignalProofs` | The inductive invariant of `Signal`: the pointers of the functions on the stack are good. |
| `SignalLifeProofs` | A second invariant of `Signal`, relative to the first: the life of slots and of the `signal_impl`. From both, that `Signal` implements `SignalContract`. |
| `Trackable` | `trackable`, its callback list, and its clients: `slot_rep`, `weak_raw_ptr` and users' callbacks, with the call stack. |
| `TrackableProofs` | The inductive invariant of `Trackable` and the theorems. |
| `SlotBase` | `slot_base` and `slot_rep` as values on a heap: copies, moves, assignments, parents, slots in slots, connections. |
| `SlotProofs` | The inductive invariant of `SlotBase`, what each function of the library does to a heap, and the theorems. |
| `ScopedContract` | What scoped connections promise: how a slot may enter and leave their care. |
| `Connection` | `connection` and `scoped_connection`, with the user code that `disconnect()` runs. |
| `ConnectionProofs` | The inductive invariant of `Connection`, and that it implements `ScopedContract`. |
| `SignalHandle` | `signal_base` and `trackable_signal`: who shares which `signal_impl`. |
| `SignalHandleProofs` | The inductive invariant of `SignalHandle` and the theorems. |
| `Emission` | Emissions with results: accumulators with `slot_iterator_buf`, and the non-void `signal_emit`. |
| `EmissionProofs` | The inductive invariant of `Emission` and the theorems. |
| `TupleUtils` | The functions on tuples, by the recursion of the templates. |
| `Adaptors` | The call operators and visitors of all adaptors, against what the documentation says of each. |
| `Selection`, `SelectionProofs` | The elements of a list at some of its positions, in order, defined by counting; lemmas about them and about the order in a list. |
| `MC`*module* | Instances for TLC. |

The modules overlap where components meet, at different levels of detail:
`Signal` takes from `Trackable` only that an invalidation may happen at any time;
`Trackable` and `Connection` take from `Signal` that a slot is erased at once or
later, and that user code runs when it is; `SlotBase` has all the pointers of
`Trackable`, `Connection` and nested slots, but no user code inside of its
functions; `SignalHandle` reduces a list to the set of its slots.

### How `Signal` corresponds to the code

The variable `stack` is the call stack, restricted to functions of the library
that have begun and not returned. Functions that call no user code run to their
end in one action. A function that calls user code has a frame:

| frame | function | user code it calls |
|---|---|---|
| `emit` | `signal_emit::emit` with its `signal_impl_holder` and `temp_slot_list` | the functor of the slot at `at`, when `running` |
| `sweep` | `signal_impl::sweep`, in the destructor of a holder | destructors of functors |
| `erase` | `notify_self_and_iter_of_invalidated_slot`, first branch | destructors of functors |
| `clear` | `signal_impl::clear` called by `signal_base::clear` | destructors of functors |
| `dtor` | `signal_impl::clear` called by `~signal_impl` | destructors of functors |
| `notify` | `slot_rep::notify_slot_rep_invalidated`, after `disconnect()` | destructors of functors |
| `destroy` | `slot_rep::destroy`, waiting for the functor's destructor | that destructor |
| `delete` | `~slot_rep`, waiting for the functor's destructor | that destructor |

User code may run whenever the top of the stack is a running functor or a
functor's destructor, or when the stack is empty (`UserTurn`). It then chooses
any operation: `Connect`, `Disconnect`, `Invalidate`, `Block`, `BlockAll`,
`Clear`, `Emit`, `CopyHandle`, `DropHandle`; or it returns (`SlotReturns`,
`SlotThrows`, `FunctorDone`). Everything else is the library's own step.

| variable | code |
|---|---|
| `slots` | `slots_`; the placeholder of the emission at depth *d* is the number *d* |
| `exec`, `deferred` | `exec_count_`, `deferred_` |
| `call`, `parent` | the slots whose `rep_->call_`, `rep_->parent_` is not null |
| `blocked` | the list elements whose `blocked_` is true |
| `rep`, `functor` | the life of `rep_` and of `functor_` (`dying`: its destructor is running; `unique_ptr::reset` has cleared the pointer before) |
| `handles` | the signal objects outside of functors that share this `signal_impl` |
| `impl` | the life of the `signal_impl` |
| `invalidated` | history: the slots that died of a trackable |

A slot in `Owner` has a functor that holds a copy of the signal; destroying it
may drop the last reference. A slot in `EmptySlot` is a default-constructed slot:
`set_parent` gives it a `dummy_slot_rep`. When the use count of the
`shared_ptr` reaches zero (`Orphaned`), the destruction of the `signal_impl` is
part of the statement that dropped the last reference, so nothing else may happen
first.

Two operations are kept from the model because the C++ library leaves them
undefined: using a signal while `std::list::clear` is destroying the elements of
its list (`ListBusy`), and throwing from a destructor.

`SignalContract` is mapped as follows: `connected` is the list without the
placeholders and the invalid slots; an emission's `todo` is the part of that list
between its iterator and its placeholder; `running` is the slot whose functor it
executes. Deferred removal, `sweep()`, erasure and the death of the functors are
stuttering steps of the contract.

### How `Trackable` corresponds to the code

`stack` holds `~trackable_callback_list` (`notify`, with its iterator `at` and
what its caller does `after` it: nothing, the end of the object, or, in a move
assignment, the notification of the source), `notify_slot_rep_invalidated` in
`disconnect()` (`invalidate`) and in the functor's destructor (`destroy`),
`~slot_rep` (`delete`), and users' callbacks (`user`). User code runs on top of
any but the first; even the parent of a rep is user code here, as what it does
is the subject of `Signal`.

| variable | code |
|---|---|
| `callbacks`, `clearing` | `callbacks_`, `clearing_`; an element without `func` is one whose function was set to null |
| `rep`, `functor` | the life of a `slot_rep` and of its functor; `Times` says how often the functor refers to each object |
| `pointer` | `p_` of each `weak_raw_ptr`; those of the frames on the stack are numbered by depth |
| `owed` | history: how many calls a user may still expect |

`NewSlot` is `typed_slot_rep(const T_functor&)` with its `slot_do_bind`, `Watch`
is the assignment of a `weak_raw_ptr`, `Notify` is `notify_callbacks()`, called by
the user, by copy assignment or by the move constructor, `Destroy` and
`MoveAssign` are the other callers.

### How `SlotBase` corresponds to the code

`heap` is the memory: `rep` and `blocked` are the members of each `slot_base`,
whether it is a variable of the user, a list element, or stored in the functor of
the rep with the same number; `call`, `parent`, `functor` and `told` are the
members of each rep; `watch` and `conn` are the callback lists of objects and the
pointers of connections. The functions of the library call one another through
parents and destructors in the middle of their work (`operator=` deletes a rep,
whose functor is a slot, whose rep has a parent, ...), so each function is an
operator from heaps to heaps with the name of the function, and an action is one
call by the user. The parent of a list element erases it at once or later
(`defers`), as `Signal` has it.

Five functions call themselves, through the slots that a functor contains, through
parents, or, in `~trackable()`, for the next callback: `Destroy`, `Disconnect`,
`CopySlot`, `Notified`, and `Nesting`, which tells how deep a slot is nested. Each is
the value at `MaxCalls` of a recursive function of the calls that may still nest
(`DestroyWithin`, `DestroyUsing`, ...). At zero the functions of the library mark the
heap as `misused`. `OwnedOnce` says that this never happens, so `MaxCalls`, one more
than there are reps, bounds nothing that the code could do.

### How `Connection` corresponds to the code

`pointer` is `slot_.p_` of every connection, the scoped ones and the parameters of
`operator=(connection)` included. A frame `assign`, `move` or `dtor` is an
operation of `scoped_connection` that has called `conn_.disconnect()` and not gone
on; `erase` is the deletion of a rep, which runs the functor's destructor.
`ScopedContract` is mapped with `care` as the pointers of the scoped connections
and `connected` as the slots that are valid.

### How `SignalHandle` corresponds to the code

`impl_` is the member of each signal object, and a slot whose functor `shares` a
`signal_impl` is a slot made of a copy of a signal. When a step releases the last
reference, the destructor of the `signal_impl` begins in the same step (`Settle`)
and destroys its slots one after the other, with user code between. `assign`,
`take` and `tell` are the points of the assignment operators at which this
happens.

### How `Emission` corresponds to the code

An accumulator is user code: it moves, copies and dereferences its iterators in
any order within the list. `iter` has the members of each `slot_iterator_buf`;
`it` and `r_` are the locals of the non-void `emit()`. The functors that are
executed block and disconnect slots (`UserChanges`). With `Void` the results are
those of the `void` specialisation.

### How `Adaptors` corresponds to the code

A functor is a record that names its type and has its members. `Invoke` is the
call of `operator()`, with an operator for each adaptor, and computes a symbolic
expression; `Visit` is `visit_each_trackable`, with an operator for each
specialisation of `visitor`. An action wraps the functor in one more adaptor and
updates two history variables by the documentation of that adaptor: `meaning`,
the expression with other arguments substituted, and `watched`.

## Runs

| run | instance | what it shows |
|---|---|---|
| `signal_safety` | two plain slots and one owner, `MaxStack = 3`, one handle, nothing blocked | the safety properties of `Signal`, and that emissions advance |
| `signal_contract` | two plain slots and an empty one, `MaxStack = 2`, blocking | `Signal` implements `SignalContract` |
| `signal_liveness` | one plain slot and one owner, `MaxStack = 2` | disconnected slots are deleted |
| `trackable_safety` | two objects; a slot that refers to both, a slot that refers to one twice; one connection, one user callback; `MaxStack = 5` | registrations and calls match, nothing dangles |
| `slot_safety` | two slots, one object, one connection, four reps | ownership, parents, lists and connections through copies, moves and assignments |
| `connection_safety` | three slots, one connection, two scoped ones, `MaxStack = 3` | no dangling pointer; `Connection` implements `ScopedContract` |
| `handle_safety` | two trackable signals and a plain one, three `signal_impl`s, two slots, `MaxStack = 4` | the life of a `signal_impl` and its slots |
| `emission_safety` | three slots, two iterators | one execution per position, the right results |
| `adaptors_safety` | two trackables and a plain object, two adaptors, up to three arguments | calls as documented, the right objects watched |
| `signal_leak` | one plain slot and an empty one | *violated*: the notification of an empty slot is leaked by `sweep()` |
| `signal_clear` | one owner, the caller of `clear()` may let go of its signal | *violated*: the `signal_impl` is deleted inside its own `clear()` |
| `adaptors_bind` | `bind<I>()` with two bound arguments | *violated*: the second one is not watched |

The safety properties, and what would break them:

* `IteratorsValid`: erasing an element under an emission or a sweep.
* `ExecCountsHolders`: an exit, normal or exceptional, that forgets the counter.
* `RunningSlotSurvives`: deleting a slot while its functor runs.
* `SweptWhenIdle`: a deferred removal that nobody takes up.
* `NotificationsValid`: a notification whose iterator is no longer in the list.
* `NoOrphanedNotification`: deleting a slot that was not disconnected.
* `DestructorNeverSweeps`: `shared_from_this()` in the destructor.
* `ImplOutlivesItsFrames`: a function whose object is gone.
* `NothingLeftBehind`: a functor or a rep that nobody deletes.
* `EmissionsAdvance`: an emission that runs after slots that are connected during it,
  or comes back to a slot. `Work` of an emission is the number of list elements that
  it has yet to leave, with the placeholder. It never grows, whoever connects
  or disconnects meanwhile, and each step of the emission but its end makes it
  smaller. So an emission ends after finitely many steps of its own, which a run
  with a bounded number of slots would show of any emission.
* `NoDanglingReference`: an end of an object that its slots do not hear of.
* `RegisteredAsReferred`: a registration that is lost, doubled, or left behind in
  an object when the functor is gone.
* `WeakPointersTold`: a rep that is freed under a function further down.
* `CallsMatchRegistrations`: a removal that disturbs the walk through the list.
* `DestroyedOnce`: two deaths inside of one another that both destroy the functor.
* `OwnedOnce`: a rep with two owners or none, or used after `disconnect()` deleted it.
* `ParentExists`: a rep whose parent has moved or died.
* `NothingGoneIsCalled`: an outer slot that does not hear of the end of an inner one.
* `ListKeepsItsSlots`: an assignment that takes a list element out of its list's sight.
* `ConnectionsRegistered`, `NoDanglingPointer`: a connection that is not told.
* `NoDanglingSignal`: a slot that emits a signal that is gone.
* `SlotsStay`: an assignment, a copy or the end of another signal that takes a slot
  from a list that lives on. A list loses a slot only by `disconnect()`, or when the
  `trackable_signal` that the slot emits is destroyed or moved from.
* `ImplLifetime`, `NoLostSlot`: a `signal_impl` that is leaked, destroyed twice, or
  under an assignment that still uses it.
* `ExecutedOnce`, `CallableGivesItsResult`, `EmitReturnsLast`: a result that is
  buffered too long or not long enough. A functor that throws leaves no result, and is
  executed again.
* `CallsAsDocumented`, `WatchesItsObjects`: a tuple that is cut in the wrong place,
  a member that a visitor forgets.

### Bounds, and why they are enough

Each slot is connected at most once, so behaviours are finite; a slot that is
connected again is a new list element with a new rep, which is another slot.
Three slots allow one to be executed, one to be removed, and one to own the
signal. `MaxStack` bounds the depth at which emissions begin; with 3, an emission
runs inside of a functor that an inner emission executes, or inside a destructor
that `sweep()` or an erasure called. The other frames are not bounded by
`MaxStack`: there are at most two for each slot. `MaxHandles = 1` keeps one
signal object outside of functors, and the owners add more. The safety run leaves
blocking out, because blocked slots differ from the others only in the choice of
the slots that are invoked, which is what `signal_contract` checks.

The other instances follow the same idea: two objects and two slots are the least
in which one object dies inside of the notification of the other and the slot
between them is deleted; a functor that refers to one object twice is registered
twice. Four reps allow a slot inside of a slot to be copied to another such slot.
Three slots of a signal let a scoped connection hold one, be assigned a second,
and user code connect a third. Two iterators let an accumulator keep the result of
a postfix increment. In `handle_safety` an assignment of signals has up to
three frames (itself, the end of the old `signal_impl`, a functor's destructor), so
with `MaxStack = 4` that destructor uses other signals while the assignment waits. Two adaptors meet each
other in every pair and order; three arguments let a location be first, in the
middle and last.

Some constants keep users from what the library cannot cope with, and are named
for it: `AddWhileNotified`, `Reenter`, `EmptyConn`, `TouchAssigned`,
`AssignUnused`, `ManyAtLocation`, `CallerKeepsHandle`. What happens otherwise is
under Findings.

Other restrictions are built into the modules:

* `Signal`: a slot that is empty when it is connected has no rep. One that was
  invalidated, has no parent, and is then moved into the list keeps its rep and its
  functor (`slot_base.cc:130-139`), and is left out. `sweep()` may delete it while it has
  its parent; the destructor of its functor may then tell the parent, which in a sweep
  only sets `deferred_`.
* `SignalHandle`: user code that runs in an assignment between signals neither destroys
  nor assigns to the two signals (`Busy`). Destroying them is an error of the user; to
  assign to the target again enters the assignment of its `std::shared_ptr` a second
  time, which the C++ library does not promise to work.
* `Connection`: user code that runs in a move assignment may use the source
  and move from it, but not destroy it, nor destroy the target of any assignment.

### Fairness

`FairSpec` says that the library's own steps are taken (weak fairness: the
program keeps running) and that user code, at each depth of the stack, eventually
returns from the functor or destructor it is executing (strong fairness, because
calls it makes take its frame off the top for a while). Without the second
assumption a functor that loops would keep an emission from ending, which is
nothing the library can prevent. Nothing is assumed of what user code calls.

Only `Signal` has a liveness property. That every emission ends is not one of them:
it follows from `EmissionsAdvance`, which needs no bound on the number of connections,
and the fairness above. The other modules have loops that walk a
list that does not grow while it is walked, or none, and defer no work: that they
end is not a question of scheduling. Deadlock is checked in every run except the
ones of `Adaptors`, where the number of wraps is bounded.

## Findings

* `sweep()` erases a slot that was empty when it was connected without
  disconnecting it, and leaks the `self_and_iter` (`signal_base.cc:177`; run
  `signal_leak`).
* `clear()` keeps no reference to the `signal_impl` (`signal_base.cc:72`; run
  `signal_clear`), although what it calls is said to count one (`signal_base.h:65, 202`:
  only `exec_count_` is counted). In the run the functor of the only slot has a copy of
  the signal. While `clear()` destroys that functor, the signal object that `clear()`
  was called on goes away, and then the copy goes with the functor: the list and the
  counter are gone when `clear()` goes on. The runs that pass assume that the caller
  keeps its signal (`CallerKeepsHandle`).
* The visitor of `bind<I>()` visits the first bound argument only
  (`adaptors/bind.h:225`; run `adaptors_bind`).

Further disagreements between the code and what its comments say. Each has a
configuration that reproduces it; these are no runs of the project.

| configuration | property | what the code does |
|---|---|---|
| `signal_blocked.cfg` | `BlockedAsDocumented` | `blocked()` counts the placeholders of emissions (`signal_base.cc:100`; `signal_base.h:91`). |
| `trackable_ignored.cfg` | `EveryCallbackCalled` | A callback that is added while the list is destroyed is never called (`trackable.cc:113`; `trackable.h:141`). |
| `trackable_removed.cfg` | `NeverCalledUnasked` | Data registered twice and removed by its own callback: the removal finds the running callback, and the other one is executed (`trackable.cc:139`; `trackable.h:146`). |
| `trackable_reentered.cfg` | `NeverCalledUnasked` | `notify_callbacks()` from a callback of the same object deletes the list a second time (`trackable.cc:79`; `trackable.h:151`). |
| `slot_dangling.cfg` | `ConnectionNotDangling` | A connection made to a slot without a rep is never told of its end (`slot_base.cc:259`; `connection.h:109`). |
| `slot_exchanged.cfg` | `ConnectionStays` | Assigning to a connected slot empties its connections, although the slot stays connected (`slot_base.cc:196`; `connection.h:109`). |
| `slot_inner.cfg` | `AssignmentCopies` | Assigning the slot that the functor of the target contains reads `blocked_` of a destroyed slot (`slot_base.cc:200`; `functors/slot.h:259`). |
| `connection_touched.cfg` | `Replaced` | User code that an assignment to a scoped connection runs may give it another slot, which is then replaced without being disconnected (`scoped_connection.cc:34, 49`; `scoped_connection.h:93`). |
| `handle_unused.cfg` | `CopiesShare` | Assigning a signal that was never used to another such signal leaves them unrelated; copy construction does not (`signal_base.cc:300`; `signal_base.h:314-318`). |
| `emission_stale.cfg` | `OwnResult` | On an empty or blocked slot `operator*` returns the result of an earlier slot, or an uninitialised one (`signal.h:72`; `signal.h:38`). |

## Proofs

`SignalProofs` proves, from the assumptions on the constants alone
(`SlotAssumption`, `BoundAssumption`), that `Spec` implies `[]TypeOK`,
`[]IteratorsValid`, `[]ExecCountsHolders` and `[]NotificationsValid`.

None of them is inductive. `exec_count_` stays a natural number only because it
counts frames; an erasure is harmless to emissions only because it happens when
the counter is zero, that is when no frame walks the list; an iterator may be
erased only because its notification is valid; and it is, because a slot whose
destruction has begun has no parent any more. The strengthening `IInv` states
these together:

* `ExecInv`: the counter is the number of holders on the stack.
* `EmitInv`: the placeholder of each emission is in the list, its iterator is not
  behind it, placeholders of inner emissions come later, and the list has no other
  placeholders.
* `SweepInv`: a sweep, and the clearing of the list, run on top of no emission and
  no other sweep, so an element that the sweep leaves is in no other iterator.
* `DyingInv`: a slot that a frame is about to destroy has no parent; one that is
  being deleted is not in the list; a list that is being cleared has no slot with
  a parent.
* `SlotInv`: unconnected slots have no trace; listed slots live; slots with a
  parent are listed in a live signal and still hold their functor valid.
* `DtorInv`, `HandleInv`: a signal that is being destroyed has no user.

The lemmas come in layers: what a push and a return do to the stack, what
insertion and removal do to the list, how each part of `IInv` survives these, and
then one lemma for each action of `Signal`, combined in `NextIInv`. TLC has
checked `IInv` as an invariant of the instances above.

`ConnectionProofs` proves from `ConnectionAssumption` that `Spec` implies
`[]TypeOK` and `[]NoDanglingPointer`, and, if user code does not touch an object
that is being assigned to (`~TouchAssigned`), `Replaced` and `ImplementsContract`.
The invariant `IInv` ties the stack to the objects: a scoped connection that a
frame uses (`Uses`: the source of a move is among them) exists, and none that a frame
destroys or, without `TouchAssigned`, assigns to (`Held`) is used by a frame that began
later; the parameter of an assignment is a pointer of the frame at its own depth, and a slot
that an `erase` frame deletes is `dying` and in no other such frame (`EraseInv`,
`HeldInv`). The refinement needs one fact more, `LeftInv`: while an assignment waits
for user code, the slot in its care is not connected, which is the guard `Idle` of
the contract's steps. Every action maps to one step of the contract or to a stutter.

`EmissionProofs` proves from `EmissionAssumption` that `Spec` implies `[]TypeOK`,
`[]ExecutedOnce`, `[]CallableGivesItsResult`, `RunsOnce` and `EmitReturnsLast`, for
any number of slots and iterators. The invariant says what a buffered result is
worth: to an iterator that is `invoked_` a functor has returned once at its position,
and it holds that slot's result; to one that is not, none has, although one may have
thrown, and is then executed again; and the plain emission has executed every slot
before `it` that was callable all the time, the last of which left its result in `r_`.

`SignalLifeProofs` proves the remaining safety properties of `Signal`. `IInv` says
that pointers are good; it does not say why a slot is in the state that it is in.
`JInv` does, and names the function on the stack that is bound to change it:

* `CallInv`: a slot that can be called has its functor, and tells the signal when
  it is disconnected.
* `DeferredInv`: a removal is put off only while a holder lasts, and never while
  the list is being cleared. So the destructor has nothing to sweep
  (`DestructorNeverSweeps`).
* `PendingInv`: an invalid slot in the list is due to the sweep that is pending, to
  the clearing of the list, or to a sweep that has still to get to it. With an
  empty stack none of these exists (`SweptWhenIdle`).
* `FunctorInv`: a slot in the list loses its functor only to a trackable
  (`RunningSlotSurvives`).
* `ImplInv`: a `signal_impl` that is being destroyed has no holder.
* `LifeInv`: whatever exists has an owner, or a frame that is deleting it
  (`NothingLeftBehind`).

`EmissionsAdvance` follows from `IInv` alone, for any number of slots and connections
(`EmissionsEnd`). Nothing is counted: `Work` is the distance of two positions in the list,
and what a step does to the list during an emission is to put one element at an end of
it or to take one out of it (`OneChange`). `DistanceKept` says that neither moves two
elements apart.

`JInv` is inductive together with `IInv`, without further assumptions. Two theorems
have a hypothesis, and for each a run shows that it cannot be left out:
`NoOrphanedNotification` needs `EmptySlot = {}` (`signal_leak`), and
`ImplOutlivesItsFrames` needs `CallerKeepsHandle` (`signal_clear`).

The second part of `SignalLifeProofs` proves `Spec => ImplementsContract` from `IInv`
and `JInv`, for every number of slots, empty ones among them, and every depth of the stack. The
contract's variables are lists that the mapping selects from `slots`. A list is
pinned down by its set of elements and by their order (`Lists`, `OneList`), so each
action is followed through the sets alone:

* `Due` is what an emission has still to consider: the valid slots between its
  iterator and its placeholder. A slot connected meanwhile goes to an end of the list
  and is never in between (`ConnectEmissions`); the removal of another emission's
  placeholder changes no order (`FinishSimulated`).
* `Forgets` covers everything that removes slots, at once or later: fewer slots can
  be called, and if the list itself changes, no emission is in progress. Such a step
  is a `Disconnect` of the slots that can no longer be called, often of none. That
  the list is not touched during an emission is where `exec_count_`, `SweepInv` and
  `CallInv` are used (`DisconnectForgets`, `NoEmission`, `ClearStepForgets`).
* Only the emission at the top of the stack moves (`InnermostMoves`). Its iterator
  passes invalid slots and placeholders unnoticed, skips a blocked slot, and
  invokes the first of what is due (`DueFirst`, `DueNext`).

`TrackableProofs` proves the properties that `trackable_safety` checks, from
`ClientAssumption` (slot_reps, objects, weak pointers and users' data have different
addresses) and `BoundAssumption`. All of them are under `WellUsed`: users neither
register with an object that is being notified (`AddWhileNotified`) nor notify it
again (`Reenter`). `trackable_ignored.cfg` and `trackable_reentered.cfg` show what
happens otherwise. The argument of `BaseInv`:

* `Referred`: an object has as many callbacks of a slot_rep as the functor of the rep
  refers to it, from the binding of the functor to its unbinding. This is kept even
  while the list is destroyed, when a removal only empties a callback
  (`trackable.cc:139-155`): `RemovedFacts`.
* `Called`: when the destructor of a list has passed a callback of a slot_rep that is
  not emptied, the invalidation that it began is above it on the stack. That
  unbinds the functor before it returns, unless the rep is deleted first, which
  unbinds it too. So the end of a list finds none of its callbacks in use, and no
  functor refers to a dead object (`Emptied`, `NoDanglingReference`).
* `Walks`: a list has one destructor, and the source of a move assignment is notified
  only by frames above the assignment.
* `Watched`, `Notifiers`: a weak pointer is registered once with the rep it points
  to, and each `notifier` on the stack points to the rep of its frame or the rep is
  freed. With `Held` and `Losing` this gives `WeakPointersTold` and `DestroyedOnce`.

`CallsMatchRegistrations` needs a second invariant, `OwedInv`: what is owed to a user
is the number of registrations that no destructor of the list has passed. It holds
if a user registers the same callback once at a time (`OnceEach`); with two, a
removal by the running callback finds the wrong one (`trackable_removed.cfg`). That
a list without some of its elements has the rest as often as before is proved of
the definition by positions, `Nth` of `Selection`, by counting (`NthFacts`,
`KeepFacts`).

`SignalHandleProofs` proves the properties that `handle_safety` checks. Here the
invariants that are checked are inductive together, once `ImplLife` adds that the
destructor of a `signal_impl` is on the stack just once. The lemmas say that a step
takes the last share from at most one `signal_impl`, so that `Settle` begins at most
one destructor, and that nobody but that destructor empties a list whose
`signal_impl` is dying. `SlotsStay` follows action by action; only `disconnect()`,
`Destroy`, `MoveSignal` and the notification of the source in a move assignment make
a list smaller that lives on. The last of these is easily overlooked: the functors
of the old `signal_impl` are destroyed in the middle of the assignment, and may use
the source, whose slots are told afterwards.

`SlotProofs` proves the six properties that `slot_safety` checks, and `AssignmentTakes`,
for any slots, objects and connections, any number of reps and any nesting, from
`HeapAssumption` (slots, objects, reps and the marks of a functor are different things),
whether or not slots are copied out of functors. Only
`ConnectionsRegistered` has a hypothesis, `~EmptyConn`, that no connection is made to a
slot without a rep; `slot_dangling.cfg` shows what happens otherwise.

The functions of the library are called in heaps that no user ever sees: in the middle
of an assignment a rep has no slot yet, in the middle of a disconnection a rep is
invalid and the slot around it is not. So the invariant is one of a heap, `Inv(h, U,
P, D)`: `U` are the reps that wait for a slot, `P` those whose inner slot may be
invalid, `D` the objects whose end is not yet told to all. Between calls all three are
empty:

* `Owned`: every rep has one slot, which exists.
* `Acyclic`: no slot contains itself or refers to itself, through others. `OwnedOnce`
  needs this: `destroy()` would meet the rep that it is destroying. Assignment keeps it
  as its source does not lead to its target (`LeadsTo`); a copy is a new rep, to which
  nothing leads.
* `Parents`: a parent holds the slot of the rep, or is the list element that has it.
* `Callable`, `Nested`: what can be called refers to nothing that is gone, and a slot
  inside of it can be called and has it for a parent.
* `Refers`: a slot that a functor refers to is there, and in no list.
* `Told`: the list that has a slot for an element is its parent; and `Conns`, for
  connections.

What was hardest is what the functions do to a heap:

* `Destroy` deletes a whole `Chain` of reps, one inside of the other. `DeleteErases` and
  `ErasedDeleted` say what is left: all but the chain, unchanged (`Erased`, `Deleted`).
* `DisconnectKeeps`: a disconnection climbs from parent to parent. Every call takes a
  rep out of those that have a parent (`Nestlings`), so it ends, and what it leaves out
  of order is put right by the outer call (`Disconnected`).
* `NotifiedKeeps`: each callback that is called leaves the list of the object, whatever
  else it disconnects and deletes.
* `CopyKeeps`: a copy of nested slots needs as many reps as they are deep (`Nesting`),
  finds them free, and is no part of what it copies (`Copying`, `CopyMade`).
* `ExchangeKeeps`: the new rep has the parent of the old one before the old one is
  deleted, so for a moment two reps have one parent. That the old one takes neither
  the new rep nor the target with it is `Apart`.

`AssignmentTakes` is an action property: a slot that a valid one is assigned to can be
called, has the functor that the other one had, and is blocked if that was, whatever the
assignment has deleted. Only when it has deleted the source, which may be stored in the
functor of the old rep, nothing is said of `blocked_`: `AssignmentCopies` demands it then
too, and the code violates that (`slot_inner.cfg`). The proof follows the slots through
the assignment: a copy adds slots in functors (`Extended`), the end of the old rep
removes some (`Thinned`), and neither changes `blocked_` of a slot that was there before
and is there after. So the target gets what `blocked_` of the source was at the beginning
(`Assigned`): by a move, because it is read first, and by a copy, which reads it last, if
the source is still there. TLC checks the property with `slot_copies.cfg` in some
minutes, most of which it takes to find out which steps are assignments; that is
no run of the project.

The first lemmas of the module are induction over the natural numbers, from the fact
that they are well-founded, and the existence of functions that are defined by
recursion over them (`AllNumbers`, `Recursion`). With these, each `...Unfolds` lemma
says that a function satisfies the equation that defines it. TLC has checked the
invariant on the instance of `slot_safety`.

What is only model-checked:

* Liveness (`DisconnectedEventuallyFreed`), which is out of the prover's reach.
* `TupleUtils` and `Adaptors`: their operators are recursive over functors and tuples,
  and the SMT backend of the prover does not work in a module that has RECURSIVE
  operators.
* What the violated runs and the further configurations show.

## Plan

All components are modelled. Every safety property of `Signal`, `Trackable`,
`SlotBase`, `Connection`, `SignalHandle` and `Emission` is proved, and both
refinements. What is left: `Adaptors` as recursive functions of the depth of a functor,
in the way of `SlotBase`, so that its properties can be proved too; and an abstract
specification of `SlotBase` as values, which says who is told of whose end.

## Not modelled

Type traits and the overloads of `mem_fun` are resolved at compile time and have no
state. The width of `exec_count_` (`short`): `ExecCountsHolders` is proved for every
depth of the stack, so the counter overflows exactly when more than 32767 holders
are on it. `trackable_callback_list::clear()` and `signal_base::insert()` are called
by nothing in the library. Memory exhaustion, and exceptions from destructors, are
left out. The order in which `compose()` evaluates its two getters is left open by
the language, and the model has no side effects by which to tell. Build files,
examples and tests are not behaviour of the library. Threads are not modelled: the
library neither starts any nor takes a lock, so concurrent use of one signal is
outside of what it does.

## Running

In this directory:

    tlc -workers 2 -config signal_safety.cfg MCSignal
    tlc -workers 2 -config slot_inner.cfg MCSlotBase     # a disagreement
    tlapm SignalProofs.tla                               # likewise the other *Proofs
