------------------------------- MODULE SlotBase -------------------------------
(***************************************************************************)
(* slot_base objects and their slot_reps as values on a heap: construction *)
(* from a functor, copy, move, assignment, parents, slots inside of slots, *)
(* and the weak pointers of connections (slot_base.h, slot_base.cc,        *)
(* slot.h).                                                                *)
(*                                                                         *)
(* The functions of the library call one another through parents and       *)
(* destructors; they are operators from heaps to heaps, and one action is  *)
(* one call by the user with all that it leads to. Functors run no user    *)
(* code when they are destroyed: that is the subject of Signal and         *)
(* Trackable.                                                              *)
(*                                                                         *)
(* A function that calls itself, through others, is a recursive function   *)
(* of the number of calls that may still nest: MaxCalls of them are enough *)
(* for every heap, or else the heap would be misused (see OwnedOnce).      *)
(***************************************************************************)
EXTENDS Integers, Sequences, SequencesExt, FiniteSetsExt, Selection

CONSTANTS
    Slot,       \* the slot_base objects of the user, and list elements
    Object,     \* the trackable objects that functors may refer to
    Conn,       \* the connections, each with its weak_raw_ptr<slot_base>
    MaxReps,    \* bound: the slot_reps that exist at a time
    MaxNesting, \* bound: the slots that are nested in one another
    EmptyConn,  \* whether connections are made to slots without a rep
    InnerSource \* whether slots are copied out of functors

ASSUME HeapAssumption ==
    /\ MaxReps \in Nat /\ MaxNesting \in Nat
    /\ EmptyConn \in BOOLEAN /\ InnerSource \in BOOLEAN
    /\ Slot \cap Int = {} /\ Object \cap Int = {} /\ Slot \cap Object = {}
    /\ {"inner", "gone", "free"} \cap (Slot \cup Object) = {}

Rep == 1 .. MaxReps
Null == 0

\* A slot_base is a slot of the user, or stored in the functor of a rep.
Holder == Slot \cup Rep

(***************************************************************************)
(* heap.rep       rep_ of each slot_base                                   *)
(* heap.blocked   the slot_bases whose blocked_ is true                    *)
(* heap.alive     the slots that exist                                     *)
(* heap.call      the reps whose call_ is not null                         *)
(* heap.functor   what the functor of a rep refers to: an object, a slot   *)
(*                (by std::ref), "inner" for the slot that it contains;    *)
(*                "gone" if there is none (any more), "free" if no rep     *)
(* heap.parent    parent_ of each rep: an outer rep, or the slot itself if *)
(*                it is an element of a list that is to be notified        *)
(* heap.watch     the reps in the callback list of each object             *)
(* heap.told      the connections in the callback list of each rep         *)
(* heap.conn      p_ of each connection                                    *)
(* heap.dead      the objects that are gone                                *)
(* heap.listed    history: the slots in lists that have not been notified  *)
(* heap.misused   history: whether a rep was used after it was deleted     *)
(* heap.defers    whether lists put the erasure of their elements off      *)
(* heap.garbage   what blocked_ of a slot reads that does not exist        *)
(***************************************************************************)
VARIABLES
    heap,
    made    \* history: the slot that each connection was made for

vars == <<heap, made>>

Heap ==
    [rep     : [Holder -> Rep \cup {Null}],
     blocked : SUBSET Holder,
     alive   : SUBSET Slot,
     call    : SUBSET Rep,
     functor : [Rep -> Object \cup Slot \cup {"inner", "gone", "free"}],
     parent  : [Rep -> Holder \cup {Null}],
     watch   : [Object -> Seq(Rep)],
     told    : [Rep -> SUBSET Conn],
     conn    : [Conn -> Slot \cup {Null}],
     dead    : SUBSET Object,
     listed  : SUBSET Slot,
     misused : BOOLEAN,
     defers  : BOOLEAN,
     garbage : BOOLEAN]

\* Every variable has a value of its type; the callbacks of an object are
\* those of the reps whose functor refers to it, each of them once.
TypeOK ==
    /\ heap \in Heap
    /\ made \in [Conn -> Slot \cup {Null}]
    /\ \A o \in Object :
          /\ IsInjective(heap.watch[o])
          /\ ToSet(heap.watch[o]) = {r \in Rep : heap.functor[r] = o}

-----------------------------------------------------------------------------
(***************************************************************************)
(* Helpers.                                                                *)
(***************************************************************************)
FreeReps(h) == {r \in Rep : h.functor[r] = "free"}

Misuse(h) == [h EXCEPT !.misused = TRUE]

\* No function calls itself for every rep, and once more, and goes on.
MaxCalls == MaxReps + 1

Empty(h, s) == h.rep[s] \notin h.call

\* Mutant: a slot inside of a slot gets no parent.
NotAdopted(h, s, r) == h

\* set_parent() of visitor<slot> for a slot at s in the functor of r: only if
\* the slot has no parent yet.
AdoptSlot(h, s, r) ==
    IF h.rep[s] # Null /\ h.parent[h.rep[s]] = Null
    THEN [h EXCEPT !.parent[h.rep[s]] = r]
    ELSE h

\* unset_parent() of visitor<slot>: only if the outer rep is the parent.
ReleaseSlot(h, s, r) ==
    IF h.rep[s] # Null /\ h.parent[h.rep[s]] = r
    THEN [h EXCEPT !.parent[h.rep[s]] = Null]
    ELSE h

\* visit_each_trackable(slot_do_bind(r))
Bind(h, r) ==
    LET f == h.functor[r]
    IN  IF f \in Object THEN [h EXCEPT !.watch[f] = Append(@, r)]
        ELSE AdoptSlot(h, IF f \in Slot THEN f ELSE r, r)

\* Mutant: only slots are released, objects keep their callbacks.
UnbindSlots(h, r) ==
    LET f == h.functor[r]
    IN  IF f \in Object THEN h
        ELSE ReleaseSlot(h, IF f \in Slot THEN f ELSE r, r)

\* visit_each_trackable(slot_do_unbind(r))
Unbind(h, r) ==
    LET f == h.functor[r]
    IN  IF f \in Object
        THEN [h EXCEPT !.watch[f] = InOrder(@, {i \in DOMAIN @ : @[i] # r})]
        ELSE ReleaseSlot(h, IF f \in Slot THEN f ELSE r, r)

\* trackable::notify_callbacks() of a rep: the connections become empty.
NotifyConnections(h, r) ==
    [h EXCEPT !.conn = [c \in Conn |-> IF c \in h.told[r] THEN Null ELSE @[c]],
              !.told[r] = {}]

\* destroy() of a rep whose functor contains no slot.
Unbound(h, r) == [Unbind(h, r) EXCEPT !.call = @ \ {r}, !.functor[r] = "gone"]

\* The rest of delete rep_, after destroy().
Freed(h, r) ==
    [NotifyConnections(h, r) EXCEPT
        !.functor[r] = "free", !.parent[r] = Null, !.blocked = @ \ {r}]

\* The slot at s has deleted its rep.
Emptied(h, s) == [h EXCEPT !.rep[s] = Null, !.blocked = @ \ {s}]

\* typed_slot_rep::destroy(); the slot in the functor is destroyed with it, and
\* its rep by D.
DestroyUsing(D, h, r) ==
    IF h.functor[r] = "free" THEN Misuse(h)
    ELSE IF h.functor[r] = "gone" THEN [h EXCEPT !.call = @ \ {r}]
    ELSE IF h.rep[r] = Null THEN Unbound(h, r)
    ELSE LET inner == h.rep[r]
         IN  Emptied(Freed(D[Unbound(h, r)][inner], inner), r)

DestroyWithin[n \in Nat] ==
    [h \in Heap |-> [r \in Rep |->
        IF n = 0 THEN Misuse(h) ELSE DestroyUsing(DestroyWithin[n - 1], h, r)]]

Destroy(h, r) == DestroyWithin[MaxCalls][h][r]

\* delete rep_
DeleteRep(h, r) == Freed(Destroy(h, r), r)

\* slot_base::~slot_base()
DestroySlot(h, s) ==
    LET emptied == IF h.rep[s] = Null THEN h ELSE DeleteRep(h, h.rep[s])
    IN  [Emptied(emptied, s) EXCEPT !.alive = @ \ {s}, !.listed = @ \ {s}]

\* The rest of slot_rep::notify_slot_rep_invalidated(), after disconnect(); the
\* notifier tells whether the rep is still there.
DestroyedIfThere(h, r) == IF h.functor[r] = "free" THEN h ELSE Destroy(h, r)

\* What slot_rep::disconnect() does before it notifies the parent.
Invalid(h, r) == [h EXCEPT !.call = @ \ {r}, !.parent[r] = Null]

\* slot_rep::disconnect(): the parent is an outer rep, which D disconnects, or
\* the list that has the slot for an element and erases it now or later.
DisconnectUsing(D, h, r) ==
    LET p == h.parent[r]
        invalid == Invalid(h, r)
    IN  IF p = Null THEN invalid
        ELSE IF p \in Rep THEN DestroyedIfThere(D[invalid][p], p)
        ELSE IF h.defers THEN [invalid EXCEPT !.listed = @ \ {p}]
        ELSE DestroySlot(invalid, p)

DisconnectWithin[n \in Nat] ==
    [h \in Heap |-> [r \in Rep |->
        IF n = 0 THEN Misuse(h) ELSE DisconnectUsing(DisconnectWithin[n - 1], h, r)]]

Disconnect(h, r) == DisconnectWithin[MaxCalls][h][r]

\* slot_rep::notify_slot_rep_invalidated()
Invalidated(h, r) == DestroyedIfThere(Disconnect(h, r), r)

\* ~trackable(): every callback removes itself from the list.
NotifyUsing(N, h, o) ==
    IF h.watch[o] = <<>> THEN h ELSE N[Invalidated(h, Head(h.watch[o]))][o]

NotifyWithin[n \in Nat] ==
    [h \in Heap |-> [o \in Object |->
        IF n = 0 THEN Misuse(h) ELSE NotifyUsing(NotifyWithin[n - 1], h, o)]]

Notified(h, o) == NotifyWithin[MaxCalls][h][o]

(***************************************************************************)
(* Copies.                                                                 *)
(***************************************************************************)
NestingUsing(N, h, s) ==
    IF Empty(h, s) THEN 0
    ELSE IF h.functor[h.rep[s]] = "inner" THEN 1 + N[h][h.rep[s]]
    ELSE 1

NestingWithin[n \in Nat] ==
    [h \in Heap |-> [s \in Holder |->
        IF n = 0 THEN 0 ELSE NestingUsing(NestingWithin[n - 1], h, s)]]

Nesting(h, s) == NestingWithin[MaxCalls][h][s]

\* With a slot, L has those that a call of it leads to.
Closed(h, L) ==
    \A s \in L : h.rep[s] # Null =>
        /\ h.functor[h.rep[s]] = "inner" => h.rep[s] \in L
        /\ h.functor[h.rep[s]] \in Slot => h.functor[h.rep[s]] \in L

\* A call of the slot at s leads to a call of the one at t.
LeadsTo(h, s, t) == \A L \in SUBSET Holder : s \in L /\ Closed(h, L) => t \in L

\* There is room for a copy of the slot at s, nested in n more slots.
Room(h, s, n) ==
    /\ Nesting(h, s) + n <= MaxNesting
    /\ Nesting(h, s) + n <= Cardinality(FreeReps(h))

\* The memory of a new rep, whose functor is yet to be made.
Taken(h, r) == [h EXCEPT !.functor[r] = "gone"]

\* new typed_slot_rep of the functor f, whose inner slot, if it has one, is
\* then in the heap as the slot_base r.
NewRep(h, r, f) ==
    Bind([h EXCEPT !.functor[r] = f, !.call = @ \cup {r}, !.parent[r] = Null], r)

\* The slot at dst gets the rep r, and whether the original is blocked.
Copied(h, dst, r, isBlocked) ==
    [h EXCEPT !.rep[dst] = r, !.blocked = IF isBlocked THEN @ \cup {dst} ELSE @ \ {dst}]

\* typed_slot_rep::clone() of the rep that src holds, to the new rep r: first
\* the functor is copied, by C the slot that it contains.
CloneUsing(C, h, src, r) ==
    LET f == h.functor[h.rep[src]]
        taken == Taken(h, r)
    IN  NewRep(IF f = "inner" THEN C[taken][r][h.rep[src]] ELSE taken, r, f)

\* slot_base(const slot_base&): an invalid slot gives the default slot.
CopyUsing(C, h, dst, src) ==
    IF h.rep[src] = Null THEN Copied(h, dst, Null, src \in h.blocked)
    ELSE IF Empty(h, src) THEN Copied(h, dst, Null, FALSE)
    ELSE IF FreeReps(h) = {} THEN Misuse(h)
    ELSE LET r == Min(FreeReps(h))
         IN  Copied(CloneUsing(C, h, src, r), dst, r, src \in h.blocked)

CopyWithin[n \in Nat] ==
    [h \in Heap |-> [dst \in Holder |-> [src \in Holder |->
        IF n = 0 THEN Misuse(h) ELSE CopyUsing(CopyWithin[n - 1], h, dst, src)]]]

CopySlot(h, dst, src) == CopyWithin[MaxCalls][h][dst][src]

Clone(h, src, r) == CloneUsing(CopyWithin[MaxCalls], h, src, r)

\* The rep of src, to be given to another slot: src is left without.
Steal(h, src) ==
    [NotifyConnections(h, h.rep[src]) EXCEPT !.rep[src] = Null, !.blocked = @ \ {src}]

\* Mutant: a slot that is connected is moved like any other.
MoveAlways(h, dst, src) ==
    IF h.rep[src] = Null THEN CopySlot(h, dst, src)
    ELSE Copied(Steal(h, src), dst, h.rep[src], src \in h.blocked)

\* slot_base(slot_base&&): a slot with a parent is copied.
MoveSlot(h, dst, src) ==
    IF h.rep[src] = Null \/ h.parent[h.rep[src]] # Null
    THEN CopySlot(h, dst, src)
    ELSE Copied(Steal(h, src), dst, h.rep[src], src \in h.blocked)

\* Mutant: nobody asks whether disconnect() has deleted the rep.
DeleteRepUnchecked(h, s) ==
    LET r == h.rep[s]
    IN  IF r = Null THEN h
        ELSE [DeleteRep(Disconnect(h, r), r) EXCEPT !.rep[s] = Null]

\* slot_base::delete_rep_with_check(): disconnect() may delete the rep, and
\* the slot.
DeleteRepWithCheck(h, s) ==
    LET r == h.rep[s]
        after == Disconnect(h, r)
    IN  IF r = Null THEN h
        ELSE IF after.functor[r] = "free" THEN after
        ELSE [DeleteRep(after, r) EXCEPT !.rep[s] = Null]

\* Mutant: the new rep is not given the parent of the old one.
ExchangeOrphaned(h, dst, r) ==
    [(IF h.rep[dst] = Null THEN h ELSE DeleteRep(h, h.rep[dst])) EXCEPT !.rep[dst] = r]

\* "Silently exchange the slot_rep": the new rep gets the parent of the old.
Exchange(h, dst, r) ==
    LET old == h.rep[dst]
    IN  IF old = Null THEN [h EXCEPT !.rep[dst] = r]
        ELSE [DeleteRep([h EXCEPT !.parent[r] = h.parent[old]], old) EXCEPT !.rep[dst] = r]

SameBlocked(h, dst, src) ==
    LET exists == src \in h.alive \/ (src \in Rep /\ h.functor[src] = "inner")
        value == IF exists THEN src \in h.blocked ELSE h.garbage
    IN  [h EXCEPT !.blocked = IF value THEN @ \cup {dst} ELSE @ \ {dst}]

\* operator=(const slot_base&): blocked_ is read at the end, when the old rep
\* of dst is gone and src with it, if it was stored in there.
Assign(h, dst, src) ==
    LET r == Min(FreeReps(h))
    IN  IF h.rep[src] = h.rep[dst] THEN SameBlocked(h, dst, src)
        ELSE IF Empty(h, src) THEN DeleteRepWithCheck(h, dst)
        ELSE SameBlocked(Exchange(Clone(h, src, r), dst, r), dst, src)

\* operator=(slot_base&&): blocked_ is read first.
MoveAssign(h, dst, src) ==
    LET r == h.rep[src]
        new == Min(FreeReps(h))
        h1 == SameBlocked(h, dst, src)
    IN  IF r = h.rep[dst] THEN h1
        ELSE IF Empty(h, src) THEN DeleteRepWithCheck(h, dst)
        ELSE IF h.parent[r] # Null THEN Exchange(Clone(h1, src, new), dst, new)
        ELSE Exchange(Steal(h1, src), dst, r)

\* slot_base::set_parent(): a slot without a rep gets a dummy_slot_rep.
SetParent(h, s) ==
    LET r == IF h.rep[s] # Null THEN h.rep[s] ELSE Min(FreeReps(h))
        dummy == IF h.rep[s] # Null THEN h ELSE [Taken(h, r) EXCEPT !.rep[s] = r]
    IN  [dummy EXCEPT !.parent[r] = s, !.listed = @ \cup {s}]

-----------------------------------------------------------------------------
(***************************************************************************)
(* The calls of the user.                                                  *)
(***************************************************************************)
Init ==
    /\ heap = [rep     |-> [s \in Holder |-> Null],
               blocked |-> {},
               alive   |-> {},
               call    |-> {},
               functor |-> [r \in Rep |-> "free"],
               parent  |-> [r \in Rep |-> Null],
               watch   |-> [o \in Object |-> <<>>],
               told    |-> [r \in Rep |-> {}],
               conn    |-> [c \in Conn |-> Null],
               dead    |-> {},
               listed  |-> {},
               misused |-> FALSE,
               defers  |-> FALSE,
               garbage |-> FALSE]
    /\ made = [c \in Conn |-> Null]

\* The heap in which a call of the library begins, and lists erase at once or
\* not; the one in which it ends.
Begun == {[heap EXCEPT !.defers = d] : d \in {FALSE, heap.listed # {}}}

Ends(h) ==
    /\ heap' = [h EXCEPT !.defers = FALSE, !.garbage = FALSE]
    /\ UNCHANGED made

\* The slots that may be copied from.
Source == heap.alive \cup
    {r \in Rep : InnerSource /\ heap.functor[r] = "inner"}

\* A slot that a functor refers to by std::ref must outlive the functor, and
\* is not an element of a list.
Referred(s) == \E r \in Rep : heap.functor[r] = s

HasParent(s) == heap.rep[s] # Null /\ heap.parent[heap.rep[s]] # Null

Begin(h, s) == [h EXCEPT !.alive = @ \cup {s}]

\* slot()
NewDefaultSlot(s) ==
    /\ s \notin heap.alive
    /\ \E h \in Begun : Ends(Begin(h, s))

\* slot(const T_functor&), of a functor that refers to f
NewSlot(s, f) ==
    /\ s \notin heap.alive
    /\ FreeReps(heap) # {}
    /\ LET r == Min(FreeReps(heap))
       IN  \E h \in Begun :
              Ends([NewRep(Taken(Begin(h, s), r), r, f) EXCEPT !.rep[s] = r])

\* slot(const T_functor&), of a functor that contains a copy of the slot t
NewOuterSlot(s, t) ==
    /\ s \notin heap.alive
    /\ Room(heap, t, 1)
    /\ LET r == Min(FreeReps(heap))
           Inner(h) == CopySlot(Taken(Begin(h, s), r), r, t)
       IN  \E h \in Begun : Ends([NewRep(Inner(h), r, "inner") EXCEPT !.rep[s] = r])

\* slot(const slot&), slot(slot&&)
CopyOrMove(s, t) ==
    /\ s \notin heap.alive
    /\ Room(heap, t, 0)
    /\ \E h \in Begun :
          \/ Ends(CopySlot(Begin(h, s), s, t))
          \/ Ends(MoveSlot(Begin(h, s), s, t))

\* A slot is not made to call itself.
AssignSlot(s, t) ==
    /\ s \in heap.alive
    /\ s # t => ~LeadsTo(heap, t, s)
    /\ Room(heap, t, 0)
    /\ \E g \in IF t \in Rep THEN BOOLEAN ELSE {FALSE}, h \in Begun :
          \/ Ends(Assign([h EXCEPT !.garbage = g], s, t))
          \/ Ends(MoveAssign([h EXCEPT !.garbage = g], s, t))

EndSlot(s) ==
    /\ s \in heap.alive
    /\ ~Referred(s)
    /\ \E h \in Begun : Ends(DestroySlot(h, s))

\* The slot becomes an element of a list.
ListSlot(s) ==
    /\ s \in heap.alive
    /\ ~Referred(s) /\ ~HasParent(s)
    /\ FreeReps(heap) # {}
    /\ \E h \in Begun : Ends(SetParent(h, s))

DisconnectSlot(s) ==
    /\ s \in heap.alive
    /\ heap.rep[s] # Null
    /\ \E h \in Begun : Ends(Disconnect(h, h.rep[s]))

BlockSlot(s) ==
    /\ s \in heap.alive
    /\ \E h \in Begun :
          Ends([h EXCEPT !.blocked = IF s \in @ THEN @ \ {s} ELSE @ \cup {s}])

EndObject(o) ==
    /\ o \notin heap.dead
    /\ \E h \in Begun : Ends(Notified([h EXCEPT !.dead = @ \cup {o}], o))

(***************************************************************************)
(* Connections. The callback is installed in the rep that the slot has at  *)
(* the time, and removed from the one that it has later.                   *)
(***************************************************************************)
Unwatched(h, c) ==
    LET s == h.conn[c]
    IN  IF s # Null /\ h.rep[s] # Null
        THEN [h EXCEPT !.told[h.rep[s]] = @ \ {c}, !.conn[c] = Null]
        ELSE [h EXCEPT !.conn[c] = Null]

Watched(h, c, s) ==
    IF h.rep[s] # Null
    THEN [h EXCEPT !.told[h.rep[s]] = @ \cup {c}, !.conn[c] = s]
    ELSE [h EXCEPT !.conn[c] = s]

\* Mutant: the callback of the old slot is left behind.
ConnectOnly(c, s) ==
    /\ s \in heap.alive
    /\ heap.rep[s] = Null => EmptyConn
    /\ heap' = Watched(heap, c, s)
    /\ made' = [made EXCEPT ![c] = s]

\* connection(slot_base&), and the assignment of such a connection.
Connect(c, s) ==
    /\ s \in heap.alive
    /\ heap.rep[s] = Null => EmptyConn
    /\ heap' = Watched(Unwatched(heap, c), c, s)
    /\ made' = [made EXCEPT ![c] = s]

EndConnection(c) ==
    /\ heap.conn[c] \in heap.alive
    /\ heap' = Unwatched(heap, c)
    /\ made' = [made EXCEPT ![c] = Null]

DisconnectThrough(c) ==
    /\ heap.conn[c] \in heap.alive
    /\ heap.rep[heap.conn[c]] # Null
    /\ \E h \in Begun : Ends(Disconnect(h, h.rep[h.conn[c]]))

Next ==
    \/ \E s \in Slot : NewDefaultSlot(s) \/ EndSlot(s) \/ ListSlot(s)
                        \/ DisconnectSlot(s) \/ BlockSlot(s)
    \/ \E s \in Slot, f \in (Object \ heap.dead) \cup (heap.alive \ heap.listed) :
          NewSlot(s, f)
    \/ \E s \in Slot, t \in heap.alive : NewOuterSlot(s, t)
    \/ \E s \in Slot, t \in Source : CopyOrMove(s, t) \/ AssignSlot(s, t)
    \/ \E o \in Object : EndObject(o)
    \/ \E c \in Conn : EndConnection(c) \/ DisconnectThrough(c)
    \/ \E c \in Conn, s \in Slot : Connect(c, s)

Spec == Init /\ [][Next]_vars

-----------------------------------------------------------------------------
(***************************************************************************)
(* Safety.                                                                 *)
(***************************************************************************)
Existing == heap.alive \cup {r \in Rep : heap.functor[r] = "inner"}

\* Every rep belongs to exactly one slot that exists: none is leaked, none is
\* deleted under its slot, none is shared; and none is deleted or destroyed
\* again that disconnect() has deleted already, with the slot that held it.
\* (slot_base.cc:78-87, 96-246)
OwnedOnce ==
    /\ ~heap.misused
    /\ \A r \in Rep :
          LET owners == {s \in Holder : heap.rep[s] = r}
          IN  IF heap.functor[r] = "free" THEN owners = {}
              ELSE Cardinality(owners) = 1 /\ owners \subseteq Existing

\* A parent that a rep would notify is there to be notified: an outer rep
\* whose functor holds the slot or refers to it, or the list element that has
\* the rep. (slot.h:300-317; slot_base.h:90-103)
ParentExists ==
    \A r \in Rep : heap.functor[r] # "free" /\ heap.parent[r] # Null =>
        LET p == heap.parent[r]
        IN  IF p \in Rep
            THEN \/ heap.functor[p] = "inner" /\ heap.rep[p] = r
                 \/ heap.functor[p] \in Slot /\ heap.rep[heap.functor[p]] = r
            ELSE heap.rep[p] = r

\* A slot that can be called refers to no object that is gone, neither itself
\* nor through a slot that its functor contains: "The outer slot is informed
\* just as if one of its directly referenced objects had been deleted."
\* (slot.h:289-293)
NothingGoneIsCalled ==
    \A r \in heap.call :
        /\ heap.functor[r] \notin heap.dead \cup {"gone", "free"}
        /\ heap.functor[r] = "inner" /\ heap.rep[r] # Null => heap.rep[r] \in heap.call

\* A list is told of each of its slots that becomes invalid, also after other
\* slots were assigned to it: until then the rep has the list for a parent.
\* (slot_base.cc:193-197, 239-243)
ListKeepsItsSlots ==
    \A s \in heap.listed : heap.rep[s] # Null /\ heap.parent[heap.rep[s]] = s

\* "Set to nullptr when the referred slot is deleted." (connection.h:109)
ConnectionNotDangling ==
    \A c \in Conn : heap.conn[c] # Null => heap.conn[c] \in heap.alive

\* No connection points to a slot that is gone; the callback of a connection
\* is in the rep of the slot that it points to, and no rep has a callback into
\* another. (connection.h:109; weak_raw_ptr.h:36-75)
ConnectionsRegistered ==
    /\ ConnectionNotDangling
    /\ \A c \in Conn, r \in Rep :
          c \in heap.told[r] <=> heap.conn[c] # Null /\ heap.rep[heap.conn[c]] = r

\* A connection is not null before the slot that it was made for is deleted,
\* or moved from. (connection.h:109-112)
ConnectionStays ==
    \A c \in Conn :
        made[c] \in heap.alive /\ ~Empty(heap, made[c]) => heap.conn[c] = made[c]

\* The copy of a slot is blocked if the original is. (slot.h:259-263)
AssignmentCopies ==
    [][\A s \in Slot, t \in Source :
          AssignSlot(s, t) /\ ~Empty(heap, t)
              => (s \in heap.blocked' <=> t \in heap.blocked)]_vars

\* The slot at s has taken over what can be called through the one at t, and
\* is blocked if that was; unless that is gone.
TakesOver(s, t) ==
    /\ ~Empty(heap', s)
    /\ heap.functor'[heap.rep'[s]] = heap.functor[heap.rep[t]]
    /\ t \in Existing' => (s \in heap.blocked' <=> t \in heap.blocked)

\* A slot that a valid one is assigned to can be called, has the functor that
\* the other one had, and is blocked if that was: whatever the assignment has
\* deleted, unless it has deleted the slot that it copies from.
\* (slot.h:259-274; slot_base.cc:173-246)
AssignmentTakes ==
    [][\A s \in Slot, t \in Source :
          ~Empty(heap, t) /\ ~TakesOver(s, t) => ~AssignSlot(s, t)]_vars

=============================================================================
