----------------------------- MODULE Connection -----------------------------
(***************************************************************************)
(* connection and scoped_connection (connection.h, connection.cc,          *)
(* scoped_connection.h, scoped_connection.cc) over the slots of a signal.  *)
(*                                                                         *)
(* A connection is a weak_raw_ptr to a slot; it is null as soon as the rep *)
(* of the slot is deleted. disconnect() may erase the slot, and then runs  *)
(* the destructor of its functor: user code, in the middle of an           *)
(* assignment or of the destructor of a scoped connection. The variable    *)
(* stack holds the functions that have not returned.                       *)
(***************************************************************************)
EXTENDS Integers, Sequences

CONSTANTS
    Slot,
    Conn,           \* the connection objects of users
    Scoped,         \* the scoped_connection objects
    MaxStack,       \* bound: operations begin on a stack shorter than this
    TouchAssigned   \* whether user code that an assignment to a scoped
                    \* connection runs may use that same object

Temp == 1 .. MaxStack   \* the parameter of operator= at each depth
Null == "nullptr"
Pointer == Conn \cup Scoped \cup Temp

ASSUME ConnectionAssumption ==
    /\ MaxStack \in Nat
    /\ TouchAssigned \in BOOLEAN
    /\ Conn \cap Scoped = {} /\ Conn \cap Temp = {} /\ Scoped \cap Temp = {}
    /\ Null \notin Slot

VARIABLES
    slot,       \* "none" before it is connected, "valid", "invalid" when it
                \* is disconnected, "dying" in ~slot_rep, "gone"
    pointer,    \* slot_.p_ of each connection; a scoped one has it in conn_
    alive,      \* the scoped connections that exist
    stack       \* the functions of the library that have not returned

vars == <<slot, pointer, alive, stack>>

(***************************************************************************)
(* The frames of the stack.                                                *)
(*   erase   the deletion of the rep of slot of: user code runs in it      *)
(*   assign  scoped_connection::operator=(connection) of the object of,    *)
(*           after conn_.disconnect(); its parameter is with               *)
(*   move    operator=(scoped_connection&&), whose source is with          *)
(*   dtor    ~scoped_connection, after conn_.disconnect()                  *)
(***************************************************************************)
Frame == [op : {"erase"}, of : Slot, with : {Null}]
           \cup [op : {"assign"}, of : Scoped, with : Temp]
           \cup [op : {"move"}, of : Scoped, with : Scoped]
           \cup [op : {"dtor"}, of : Scoped, with : {Null}]

Fr(op, x, y) == [op |-> op, of |-> x, with |-> y]

Top == stack[Len(stack)]

TopIs(op) == stack # <<>> /\ Top.op = op

Caller == SubSeq(stack, 1, Len(stack) - 1)

\* Every variable has a value of its type; what does not exist, a scoped
\* connection or the parameter of a function, points nowhere.
TypeOK ==
    /\ slot \in [Slot -> {"none", "valid", "invalid", "dying", "gone"}]
    /\ pointer \in [Pointer -> Slot \cup {Null}]
    /\ alive \subseteq Scoped
    /\ stack \in Seq(Frame)
    /\ \A sc \in Scoped \ alive : pointer[sc] = Null
    /\ \A t \in Temp : pointer[t] # Null =>
          t \in DOMAIN stack /\ stack[t].op = "assign" /\ stack[t].with = t

Init ==
    /\ slot = [s \in Slot |-> "none"]
    /\ pointer = [p \in Pointer |-> Null]
    /\ alive = {}
    /\ stack = <<>>

-----------------------------------------------------------------------------
UserTurn == stack # <<>> => Top.op = "erase"

\* The scoped connections that a function further down works on. One that is
\* being destroyed is not used in any case, and one that is being assigned to
\* only if TouchAssigned says so. The source of a move assignment is read when
\* the old slot is disconnected, and may be used until then, but not destroyed.
Assigned == {sc \in Scoped : \E i \in DOMAIN stack :
                stack[i].op \in {"assign", "move"} /\ stack[i].of = sc}

Source == {sc \in Scoped : \E i \in DOMAIN stack :
              stack[i].op = "move" /\ stack[i].with = sc}

Busy == {sc \in Scoped : \E i \in DOMAIN stack :
            stack[i].op = "dtor" /\ stack[i].of = sc}

\* The scoped connections that user code may use now.
Usable == alive \ (IF TouchAssigned THEN Busy ELSE Busy \cup Assigned)

\* connection::disconnect() of the pointer p, in a function whose frames are
\* then stk. The signal erases the slot at once, or after its emission.
Disconnect(p, stk) ==
    LET s == pointer[p]
    IN  IF s # Null /\ slot[s] = "valid"
        THEN \/ /\ slot' = [slot EXCEPT ![s] = "dying"]
                /\ stack' = Append(stk, Fr("erase", s, Null))
             \/ /\ slot' = [slot EXCEPT ![s] = "invalid"]
                /\ stack' = stk
        ELSE stack' = stk /\ UNCHANGED slot

(***************************************************************************)
(* What user code does with connections.                                   *)
(***************************************************************************)
\* signal::connect()
Connect(c, s) ==
    /\ slot[s] = "none"
    /\ slot' = [slot EXCEPT ![s] = "valid"]
    /\ pointer' = [pointer EXCEPT ![c] = s]
    /\ UNCHANGED <<alive, stack>>

\* connection::operator=, its copy constructor and destructor.
CopyConn(c, p) ==
    /\ pointer' = [pointer EXCEPT ![c] = IF p = Null THEN Null ELSE pointer[p]]
    /\ UNCHANGED <<slot, alive, stack>>

DisconnectSlot(p) ==
    /\ Disconnect(p, stack)
    /\ UNCHANGED <<pointer, alive>>

\* signal_impl::sweep(), at the end of an emission.
Sweep(s) ==
    /\ slot[s] = "invalid"
    /\ slot' = [slot EXCEPT ![s] = "dying"]
    /\ stack' = Append(stack, Fr("erase", s, Null))
    /\ UNCHANGED <<pointer, alive>>

(***************************************************************************)
(* scoped_connection.                                                      *)
(***************************************************************************)
\* scoped_connection(), scoped_connection(connection)
NewScoped(sc, c) ==
    /\ sc \notin alive
    /\ alive' = alive \cup {sc}
    /\ pointer' = [pointer EXCEPT ![sc] = IF c = Null THEN Null ELSE pointer[c]]
    /\ UNCHANGED <<slot, stack>>

\* scoped_connection(scoped_connection&&)
MoveScoped(sc, from) ==
    /\ sc \notin alive
    /\ from \in Usable
    /\ alive' = alive \cup {sc}
    /\ pointer' = [pointer EXCEPT ![from] = Null, ![sc] = pointer[from]]
    /\ UNCHANGED <<slot, stack>>

\* Mutant: the old slot is not disconnected.
AssignOnly(sc, c) ==
    /\ sc \in Usable
    /\ Len(stack) < MaxStack
    /\ LET temp == Len(stack) + 1
       IN  /\ pointer' = [pointer EXCEPT ![temp] = pointer[c]]
           /\ stack' = Append(stack, Fr("assign", sc, temp))
    /\ UNCHANGED <<slot, alive>>

\* operator=(connection): the parameter is a copy of c.
Assign(sc, c) ==
    /\ sc \in Usable
    /\ Len(stack) < MaxStack
    /\ LET temp == Len(stack) + 1
       IN  /\ pointer' = [pointer EXCEPT ![temp] = pointer[c]]
           /\ Disconnect(sc, Append(stack, Fr("assign", sc, temp)))
    /\ UNCHANGED alive

\* operator=(scoped_connection&&)
MoveAssign(sc, from) ==
    /\ {sc, from} \subseteq Usable
    /\ Len(stack) < MaxStack
    /\ Disconnect(sc, Append(stack, Fr("move", sc, from)))
    /\ UNCHANGED <<pointer, alive>>

\* ~scoped_connection(), of an object that is not being assigned to or from.
EndScoped(sc) ==
    /\ sc \in Usable \ (Assigned \cup Source)
    /\ Disconnect(sc, Append(stack, Fr("dtor", sc, Null)))
    /\ UNCHANGED <<pointer, alive>>

Swap(sca, scb) ==
    /\ {sca, scb} \subseteq Usable
    /\ pointer' = [pointer EXCEPT ![sca] = pointer[scb], ![scb] = pointer[sca]]
    /\ UNCHANGED <<slot, alive, stack>>

\* The connection that release() returns is assigned to c.
Release(sc, c) ==
    /\ sc \in Usable
    /\ pointer' = [pointer EXCEPT ![sc] = Null, ![c] = pointer[sc]]
    /\ UNCHANGED <<slot, alive, stack>>

UserOperation ==
    /\ UserTurn
    /\ \/ \E c \in Conn, s \in Slot : Connect(c, s)
       \/ \E c \in Conn, p \in Conn \cup {Null} : CopyConn(c, p)
       \/ \E p \in Conn \cup Usable : DisconnectSlot(p)
       \/ \E s \in Slot : Sweep(s)
       \/ \E sc \in Scoped, c \in Conn \cup {Null} : NewScoped(sc, c)
       \/ \E sc, from \in Scoped : MoveScoped(sc, from) \/ MoveAssign(sc, from)
       \/ \E sc \in Scoped, c \in Conn : Assign(sc, c) \/ Release(sc, c)
       \/ \E sc \in Scoped : EndScoped(sc)
       \/ \E sca, scb \in Scoped : sca # scb /\ Swap(sca, scb)

(***************************************************************************)
(* The functions go on when user code returns.                             *)
(***************************************************************************)
\* Mutant: the rep is deleted without a notification.
ErasedInSilence ==
    /\ TopIs("erase")
    /\ slot' = [slot EXCEPT ![Top.of] = "gone"]
    /\ stack' = Caller
    /\ UNCHANGED <<pointer, alive>>

\* The destructor of the functor has returned; ~trackable of the rep sets
\* every weak pointer to it to null.
Erased ==
    /\ TopIs("erase")
    /\ slot' = [slot EXCEPT ![Top.of] = "gone"]
    /\ pointer' = [p \in Pointer |-> IF pointer[p] = Top.of THEN Null ELSE pointer[p]]
    /\ stack' = Caller
    /\ UNCHANGED alive

\* conn_ = std::move(c), and the end of the parameter.
Assigning ==
    /\ TopIs("assign")
    /\ pointer' = [pointer EXCEPT ![Top.with] = Null, ![Top.of] = pointer[Top.with]]
    /\ stack' = Caller
    /\ UNCHANGED <<slot, alive>>

\* conn_ = std::exchange(sc.conn_, connection())
Moving ==
    /\ TopIs("move")
    /\ pointer' = [pointer EXCEPT ![Top.with] = Null, ![Top.of] = pointer[Top.with]]
    /\ stack' = Caller
    /\ UNCHANGED <<slot, alive>>

\* Mutant: the pointer stays registered after the object is gone.
EndedInSilence ==
    /\ TopIs("dtor")
    /\ alive' = alive \ {Top.of}
    /\ stack' = Caller
    /\ UNCHANGED <<slot, pointer>>

\* ~connection of conn_
Ended ==
    /\ TopIs("dtor")
    /\ pointer' = [pointer EXCEPT ![Top.of] = Null]
    /\ alive' = alive \ {Top.of}
    /\ stack' = Caller
    /\ UNCHANGED slot

Next == UserOperation \/ Erased \/ Assigning \/ Moving \/ Ended

Spec == Init /\ [][Next]_vars

-----------------------------------------------------------------------------
(***************************************************************************)
(* Safety.                                                                 *)
(***************************************************************************)
\* No connection, scoped or not, and no temporary one points to a slot whose
\* rep is deleted, whatever was assigned by user code while it was being
\* deleted. (connection.h:109; weak_raw_ptr.h:85-92)
NoDanglingPointer ==
    \A p \in Pointer : pointer[p] # Null => slot[pointer[p]] \notin {"none", "gone"}

\* "The current slot, if any, will be disconnect()ed before being replaced"
\* (scoped_connection.h:93, 112), and upon destruction (scoped_connection.h:121).
Replaced ==
    [][(Assigning \/ Moving \/ Ended)
          /\ pointer[Top.of] # Null /\ pointer[Top.of] # pointer'[Top.of]
             => slot[pointer[Top.of]] # "valid"]_vars

Contract == INSTANCE ScopedContract WITH
    NoSlot    <- Null,
    connected <- {s \in Slot : slot[s] = "valid"},
    care      <- [sc \in Scoped |-> pointer[sc]]

\* Scoped connections keep the contract. (scoped_connection.h:25-78)
ImplementsContract == Contract!Spec

=============================================================================
