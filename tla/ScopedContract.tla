--------------------------- MODULE ScopedContract ---------------------------
(***************************************************************************)
(* What scoped connections promise: a slot that is in the care of one is   *)
(* disconnected when the scoped connection is destroyed or assigned to,    *)
(* and passes out of its care alive only to another scoped connection, or  *)
(* to whoever called release().                                            *)
(***************************************************************************)
CONSTANTS
    Slot,
    Scoped,
    NoSlot      \* no element of Slot

VARIABLES
    connected,  \* the slots that are connected
    care        \* the slot in the care of each scoped connection, or NoSlot

vars == <<connected, care>>

Init == connected = {} /\ care = [sc \in Scoped |-> NoSlot]

Connect(s) == connected' = connected \cup {s} /\ UNCHANGED care

Disconnect(s) == connected' = connected \ {s} /\ UNCHANGED care

\* The slot in the care of sc is not connected any more, or there is none.
Idle(sc) == care[sc] \notin connected

Take(sc, s) ==
    /\ Idle(sc)
    /\ care' = [care EXCEPT ![sc] = s]
    /\ UNCHANGED connected

Forget(S) ==
    /\ \A sc \in S : Idle(sc)
    /\ care' = [sc \in Scoped |-> IF sc \in S THEN NoSlot ELSE care[sc]]
    /\ UNCHANGED connected

Release(sc) ==
    /\ care' = [care EXCEPT ![sc] = NoSlot]
    /\ UNCHANGED connected

Move(to, from) ==
    /\ Idle(to)
    /\ care' = [care EXCEPT ![from] = NoSlot, ![to] = care[from]]
    /\ UNCHANGED connected

Swap(sca, scb) ==
    /\ care' = [care EXCEPT ![sca] = care[scb], ![scb] = care[sca]]
    /\ UNCHANGED connected

Next ==
    \/ \E s \in Slot : Connect(s) \/ Disconnect(s)
    \/ \E sc \in Scoped, s \in Slot \cup {NoSlot} : Take(sc, s)
    \/ \E S \in SUBSET Scoped : Forget(S)
    \/ \E sc \in Scoped : Release(sc)
    \/ \E sc, other \in Scoped : Move(sc, other) \/ Swap(sc, other)

Spec == Init /\ [][Next]_vars

=============================================================================
