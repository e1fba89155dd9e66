--------------------------- MODULE SignalContract ---------------------------
(***************************************************************************)
(* What one signal promises to its users, with no slot list, no            *)
(* placeholder, no execution counter and no deferred clean-up:             *)
(*                                                                         *)
(*   - a slot is invoked by an emission only if it was connected when the  *)
(*     emission began, is connected and unblocked when its turn comes, and *)
(*     then exactly once, in the order of the list;                        *)
(*   - a slot that is connected during an emission waits for the next one; *)
(*   - a slot that is disconnected is never invoked again, by any of the   *)
(*     emissions in progress;                                              *)
(*   - emissions nest: only the innermost one advances.                    *)
(*                                                                         *)
(* Module Signal, which models the code, implements this specification.    *)
(***************************************************************************)
EXTENDS Sequences, SequencesExt, FiniteSets, Selection

CONSTANTS
    Slot,       \* the slots that may be connected
    NoSlot      \* no element of Slot: "no slot is being invoked"

VARIABLES
    connected,  \* the connected slots, in the order of their invocation
    blocked,    \* the connected slots that are blocked
    emissions   \* the emissions in progress, the innermost one last

vars == <<connected, blocked, emissions>>

\* todo: the slots this emission has still to consider.
\* running: the slot whose functor it is executing.
Emission == [todo : Seq(Slot), running : Slot \cup {NoSlot}]

\* Every variable has a value of its type.
TypeOK ==
    /\ connected \in Seq(Slot)
    /\ blocked \subseteq Slot
    /\ emissions \in Seq(Emission)

-----------------------------------------------------------------------------

Innermost == emissions[Len(emissions)]

Outer == SubSeq(emissions, 1, Len(emissions) - 1)

Progress(e) == emissions' = Append(Outer, e)

Init ==
    /\ connected = <<>>
    /\ blocked = {}
    /\ emissions = <<>>

(***************************************************************************)
(* The operations of the users of the signal.                              *)
(***************************************************************************)
Connect(s) ==
    /\ s \notin ToSet(connected)
    /\ connected' \in {Append(connected, s), <<s>> \o connected}
    /\ blocked' \in {blocked, blocked \cup {s}}
    /\ UNCHANGED emissions

Without(list, D) == InOrder(list, {k \in DOMAIN list : list[k] \notin D})

\* The slots of D are forgotten at once, in every emission in progress.
Disconnect(D) ==
    /\ connected' = Without(connected, D)
    /\ blocked' = blocked \ D
    /\ emissions' = [i \in DOMAIN emissions |->
                        [emissions[i] EXCEPT !.todo = Without(@, D)]]

SetBlocked(B) ==
    /\ blocked' = B
    /\ UNCHANGED <<connected, emissions>>

Emit ==
    /\ emissions' = Append(emissions, [todo |-> connected, running |-> NoSlot])
    /\ UNCHANGED <<connected, blocked>>

\* The user's functor returns, or throws and so ends its emission.
Return ==
    /\ emissions # <<>>
    /\ Innermost.running # NoSlot
    /\ \/ Progress([Innermost EXCEPT !.running = NoSlot])
       \/ Progress([todo |-> <<>>, running |-> NoSlot])
    /\ UNCHANGED <<connected, blocked>>

(***************************************************************************)
(* The steps of the innermost emission.                                    *)
(***************************************************************************)
Idle == emissions # <<>> /\ Innermost.running = NoSlot

Skip ==
    /\ Idle
    /\ Innermost.todo # <<>>
    /\ Head(Innermost.todo) \in blocked
    /\ Progress([Innermost EXCEPT !.todo = Tail(@)])
    /\ UNCHANGED <<connected, blocked>>

Invoke ==
    /\ Idle
    /\ Innermost.todo # <<>>
    /\ Head(Innermost.todo) \notin blocked
    /\ Progress([todo    |-> Tail(Innermost.todo),
                 running |-> Head(Innermost.todo)])
    /\ UNCHANGED <<connected, blocked>>

Finish ==
    /\ Idle
    /\ Innermost.todo = <<>>
    /\ emissions' = Outer
    /\ UNCHANGED <<connected, blocked>>

Next ==
    \/ \E s \in Slot : Connect(s)
    \/ \E D \in SUBSET Slot : Disconnect(D)
    \/ \E B \in SUBSET ToSet(connected) : SetBlocked(B)
    \/ Emit
    \/ Return
    \/ Skip
    \/ Invoke
    \/ Finish

Spec == Init /\ [][Next]_vars

=============================================================================
