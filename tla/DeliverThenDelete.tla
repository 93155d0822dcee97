------------------------- MODULE DeliverThenDelete -------------------------
(***************************************************************************)
(* What reliable delivery promises of each event, without nodes, calls or  *)
(* connections (the header of                                              *)
(* libs/api/realtime/src/lib/pending-delivery.service.ts): an event is     *)
(* stored, is tried, is handled by a client, and is deleted when a client  *)
(* handled it or the tries are used up. For events emitted once, before    *)
(* their deadline.                                                         *)
(***************************************************************************)
EXTENDS Naturals

CONSTANTS Ids, MaxTries

VARIABLES
    stored,   \* events in the pending store
    tries,    \* how often each was tried since it was stored
    handled   \* events a client handled

vars == <<stored, tries, handled>>

UsedUp(i) == tries[i] >= MaxTries

Init == stored = {} /\ handled = {} /\ tries = [i \in Ids |-> 0]

Store(i) ==
    /\ i \notin stored \cup handled /\ tries[i] = 0
    /\ stored' = stored \cup {i}
    /\ UNCHANGED <<tries, handled>>

Try(i) ==
    /\ i \in stored
    /\ tries' = [tries EXCEPT ![i] = @ + 1]
    /\ UNCHANGED <<stored, handled>>

\* A frame may still be read after the entry was given up.
Handle(i) ==
    /\ i \in stored \/ UsedUp(i)
    /\ handled' = handled \cup {i}
    /\ UNCHANGED <<stored, tries>>

Delete(i) ==
    /\ i \in stored
    /\ i \in handled \/ UsedUp(i)
    /\ stored' = stored \ {i}
    /\ UNCHANGED <<tries, handled>>

Next == \E i \in Ids : Store(i) \/ Try(i) \/ Handle(i) \/ Delete(i)

Spec == Init /\ [][Next]_vars
=============================================================================
