------------------------------ MODULE SlotPool ------------------------------
(***************************************************************************)
(* What the request pool promises: a slot has one holder at a time, and an *)
(* allocation is refused only when every slot is held.                     *)
(***************************************************************************)
CONSTANTS Workers, Slots

VARIABLES
    held,       \* the slots each worker holds
    refused     \* the workers whose last allocation was refused

Init == held = [w \in Workers |-> {}] /\ refused = {}

Taken == UNION {held[w] : w \in Workers}

Allocate(w) ==
    /\ \E s \in Slots \ Taken : held' = [held EXCEPT ![w] = @ \cup {s}]
    /\ refused' = refused \ {w}

Refuse(w) == Taken = Slots /\ refused' = refused \cup {w} /\ UNCHANGED held

Free(w) ==
    /\ \E s \in held[w] : held' = [held EXCEPT ![w] = @ \ {s}]
    /\ UNCHANGED refused

Next == \E w \in Workers : Allocate(w) \/ Refuse(w) \/ Free(w)

Spec == Init /\ [][Next]_<<held, refused>>
=============================================================================
