--------------------------- MODULE EventDelivery ---------------------------
(***************************************************************************)
(* What the transactional outbox promises, without workers, batches,       *)
(* transactions or connections: an event is stored once, it is published   *)
(* only after it was stored, it is called dispatched only after it was     *)
(* published, and every stored event is eventually settled one way or the  *)
(* other.  Publication is at least once: publishing again is a stutter.    *)
(***************************************************************************)

CONSTANT Events

VARIABLES
    stored,     \* the events whose transaction took effect
    published,  \* the events sent to their channel group at least once
    outcome     \* what the row of a stored event says of its delivery

vars == <<stored, published, outcome>>

Outcomes == {"open", "dispatched", "failed"}

TypeOK ==
    /\ stored \subseteq Events
    /\ published \subseteq Events
    /\ outcome \in [Events -> Outcomes]

Init ==
    /\ stored = {}
    /\ published = {}
    /\ outcome = [e \in Events |-> "open"]

\* A transaction takes effect: all its events are stored at once.
Store(S) ==
    /\ S \subseteq Events \ stored
    /\ stored' = stored \cup S
    /\ UNCHANGED <<published, outcome>>

Publish(e) ==
    /\ e \in stored
    /\ published' = published \cup {e}
    /\ UNCHANGED <<stored, outcome>>

\* A settled event may be settled again (two dispatchers may disagree), but it
\* never becomes open again.
Settle(e, result) ==
    /\ e \in stored
    /\ result = "dispatched" => e \in published
    /\ outcome' = [outcome EXCEPT ![e] = result]
    /\ UNCHANGED <<stored, published>>

FirstSettle(e) ==
    /\ outcome[e] = "open"
    /\ \E result \in {"dispatched", "failed"} : Settle(e, result)

Next ==
    \/ \E S \in SUBSET Events : Store(S)
    \/ \E e \in Events : Publish(e)
    \/ \E e \in Events, result \in {"dispatched", "failed"} : Settle(e, result)

SafeSpec == Init /\ [][Next]_vars

Spec == SafeSpec /\ \A e \in Events : WF_vars(FirstSettle(e))

=============================================================================
