-------------------------- MODULE DeliveryContract --------------------------
(***************************************************************************)
(* What the delivery queue promises the code that hands it a message, with *)
(* no rows, leases, workers or sweeps: the parts of a delivery reach the   *)
(* provider one at a time, in order and at most once; nothing is started   *)
(* for a delivery that was withdrawn; and what is said of a delivery is    *)
(* true, also of the requests that are still underway.  A repeatable       *)
(* delivery goes to a provider that knows a repeat when it sees one: its   *)
(* parts may be offered again, still in order, and only what is said to be *)
(* delivered, or open after an uncertain outcome, is sure.                 *)
(***************************************************************************)
EXTENDS Naturals

CONSTANTS Deliveries, Parts, Repeatable

VARIABLES
    fate,       \* what is said of each delivery
    withdrawn,  \* the producer no longer wants it
    underway,   \* <<delivery, part>>: requests the provider may yet accept
    taken       \* the parts of each delivery the provider accepted

vars == <<fate, withdrawn, underway, taken>>

Fates == {"absent", "open", "delivered", "uncertain", "dead"}

Init ==
    /\ fate = [d \in Deliveries |-> "absent"]
    /\ withdrawn = [d \in Deliveries |-> FALSE]
    /\ underway = {}
    /\ taken = [d \in Deliveries |-> {}]

(* Nothing of the delivery can still be accepted.                          *)
Quiet(d) == \A p \in Parts : <<d, p>> \notin underway

(* The next part is offered to the provider.                               *)
Start(d, p) ==
    /\ fate[d] = "open" /\ ~withdrawn[d]
    /\ d \in Repeatable \/ (Quiet(d) /\ p \notin taken[d])
    /\ \A q \in Parts : q < p => q \in taken[d]
    /\ underway' = underway \cup {<<d, p>>}
    /\ UNCHANGED <<fate, withdrawn, taken>>

(* The provider accepts a request, perhaps after it was given up; another  *)
(* one for the same part of a repeatable delivery may still be underway.   *)
Take(d, p) ==
    /\ <<d, p>> \in underway
    /\ d \in Repeatable \/ fate[d] \in {"open", "uncertain"}
    /\ \/ underway' = underway \ {<<d, p>>}
       \/ d \in Repeatable /\ UNCHANGED underway
    /\ taken' = [taken EXCEPT ![d] = @ \cup {p}]
    /\ UNCHANGED <<fate, withdrawn>>

(* The provider refuses a request, or the request is lost.                 *)
Drop(d, p) ==
    /\ <<d, p>> \in underway
    /\ underway' = underway \ {<<d, p>>}
    /\ UNCHANGED <<fate, withdrawn, taken>>

(* Who is told what: delivered is said of a delivery taken whole; open     *)
(* again after an uncertain outcome, or dead unless it is repeatable, only *)
(* when nothing of it is left that could still complete it.                *)
Says(d) ==
    \/ fate'[d] = fate[d]
    \/ fate[d] = "absent" /\ fate'[d] = "open"
    \/ fate[d] = "open" /\ fate'[d] = "uncertain"
    \/ /\ fate[d] \in {"open", "uncertain"} /\ fate'[d] = "delivered"
       /\ taken[d] = Parts
    \/ /\ fate[d] \in {"open", "uncertain"} /\ fate'[d] = "dead"
       /\ d \in Repeatable \/ (Quiet(d) /\ taken[d] # Parts)
    \/ /\ fate[d] = "uncertain" /\ fate'[d] = "open"
       /\ Quiet(d) /\ taken[d] # Parts /\ ~withdrawn[d]

Settle ==
    /\ fate' \in [Deliveries -> Fates]
    /\ withdrawn' \in [Deliveries -> BOOLEAN]
    /\ \A d \in Deliveries : Says(d) /\ (withdrawn[d] => withdrawn'[d])
    /\ UNCHANGED <<underway, taken>>

Next ==
    \/ \E d \in Deliveries, p \in Parts : Start(d, p) \/ Take(d, p) \/ Drop(d, p)
    \/ Settle

Spec == Init /\ [][Next]_vars
============================================================================
