------------------------- MODULE DeliveryRefinement -------------------------
(***************************************************************************)
(* The delivery queue, its workers and its sweeps implement the contract   *)
(* of DeliveryContract.  A request is underway from the commit of          *)
(* begin_part, while the worker may still make the call, until the         *)
(* provider accepts or refuses it or it is lost.                           *)
(***************************************************************************)
EXTENDS DeliveryQueue

FateOf(d) ==
    CASE status[d] \in is_claimable \cup {"sending"} -> "open"
      [] status[d] = "outcome_unknown"               -> "uncertain"
      [] status[d] = "dead_letter"                   -> "dead"
      [] status[d] \in {"absent", "delivered"}       -> status[d]

Underway ==
    {<<r.row, r.part>> : r \in wire}
        \cup {<<cur[w], at[w]>> : w \in {v \in Workers : phase[v] = "calling"}}

Contract ==
    INSTANCE DeliveryContract
    WITH fate <- [d \in Deliveries |-> FateOf(d)],
         Repeatable <- Replayed,
         withdrawn <- cancelled,
         underway <- Underway,
         taken <- [d \in Deliveries |-> {r.part : r \in {s \in accepted : s.row = d}}]

(* Every step of every worker, sweep, cancellation, settlement and crash   *)
(* is a step the contract allows, or changes nothing it speaks of.         *)
ImplementsContract == Contract!Spec
============================================================================
