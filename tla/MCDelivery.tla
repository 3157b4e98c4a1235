---------------------------- MODULE MCDelivery ----------------------------
(* Instances of DeliveryQueue for TLC. *)
EXTENDS DeliveryRefinement, TLC

CONSTANTS d1, d2, w1, w2

NoDependency == {}
Chain == {<<d2, d1>>}
WorkerSymmetry == Permutations(Workers)
============================================================================
