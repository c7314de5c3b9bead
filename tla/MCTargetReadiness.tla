-------------------------- MODULE MCTargetReadiness --------------------------
(* Small systems of engines that compete for one pool.                     *)
EXTENDS TargetReadiness

(* Engines "a" and "c" that do not fit together; c is resident, keeps one  *)
(* slot, and a request for each of them arrives.                           *)
PairOrder == <<"a", "c">>
PairInstance == [a |-> "ia", c |-> "ic"]
PairDraw == [ia |-> [gpu |-> 1], ic |-> [gpu |-> 1]]
OneRoom == [gpu |-> 1]
PairPriority == [a |-> 1, c |-> 1]
RankedPriority == [a |-> 0, c |-> 1]
PairEviction == [a |-> "preemptible", c |-> "preemptible"]
PairNone == [a |-> FALSE, c |-> FALSE]
PairSlotSave == [a |-> FALSE, c |-> TRUE]
PairSlots == [a |-> << >>, c |-> <<0>>]
PairIdle == [a |-> NoThreshold, c |-> NoThreshold]
PairTarget == [ra |-> "a", rc |-> "c"]

(* The same engines without slots. *)
BareSlotSave == [a |-> FALSE, c |-> FALSE]
BareSlots == [a |-> << >>, c |-> << >>]

(* A router with a model and an engine that does not fit beside it; a      *)
(* second request for the model queues behind the first.                   *)
RouterOrder == <<"m", "c">>
RouterInstance == [m |-> "router", c |-> "ic"]
RouterDraw == [router |-> [gpu |-> 1], ic |-> [gpu |-> 1]]
RouterPriority == [m |-> 1, c |-> 1]
RouterEviction == [m |-> "preemptible", c |-> "preemptible"]
RouterModel == [m |-> TRUE, c |-> FALSE]
RouterSlotSave == [m |-> FALSE, c |-> FALSE]
RouterSlots == [m |-> << >>, c |-> << >>]
RouterIdle == [m |-> NoThreshold, c |-> NoThreshold]
RouterTarget == [rm |-> "m", rn |-> "m", rc |-> "c"]

(* One stopped engine. *)
LoneOrder == <<"a">>
LoneInstance == [a |-> "ia"]
LoneDraw == [ia |-> [gpu |-> 1]]
LonePriority == [a |-> 1]
LoneEviction == [a |-> "preemptible"]
LoneFalse == [a |-> FALSE]
LoneSlots == [a |-> << >>]
LoneIdle == [a |-> NoThreshold]
LoneTarget == [ra |-> "a"]
=============================================================================
