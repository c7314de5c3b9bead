------------------------- MODULE MCDomainCoordinator -------------------------
(* Small instances of DomainCoordinator.  The policies are of the kinds    *)
(* domain-coordinator.test.ts uses: an exclusive one that preempts what it *)
(* may, a shared one that waits behind a higher priority only, and one     *)
(* that lets two leases in.                                                *)
EXTENDS DomainCoordinator

MCAdmits(c, l, H) ==
  CASE c = "exclusive" -> H = {}
    [] c = "shared" -> \A h \in H : PriorityOf[h] <= PriorityOf[l]
    [] c = "pair" -> Cardinality(H) < 2

MCPreempts(c, l, H) ==
  IF c = "exclusive" THEN {h \in H : PriorityOf[h] < PriorityOf[l]} ELSE {}

(* One record per lease, spread over the module's constants. *)
Request(t, d, p, preemptible, continuation) ==
  [target |-> t, domains |-> d, priority |-> p,
   preemptible |-> preemptible, continuation |-> continuation]

(* A request on each pool, one on both, and an idle maintenance pass.      *)
SafetyRequests ==
  [a |-> Request("ta", {"d1"}, 1, TRUE, FALSE),
   b |-> Request("tb", {"d2"}, 2, FALSE, FALSE),
   c |-> Request("tb", {"d1", "d2"}, 1, TRUE, FALSE),
   m |-> Request("maintenance", {"d1"}, 0, FALSE, FALSE)]

(* One pool with room for two: two tool continuations of one target, a     *)
(* rival no preference favours, and a more urgent request.                 *)
OrderRequests ==
  [a |-> Request("ta", {"d1"}, 1, TRUE, TRUE),
   a2 |-> Request("ta", {"d1"}, 1, TRUE, TRUE),
   b |-> Request("tb", {"d1"}, 1, FALSE, FALSE),
   u |-> Request("tu", {"d1"}, 2, FALSE, FALSE)]

SafetyLeases == DOMAIN SafetyRequests
SafetyTarget == [l \in SafetyLeases |-> SafetyRequests[l].target]
SafetyDomains == [l \in SafetyLeases |-> SafetyRequests[l].domains]
SafetyPriority == [l \in SafetyLeases |-> SafetyRequests[l].priority]
SafetyPreemptible == [l \in SafetyLeases |-> SafetyRequests[l].preemptible]
SafetyContinuation == [l \in SafetyLeases |-> SafetyRequests[l].continuation]

OrderLeases == DOMAIN OrderRequests
OrderTarget == [l \in OrderLeases |-> OrderRequests[l].target]
OrderDomains == [l \in OrderLeases |-> OrderRequests[l].domains]
OrderPriority == [l \in OrderLeases |-> OrderRequests[l].priority]
OrderPreemptible == [l \in OrderLeases |-> OrderRequests[l].preemptible]
OrderContinuation == [l \in OrderLeases |-> OrderRequests[l].continuation]

(* The fairness windows matter to the order of admission only: the safety  *)
(* instance runs without the clock.                                        *)
UntimedNext == Next /\ UNCHANGED timeVars
UntimedFairSpec == Init /\ [][UntimedNext]_vars /\ Fairness

(* The order instance leaves aborts to the others and lets a window pass   *)
(* for every lease made so far at once; the earlier marks are reached by   *)
(* passing the window earlier.                                             *)
OrderNext ==
  /\ Next
  /\ \A l \in Leases : ~abortQueued'[l] /\ promise'[l] # "rejected"
  /\ swapMark' \in {swapMark, nextSeq} /\ contMark' \in {contMark, nextSeq}
OrderSpec == Init /\ [][OrderNext]_vars
=============================================================================
