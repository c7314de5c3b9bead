---------------------------- MODULE MCMemoryPlan ----------------------------
(* The planner over every view of four instances, one of them a router     *)
(* with two models, competing for a gpu and a host pool; operators may     *)
(* have started any of them by hand, so any of them may be resident.       *)
EXTENDS MemoryPlanning

MCOrder == <<"r1", "a", "r2", "b", "c">>
MCInstanceOf == [t \in {"r1", "r2", "a", "b", "c"} |->
  CASE t \in {"r1", "r2"} -> "router" [] t = "a" -> "ia" [] t = "b" -> "ib" [] OTHER -> "ic"]
MCDraw == [i \in {"router", "ia", "ib", "ic"} |->
  CASE i = "router" -> [gpu |-> 2, host |-> 1]
    [] i = "ia" -> [gpu |-> 2, host |-> 0]
    [] i = "ib" -> [gpu |-> 1, host |-> 2]
    [] OTHER -> [gpu |-> 0, host |-> 3]]
MCRoom == [gpu |-> 4, host |-> 3]
MCPriority == [r1 |-> 1, r2 |-> 0, a |-> 1, b |-> 2, c |-> 1]
MCEviction == [r1 |-> "preemptible", r2 |-> "preemptible", a |-> "preemptible",
               b |-> "idle-only", c |-> "never"]
IsRouterModel == [t \in {"r1", "r2", "a", "b", "c"} |-> t \in {"r1", "r2"}]
MCSlotSave == [t \in {"r1", "r2", "a", "b", "c"} |-> t = "a"]
MCSlotIds == [t \in {"r1", "r2", "a", "b", "c"} |-> IF t = "a" THEN <<0>> ELSE << >>]
MCIdleUnload == [t \in {"r1", "r2", "a", "b", "c"} |-> IF t = "a" THEN 2 ELSE NoThreshold]

Up == SUBSET {"r1", "r2", "a", "b"}

(* A view of the residents up, of which some are busy, some wanted, and at *)
(* most one pinned. *)
AllSnapshots ==
  {[state |-> [t \in Targets |-> IF t \in up THEN "ready" ELSE "stopped"],
    active |-> busy, wanted |-> busy \cup queued, pinned |-> pins,
    idle |-> [t \in Targets |-> IF t = longest THEN 2 ELSE 1],
    saved |-> [t \in Targets |-> {}]] :
   up \in Up, busy \in Up, queued \in {{}, {"a"}, {"b"}, {"r2"}},
   pins \in {{}, {"a"}, {"r2"}}, longest \in {"r1", "a"}}

MCSnapshots == {v \in AllSnapshots : \A t \in v.active : v.state[t] = "ready"}
MCAsked == {"a", "b", "c"}
=============================================================================
