--------------------------- MODULE MemoryPlanning ---------------------------
(***************************************************************************)
(* The planner at work: a request for one of the targets is planned twice, *)
(* by the gateway and by the admission policy, on the same view; the       *)
(* executor carries out the first action and plans again, until nothing is *)
(* left to do, while other requests end and idle maintenance unloads.      *)
(***************************************************************************)
EXTENDS MemoryPlan

CONSTANTS
  Snapshots,  \* the views the first request may find
  Asked       \* the targets requests are routed to

ASSUME PlanningInputs ==
  /\ Snapshots \subseteq Views
  /\ Asked \subseteq {t \in Targets : IsManaged(t)}

VARIABLES
  view,
  asked,   \* the target of the request
  busyOk,  \* allowBusyEviction
  thePlan, \* its plan
  gated    \* the gateway's plan for the same request

vars == <<view, asked, busyOk, thePlan, gated>>

Init ==
  /\ view \in Snapshots
  /\ asked \in Asked
  /\ busyOk \in BOOLEAN
  /\ thePlan = PlanRequest(view, asked, busyOk)
  /\ gated = PlanRequest(view, asked, FALSE)

On(i) == {t \in Targets : InstanceOf[t] = i}
Todo == ReadinessActions(thePlan)
Doing(types) == Todo # << >> /\ Head(Todo).type \in types

(* What the snapshots show of target t once action a has had its effect.   *)
StateAfter(a, t) ==
  LET i == InstanceOf[a.target]
  IN CASE a.type = "unload-model" /\ t = a.target -> "unloaded"
       [] a.type = "load-model" /\ t = a.target -> "loading"
       [] a.type = "stop-instance" /\ t \in On(i) -> IF HasModel[t] THEN "unknown" ELSE "stopped"
       [] a.type = "start-instance" /\ t \in On(i) ->
            IF HasModel[t] /\ ModelLoadUnload[t] THEN "unloaded" ELSE "loading"
       [] a.type \in {"wait-instance-ready", "wait-model-ready"} /\ t = a.target -> "ready"
       [] OTHER -> view.state[t]

SavedAfter(a, t) ==
  CASE a.type = "save-slot" /\ t = a.target -> view.saved[t] \cup {a.slot}
    [] a.type = "restore-slot" /\ t = a.target -> view.saved[t] \ {a.slot}
    [] OTHER -> view.saved[t]

After(a) ==
  [view EXCEPT !.state = [t \in Targets |-> StateAfter(a, t)],
               !.saved = [t \in Targets |-> SavedAfter(a, t)],
               !.active = {t \in @ : StateAfter(a, t) = "ready"}]

(* A new preview *)
Plan ==
  /\ thePlan' = PlanRequest(view', asked', busyOk)
  /\ gated' = PlanRequest(view', asked', FALSE)
  /\ UNCHANGED busyOk

(* A pass of the executor: the first readiness action, and a new preview.  *)
Pass ==
  /\ thePlan.ok /\ Todo # << >>
  /\ view' = After(Head(Todo))
  /\ UNCHANGED asked /\ Plan

(* The request is routed, or was refused, and another one comes. *)
NextRequest ==
  /\ thePlan.ok => Todo = << >>
  /\ \E still \in SUBSET ({asked} \cap {t \in Targets : view.state[t] = "ready"}) :
       view' = [view EXCEPT !.active = @ \cup still]
  /\ asked' \in Asked /\ Plan

(* A response ends: its target is idle from now on. *)
ResponseEnds(t) ==
  /\ t \in view.active
  /\ view' = [view EXCEPT !.active = @ \ {t}, !.wanted = @ \ {t}, !.idle[t] = 0]
  /\ UNCHANGED asked /\ Plan

(* runApiProxyIdleMaintenancePass, for one target: it needs a lease of the *)
(* target's domains, and active requests and one under way hold theirs.    *)
Domains(t) == {p \in DOMAIN Room : IsManaged(t) /\ Draw[InstanceOf[t]][p] > 0}
Leased == view.active \cup {t \in {asked} : thePlan.ok /\ Todo # << >>}
UnloadIdle(t) ==
  /\ t \in UnloadCandidates(view) /\ IsManaged(t)
  /\ \A u \in Leased : Domains(u) \cap Domains(t) = {}
  /\ \E unload \in {a \in Range(UnloadActions(view, t)) : a.type # "save-slot"} :
       view' = [After(unload) EXCEPT
         !.saved[t] = IF SavesSlots[t] /\ SlotSave[t] THEN @ \cup Range(SlotIds[t]) ELSE @]
  /\ UNCHANGED asked /\ Plan

Next == Pass \/ NextRequest \/ \E t \in Targets : ResponseEnds(t) \/ UnloadIdle(t)

Spec == Init /\ [][Next]_vars

-----------------------------------------------------------------------------
Unloads(plan) ==
  {plan.actions[n].target :
     n \in {m \in 1..Len(plan.actions) :
              plan.actions[m].type \in {"unload-model", "stop-instance"}}}

(* The residents asked competes with, and those that go down for it (an    *)
(* engine whose own model is unloaded may be restarted, which evicts       *)
(* nobody).                                                                *)
Resident == {i \in Instances \ {InstanceOf[asked]} :
               \E t \in Targets : InstanceOf[t] = i /\ view.state[t] = "ready"}
Down == {InstanceOf[t] : t \in Unloads(thePlan) \ {asked}}
FitsBeside(S) ==
  \A p \in Pools : Draw[InstanceOf[asked]][p] > 0 =>
    p \in DOMAIN Room /\ Used(p, S) + Draw[InstanceOf[asked]][p] <= Room[p]

ReadyOn(i) == {t \in Targets : InstanceOf[t] = i /\ view.state[t] = "ready"}
Busy(i) == ReadyOn(i) \cap view.active # {}

(* What the doc allows to unload for asked: idle residents of no higher    *)
(* priority, busy ones of strictly lower priority.  Only a pin on the      *)
(* target that speaks for the instance counts.                             *)
MayEvict(i) ==
  /\ Peer(view, asked, i).target \notin view.pinned
  /\ \A t \in ReadyOn(i) :
    /\ IsPreemptible(view, t)
    /\ IF Busy(i) THEN busyOk /\ Priority[t] < Priority[asked]
       ELSE Priority[t] <= Priority[asked]

(* Nothing is started or loaded that does not fit: when the executor comes *)
(* to start or load the target, it fits every pool it draws on (if any is  *)
(* measured) beside all residents that are up by then, a router counting   *)
(* in full while any of its models is ready.                               *)
PlanFits ==
  DOMAIN Room # {} /\ thePlan.ok /\ view.state[asked] # "ready"
    /\ Doing({"start-instance", "load-model"}) => FitsBeside(Resident)

(* A request for which something was unloaded is not refused halfway: as   *)
(* long as only responses end and idle targets are unloaded, no later      *)
(* preview is blocked.  (Of the models of a router only the first speaks   *)
(* for the others: a pin on another one is seen when it is too late.)      *)
NeverStranded ==
  [][thePlan.ok /\ Todo # << >> /\ view.state[asked] # "ready"
     /\ (\A i \in Down : ReadyOn(i) \cap view.pinned = {})
       => thePlan'.ok]_vars

(* A plan is blocked only when unloading everything that may be unloaded   *)
(* would still not make room (or its target is in error).                  *)
BlockedOnlyIfHopeless ==
  ~thePlan.ok /\ view.state[asked] # "error" => ~FitsBeside({i \in Resident : ~MayEvict(i)})

(* Nothing is unloaded that may not be: no target of a busy instance, for  *)
(* instance, when another target of the same router is the idle one.       *)
VictimsLawful ==
  thePlan.ok /\ view.state[asked] # "ready" => \A i \in Down : MayEvict(i)

(* A busy resident is preempted only when the idle ones do not make room,  *)
(* and an idle one that is wanted only when the unwanted do not.           *)
LastResort ==
  LET spared(i) == ~MayEvict(i) \/ Busy(i)
      wanted(i) == Peer(view, asked, i).target \in view.wanted
  IN thePlan.ok /\ view.state[asked] # "ready" =>
       /\ (\E i \in Down : Busy(i)) => ~FitsBeside({i \in Resident : spared(i)})
       /\ (\E i \in Down : wanted(i) /\ ~Busy(i))
            => ~FitsBeside({i \in Resident : spared(i) \/ wanted(i)})

(* The gateway plans without busy evictions, the admission policy with     *)
(* them: a request the gateway lets through is never told to preempt.      *)
GateAgrees == gated.ok => thePlan = gated

=============================================================================
