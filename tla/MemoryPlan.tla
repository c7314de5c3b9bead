----------------------------- MODULE MemoryPlan -----------------------------
(***************************************************************************)
(* The scheduler of the API proxy (apps/api/src/proxy/scheduler.ts): a     *)
(* pure planner that says which resident models to unload, and what to     *)
(* start or load, before a request can be routed to its target.            *)
(*                                                                         *)
(* What never changes while the proxy runs (which instance serves a        *)
(* target, what it draws from each pool, how the target may be evicted) is *)
(* a CONSTANT; what a runtime snapshot says is a record v, the "view":     *)
(*   v.state[t]  runtime state of target t                                 *)
(*   v.active    targets with active requests                              *)
(*   v.idle[t]   for how long t has been idle (0: not known to be)         *)
(*   v.saved[t]  slots of t whose cache is on disk                         *)
(*   v.wanted, v.pinned   protectedTargetIds, pinnedTargetIds              *)
(***************************************************************************)
EXTENDS Integers, Sequences, FiniteSets, FiniteSetsExt, SequencesExt, Functions, Lists

CONSTANTS
  Order,          \* request.targets: the targets, as a sequence
  NoInstance,     \* instanceId of a target that is not managed
  InstanceOf,
  Pools,          \* pools drawn on
  Draw,           \* Draw[i][p]: bytes instance i declares on pool p
  Room,           \* budgetBytes - usedByOthersBytes of the pools that exist
  Priority,
  Eviction,       \* "never", "idle-only" or "preemptible"
  HasModel,       \* target.model is set
  ModelLoadUnload,\* capabilities.modelLoadUnload, capabilities.slotSave
  SlotSave,
  SavesSlots,     \* saveSlotsBeforeUnload
  SlotIds,
  IdleUnload,     \* idleUnloadMs, NoThreshold for null
  NoThreshold,
  NoSlot

Targets == Range(Order)
Instances == {InstanceOf[t] : t \in Targets} \ {NoInstance}
States == {"unknown", "stopped", "unloaded", "loading", "ready", "error"}
Position(t) == CHOOSE n \in 1..Len(Order) : Order[n] = t

ASSUME PlanInputs ==
  /\ Order \in Seq(Targets) /\ IsInjective(Order)
  /\ IsFiniteSet(Pools)
  /\ DOMAIN Room \subseteq Pools
  /\ \A p \in DOMAIN Room : Room[p] \in Int
  /\ \A i \in Instances, p \in Pools : Draw[i][p] \in Nat
  /\ \A t \in Targets :
       /\ Priority[t] \in Int
       /\ SlotIds[t] \in Seq(Nat)
       /\ IdleUnload[t] \in (Nat \ {0}) \cup {NoThreshold}
       /\ Eviction[t] \in {"never", "idle-only", "preemptible"}

(* What a view may be. *)
Views ==
  [state : [Targets -> States], active : SUBSET Targets, wanted : SUBSET Targets,
   pinned : SUBSET Targets, idle : [Targets -> Nat],
   saved : [Targets -> {slots \in SUBSET Nat : IsFiniteSet(slots)}]]

IsManaged(t) == InstanceOf[t] # NoInstance
IsActive(v, t) == v.state[t] = "ready"
IsPending(v, t) == v.state[t] = "loading"

(* schedulerTargetPreemptible: the instance's eviction policy narrows the  *)
(* target's own flag.                                                      *)
IsPreemptible(v, t) ==
  \/ Eviction[t] = "preemptible"
  \/ Eviction[t] = "idle-only" /\ t \notin v.active

-----------------------------------------------------------------------------
(* Actions: what the executor is asked to do, in order. *)

Act(type, t) == [type |-> type, target |-> t, slot |-> NoSlot]
SlotAct(type, t, s) == [type |-> type, target |-> t, slot |-> s]
SlotActs(type, t, slots) == [n \in 1..Len(slots) |-> SlotAct(type, t, slots[n])]

(* savedSlotIds is kept sorted. *)
Ascending(S) ==
  CHOOSE s \in [1..Cardinality(S) -> S] :
    \A n \in DOMAIN s, m \in DOMAIN s : m < n => s[m] < s[n]

BadUnloadActionsAlwaysSkips(v, t) ==
  When(IsManaged(t),
       <<Act(IF HasModel[t] /\ ModelLoadUnload[t] THEN "unload-model"
             ELSE "stop-instance", t)>>)

UnloadActions(v, t) ==
  LET unsaved == Only(SlotIds[t], Range(SlotIds[t]) \ v.saved[t])
  IN When(IsManaged(t),
          When(SavesSlots[t] /\ SlotSave[t], SlotActs("save-slot", t, unsaved))
          \o <<Act(IF HasModel[t] /\ ModelLoadUnload[t] THEN "unload-model"
                   ELSE "stop-instance", t)>>)

LoadActions(v, t) ==
  LET loads == HasModel[t] /\ ModelLoadUnload[t]
      start == <<Act("start-instance", t), Act("wait-instance-ready", t)>>
  IN When(IsManaged(t),
          When(v.state[t] \in {"stopped", "unknown"}, start)
          \o When(IsPending(v, t), <<Act("wait-model-ready", t)>>)
          \o When(~IsActive(v, t) /\ ~IsPending(v, t) /\ loads,
                  <<Act("load-model", t), Act("wait-model-ready", t)>>)
          \o When(v.state[t] = "unloaded" /\ ~ModelLoadUnload[t],
                  <<Act("stop-instance", t)>> \o start)
          \o When(SlotSave[t], SlotActs("restore-slot", t, Ascending(v.saved[t]))))

-----------------------------------------------------------------------------
(* The resident instances a target competes with.  Targets that share an   *)
(* instance are one peer, spoken for by a single target.                   *)

Residents(v, t, i) ==
  {u \in Targets \ {t} : InstanceOf[u] = i /\ IsActive(v, u)}

(* Mutant: a router of which a model has been unloaded counts as gone. *)
BadPeersWhole(v, t) ==
  {i \in Instances \ {InstanceOf[t]} :
     /\ \A u \in Targets : InstanceOf[u] = i => IsActive(v, u)
     /\ \E p \in Pools : Draw[i][p] > 0}

Peers(v, t) ==
  {i \in Instances \ {InstanceOf[t]} :
     /\ Residents(v, t, i) # {}
     /\ \E p \in Pools : Draw[i][p] > 0}

First(S) == CHOOSE t \in S : \A u \in S : Position(t) <= Position(u)

BadPeerOfFirstMember(v, t, i) ==
  LET u == First(Residents(v, t, i))
  IN [target |-> u, busy |-> u \in v.active, preemptible |-> IsPreemptible(v, u),
      priority |-> Priority[u], idle |-> v.idle[u], place |-> Position(u)]

(* collectMemoryPeerInstances: the first target of the instance, or the    *)
(* first that names a model.                                               *)
Peer(v, t, i) ==
  LET members == Residents(v, t, i)
      named == {u \in members : HasModel[u]}
  IN [target |-> First(IF named # {} THEN named ELSE members),
      busy |-> \E u \in members : u \in v.active,
      preemptible |-> \A u \in members : IsPreemptible(v, u),
      priority |-> Max({Priority[u] : u \in members}),
      idle |-> v.idle[First(members)],
      place |-> Position(First(members))]

Used(p, kept) == SumFunctionOnSet([i \in Instances |-> Draw[i][p]], kept)

Free(p, kept) == IF p \in DOMAIN Room THEN Room[p] - Used(p, kept) ELSE 0

Deficits(t, kept) ==
  {p \in Pools : Draw[InstanceOf[t]][p] > 0 /\ Draw[InstanceOf[t]][p] > Free(p, kept)}

DrawOn(i, pools) == SumFunctionOnSet(Draw[i], pools)

BadEligibleStrictly(v, t, peer, i, busy, pools) ==
  /\ peer.preemptible
  /\ peer.target \notin v.pinned
  /\ peer.busy = busy
  /\ DrawOn(i, pools) > 0
  /\ peer.priority < Priority[t]

(* The two tiers: idle victims of no higher priority, busy ones of lower.  *)
Eligible(v, t, peer, i, busy, pools) ==
  /\ peer.preemptible
  /\ peer.target \notin v.pinned
  /\ peer.busy = busy
  /\ DrawOn(i, pools) > 0
  /\ IF busy THEN peer.priority < Priority[t] ELSE peer.priority <= Priority[t]

BadTierMixed(v, t, peer, kept, pools, busyOk) ==
  {i \in kept : \/ Eligible(v, t, peer[i], i, FALSE, pools)
                \/ busyOk /\ Eligible(v, t, peer[i], i, TRUE, pools)}

(* The victims to choose from: idle ones if there are any. *)
Tier(v, t, peer, kept, pools, busyOk) ==
  LET victims(busy) == {i \in kept : Eligible(v, t, peer[i], i, busy, pools)}
  IN IF victims(FALSE) # {} THEN victims(FALSE)
     ELSE IF busyOk THEN victims(TRUE) ELSE {}

BadSortKeyUnprotected(v, peer, i, pools) ==
  <<peer.priority, -peer.idle, -DrawOn(i, pools), peer.place>>

(* The sort of the tier; equal victims keep the order of the targets. *)
SortKey(v, peer, i, pools) ==
  <<IF peer.target \in v.wanted THEN 1 ELSE 0,
    peer.priority, -peer.idle, -DrawOn(i, pools), peer.place>>

Below(k, l) ==
  \E n \in 1..Len(k) : k[n] < l[n] /\ \A m \in 1..(n - 1) : k[m] = l[m]

FirstVictim(v, peer, tier, pools) ==
  CHOOSE i \in tier : \A j \in tier \ {i} :
    Below(SortKey(v, peer[i], i, pools), SortKey(v, peer[j], j, pools))

(* A round of planMemoryEvictions evicts x, and the rest goes on after it. *)
Evict(v, x, rest) ==
  [ok |-> rest.ok,
   actions |-> UnloadActions(v, x.target) \o rest.actions,
   preempt |-> rest.preempt \cup (IF x.busy THEN {x.target} ELSE {})]

(* Its loop: evict until the target fits, or nothing is left to evict.     *)
Rounds(v, t, peer, busyOk) ==
  LET from[kept \in SUBSET DOMAIN peer] ==
        LET pools == Deficits(t, kept)
            tier == Tier(v, t, peer, kept, pools, busyOk)
            victim == FirstVictim(v, peer, tier, pools)
        IN IF pools = {} \/ tier = {}
           THEN [ok |-> pools = {}, actions |-> << >>, preempt |-> {}]
           ELSE Evict(v, peer[victim], from[kept \ {victim}])
  IN from

PeerFor(v, t) == [i \in Peers(v, t) |-> Peer(v, t, i)]

Evictions(v, t, busyOk) ==
  IF ~IsManaged(t) \/ IsActive(v, t) \/ DOMAIN Room = {}
  THEN [ok |-> TRUE, actions |-> << >>, preempt |-> {}]
  ELSE Rounds(v, t, PeerFor(v, t), busyOk)[Peers(v, t)]

-----------------------------------------------------------------------------
Blocked == [ok |-> FALSE, actions |-> << >>, preempt |-> {}]

(* planApiProxyRequest *)
PlanRequest(v, t, busyOk) ==
  LET e == Evictions(v, t, busyOk)
  IN IF v.state[t] = "error" \/ ~e.ok THEN Blocked
     ELSE [ok |-> TRUE,
           actions |-> e.actions \o LoadActions(v, t) \o <<Act("route-request", t)>>,
           preempt |-> e.preempt]

(* planApiProxyIdleMaintenance: the targets it unloads (no caller passes   *)
(* a preferredTargetId, so it never warms one up).                         *)
UnloadCandidates(v) ==
  {t \in Targets : /\ IsActive(v, t) /\ t \notin v.active /\ t \notin v.pinned
                   /\ IdleUnload[t] # NoThreshold
                   /\ v.idle[t] >= IdleUnload[t]}

ReadinessActions(plan) ==
  Only(plan.actions, {a \in Range(plan.actions) : a.type # "route-request"})

=============================================================================
