------------------------ MODULE MemoryPlanning_proofs ------------------------
(***************************************************************************)
(* The planner's properties, for every set of targets, instances,      *)
(* pools, draws, budgets, priorities and policies: an eviction is enough,  *)
(* necessary, lawful and the last resort.                                  *)
(***************************************************************************)
EXTENDS MemoryPlanning, MemoryPlan_proofs

(* The invariant: the plans are those of the view. *)
Planned ==
  /\ view \in Views
  /\ asked \in Asked
  /\ busyOk \in BOOLEAN
  /\ thePlan = PlanRequest(view, asked, busyOk)
  /\ gated = PlanRequest(view, asked, FALSE)

LEMMA AskedIsManaged ==
  ASSUME Planned
  PROVE  /\ asked \in Targets
         /\ IsManaged(asked)
         /\ InstanceOf[asked] \in Instances
  BY PlanningInputs DEF Planned, IsManaged, Instances

(* An action leaves a view. *)
LEMMA AfterIsView ==
  ASSUME view \in Views, NEW a \in ActionRec
  PROVE  /\ After(a) \in Views
         /\ After(a).state = [t \in Targets |-> StateAfter(a, t)]
         /\ After(a).active \subseteq view.active
         /\ After(a).pinned = view.pinned
<1> DEFINE state2 == [t \in Targets |-> StateAfter(a, t)]
           saved2 == [t \in Targets |-> SavedAfter(a, t)]
           active2 == {t \in view.active : StateAfter(a, t) = "ready"}
<1>1. After(a) = [view EXCEPT !.state = state2, !.saved = saved2, !.active = active2]
  BY DEF After, Views
<1>2. state2 \in [Targets -> States]
  <2>1. {"unloaded", "unknown", "stopped", "ready", "loading"} \subseteq States
    BY DEF States
  <2>2. \A t \in Targets : view.state[t] \in States
    BY DEF Views
  <2> QED BY <2>1, <2>2 DEF StateAfter
<1>3. saved2 \in [Targets -> {slots \in SUBSET Nat : IsFiniteSet(slots)}]
  <2>1. SUFFICES ASSUME NEW t \in Targets PROVE SavedAfter(a, t) \in SUBSET Nat /\ IsFiniteSet(SavedAfter(a, t))
    OBVIOUS
  <2>2. view.saved[t] \in SUBSET Nat /\ IsFiniteSet(view.saved[t])
    BY DEF Views
  <2>3. CASE a.type = "save-slot" /\ t = a.target
    <3>1. SavedAfter(a, t) = view.saved[t] \cup {a.slot} /\ a.slot \in Nat
      BY <2>3 DEF SavedAfter, ActionRec
    <3> QED BY <2>2, <3>1, FS_AddElement
  <2>4. CASE a.type = "restore-slot" /\ t = a.target
    <3>1. SavedAfter(a, t) = view.saved[t] \ {a.slot}
      BY <2>4 DEF SavedAfter
    <3> QED BY <2>2, <3>1, FS_RemoveElement
  <2>5. CASE ~(a.type \in {"save-slot", "restore-slot"} /\ t = a.target)
    BY <2>2, <2>5 DEF SavedAfter
  <2> QED BY <2>3, <2>4, <2>5
<1>4. active2 \in SUBSET Targets
  BY DEF Views
<1> HIDE DEF state2, saved2, active2
<1>5. After(a) \in Views /\ After(a).state = state2 /\ After(a).active = active2
      /\ After(a).pinned = view.pinned
  BY <1>1, <1>2, <1>3, <1>4 DEF Views
<1> QED BY <1>5 DEF state2, active2

(* What there is to do is some of what the plan says. *)
LEMMA TodoFacts ==
  ASSUME Planned
  PROVE  /\ Todo \in Seq(ActionRec)
         /\ Todo # << >> =>
              /\ Head(Todo) \in ActionRec
              /\ Head(Todo) \in Range(thePlan.actions)
              /\ Head(Todo).type # "route-request"
<1> DEFINE routeless == {x \in Range(thePlan.actions) : x.type # "route-request"}
<1>1. thePlan.actions \in Seq(ActionRec)
  BY AskedIsManaged, PlanShape DEF Planned
<1>2. Todo = Only(thePlan.actions, routeless)
  BY DEF Todo, ReadinessActions
<1>3. Todo \in Seq(ActionRec) /\ Range(Todo) = Range(thePlan.actions) \cap routeless
  <2> HIDE DEF routeless
  <2> QED BY <1>1, <1>2, OnlyKeeps
<1>4. ASSUME Todo # << >> PROVE Head(Todo) \in Range(Todo)
  BY <1>3, <1>4, RangeHead
<1>5. \A x \in Range(Todo) : x \in ActionRec
  BY <1>3, RangeType
<1> QED BY <1>3, <1>4, <1>5

LEMMA PassIsView ==
  ASSUME Planned, Pass
  PROVE  view' \in Views
<1>1. Head(Todo) \in ActionRec
  BY TodoFacts DEF Pass
<1> QED BY <1>1, AfterIsView DEF Pass, Planned

LEMMA RequestIsView ==
  ASSUME Planned, NextRequest
  PROVE  view' \in Views /\ asked' \in Asked
<1>1. PICK still \in SUBSET ({asked} \cap {t \in Targets : view.state[t] = "ready"}) :
        view' = [view EXCEPT !.active = @ \cup still]
  BY DEF NextRequest
<1>2. view.active \cup still \in SUBSET Targets
  BY DEF Planned, Views
<1> QED BY <1>1, <1>2 DEF NextRequest, Planned, Views

(* A response that ends leaves a view in which less is active. *)
LEMMA ResponseIsView ==
  ASSUME Planned, NEW t \in Targets, ResponseEnds(t)
  PROVE  /\ view' \in Views
         /\ view'.state = view.state
         /\ view'.active \subseteq view.active
         /\ view'.pinned = view.pinned
<1> DEFINE idle2 == [view.idle EXCEPT ![t] = 0]
<1>1. view' = [view EXCEPT !.active = view.active \ {t}, !.wanted = view.wanted \ {t}, !.idle = idle2]
  BY DEF ResponseEnds, Planned, Views
<1>2. /\ view.active \ {t} \in SUBSET Targets /\ view.wanted \ {t} \in SUBSET Targets
      /\ idle2 \in [Targets -> Nat]
  BY DEF Planned, Views
<1> HIDE DEF idle2
<1> QED BY <1>1, <1>2 DEF Planned, Views

(* So does idle maintenance, which readies nothing. *)
LEMMA UnloadIsView ==
  ASSUME Planned, NEW t \in Targets, UnloadIdle(t)
  PROVE  /\ view' \in Views
         /\ \E a \in ActionRec : /\ a.type \in TakeDowns
                                 /\ view'.state = [u \in Targets |-> StateAfter(a, u)]
         /\ view'.active \subseteq view.active
         /\ view'.pinned = view.pinned
<1> DEFINE slots == IF SavesSlots[t] /\ SlotSave[t] THEN Range(SlotIds[t]) ELSE {}
<1>0. view \in Views
  BY DEF Planned
<1>1. PICK a \in Range(UnloadActions(view, t)) :
        /\ a.type # "save-slot"
        /\ view' = [After(a) EXCEPT
             !.saved[t] = IF SavesSlots[t] /\ SlotSave[t] THEN @ \cup Range(SlotIds[t]) ELSE @]
  BY DEF UnloadIdle
<1>2. a \in ActionRec /\ a.type \in TakeDowns
  <2>1. UnloadActions(view, t) \in Seq(ActionRec) /\ a.type \in {"save-slot"} \cup TakeDowns
    BY <1>0, <1>1, UnloadActionsFacts
  <2> QED BY <1>1, <2>1, RangeType
<1>3. /\ After(a) \in Views
      /\ After(a).state = [u \in Targets |-> StateAfter(a, u)]
      /\ After(a).active \subseteq view.active
      /\ After(a).pinned = view.pinned
  BY <1>0, <1>2, AfterIsView
<1> DEFINE w == After(a)
           saved2 == [w.saved EXCEPT ![t] = @ \cup slots]
<1>4. slots \in SUBSET Nat /\ IsFiniteSet(slots)
  <2>1. SlotIds[t] \in Seq(Nat)
    BY PlanInputs
  <2>2. Range(SlotIds[t]) \in SUBSET Nat /\ IsFiniteSet(Range(SlotIds[t]))
    BY <2>1, RangeType, FiniteRange
  <2> QED BY <2>2, FS_EmptySet
<1>5. w \in Views /\ w.saved[t] \in SUBSET Nat /\ IsFiniteSet(w.saved[t])
  BY <1>3 DEF Views
<1> HIDE DEF slots, w
<1>6. saved2 \in [Targets -> {s \in SUBSET Nat : IsFiniteSet(s)}]
  <2>1. w.saved[t] \cup slots \in SUBSET Nat /\ IsFiniteSet(w.saved[t] \cup slots)
    BY <1>4, <1>5, FS_Union
  <2> QED BY <1>5, <2>1 DEF Views
<1>7. view' = [w EXCEPT !.saved = saved2]
  <2>1. view' = [w EXCEPT !.saved[t] = IF SavesSlots[t] /\ SlotSave[t] THEN @ \cup Range(SlotIds[t]) ELSE @]
    BY <1>1 DEF w
  <2> QED BY <1>5, <2>1 DEF slots, Views
<1> HIDE DEF saved2
<1>8. /\ view' \in Views /\ view'.state = w.state /\ view'.active = w.active
      /\ view'.pinned = w.pinned
  BY <1>5, <1>6, <1>7 DEF Views
<1> QED BY <1>2, <1>3, <1>8 DEF w

LEMMA StepIsView ==
  ASSUME Planned, Next
  PROVE  view' \in Views /\ asked' \in Asked /\ Plan
<1>1. CASE Pass
  BY <1>1, PassIsView DEF Pass, Planned
<1>2. CASE NextRequest
  BY <1>2, RequestIsView DEF NextRequest
<1>3. ASSUME NEW t \in Targets, ResponseEnds(t) PROVE view' \in Views /\ asked' \in Asked /\ Plan
  BY <1>3, ResponseIsView DEF ResponseEnds, Planned
<1>4. ASSUME NEW t \in Targets, UnloadIdle(t) PROVE view' \in Views /\ asked' \in Asked /\ Plan
  BY <1>4, UnloadIsView DEF UnloadIdle, Planned
<1> QED BY <1>1, <1>2, <1>3, <1>4 DEF Next

(* Every step leaves a view; every plan is the one of its view.            *)
THEOREM PlansOfTheView == Spec => []Planned
<1>1. Init => Planned
  BY PlanningInputs DEF Init, Planned
<1>2. Planned /\ [Next]_vars => Planned'
  <2>1. ASSUME Planned, Next PROVE Planned'
    BY <2>1, StepIsView DEF Planned, Plan
  <2>2. ASSUME Planned, UNCHANGED vars PROVE Planned'
    BY <2>2 DEF Planned, vars
  <2> QED BY <2>1, <2>2
<1> QED BY <1>1, <1>2, PTL DEF Spec

-----------------------------------------------------------------------------
(* What the peers of the planner are in terms of the properties. *)

LEMMA PeersAreResidents ==
  ASSUME Planned
  PROVE  /\ \A i \in Peers(view, asked) :
              /\ i \in Resident
              /\ i \in Instances
              /\ Residents(view, asked, i) = ReadyOn(i)
         /\ \A i \in Resident, p \in Pools :
              Draw[i][p] > 0 => i \in Peers(view, asked)
<1>1. \A i : i # InstanceOf[asked] => Residents(view, asked, i) = ReadyOn(i)
  BY DEF Residents, ReadyOn, IsActive
<1>2. \A i \in Peers(view, asked) :
        i \in Instances /\ i # InstanceOf[asked] /\ Residents(view, asked, i) # {}
  BY DEF Peers
<1>3. \A i \in Peers(view, asked) : i \in Resident
  BY <1>1, <1>2 DEF Resident, ReadyOn
<1>4. ASSUME NEW i \in Resident, NEW p \in Pools, Draw[i][p] > 0
      PROVE  i \in Peers(view, asked)
  <2>1. i \in Instances /\ i # InstanceOf[asked] /\ ReadyOn(i) # {}
    BY <1>4 DEF Resident, ReadyOn
  <2> QED BY <1>1, <1>4, <2>1 DEF Peers
<1> QED BY <1>1, <1>2, <1>3, <1>4

(* The two tiers of eviction are the residents that may be evicted.        *)
LEMMA EligibleIsLawful ==
  ASSUME Planned, NEW i \in Peers(view, asked),
         NEW pools \in SUBSET Pools, NEW busy \in BOOLEAN
  PROVE  Eligible(view, asked, PeerFor(view, asked)[i], i, busy, pools) /\ (busy => busyOk)
           <=> /\ MayEvict(i)
               /\ busy = Busy(i)
               /\ DrawOn(i, pools) > 0
<1> DEFINE x == PeerFor(view, asked)[i]
<1>1. asked \in Targets /\ view \in Views
  BY AskedIsManaged DEF Planned
<1>2. x = Peer(view, asked, i) /\ Residents(view, asked, i) # {}
  BY <1>1, PeerForFacts
<1>3. Residents(view, asked, i) = ReadyOn(i) /\ i \in Instances
  BY PeersAreResidents
<1>4. /\ x \in PeerRec
      /\ x.busy = (\E u \in ReadyOn(i) : u \in view.active)
      /\ x.preemptible = (\A u \in ReadyOn(i) : IsPreemptible(view, u))
      /\ \A u \in ReadyOn(i) : Priority[u] <= x.priority
      /\ \E u \in ReadyOn(i) : Priority[u] = x.priority
  <2>1. /\ Peer(view, asked, i) \in PeerRec
        /\ Peer(view, asked, i).busy = (\E u \in Residents(view, asked, i) : u \in view.active)
        /\ Peer(view, asked, i).preemptible
             = (\A u \in Residents(view, asked, i) : IsPreemptible(view, u))
        /\ \A u \in Residents(view, asked, i) : Priority[u] <= Peer(view, asked, i).priority
        /\ \E u \in Residents(view, asked, i) : Priority[u] = Peer(view, asked, i).priority
    BY <1>1, <1>2, <1>3, PeerFacts
  <2> HIDE DEF x
  <2> QED BY <1>2, <1>3, <2>1
<1>5. x.busy = Busy(i) /\ x.busy \in BOOLEAN /\ x.priority \in Int
  BY <1>4 DEF Busy, PeerRec
<1>6. \A u \in ReadyOn(i) : Priority[u] \in Int
  BY PlanInputs DEF ReadyOn
<1>7. Priority[asked] \in Int
  BY <1>1, PlanInputs
<1> HIDE DEF x
<1>8. /\ (\A u \in ReadyOn(i) : Priority[u] < Priority[asked]) <=> x.priority < Priority[asked]
      /\ (\A u \in ReadyOn(i) : Priority[u] <= Priority[asked]) <=> x.priority <= Priority[asked]
  BY <1>4, <1>5, <1>6, <1>7
<1>9. MayEvict(i) <=> /\ x.target \notin view.pinned
                      /\ x.preemptible
                      /\ (Busy(i) => busyOk /\ x.priority < Priority[asked])
                      /\ (~Busy(i) => x.priority <= Priority[asked])
  <2>1. ReadyOn(i) # {}
    BY <1>2, <1>3
  <2> QED BY <1>2, <1>4, <1>8, <2>1 DEF MayEvict
<1>10. Eligible(view, asked, x, i, busy, pools) <=>
         /\ x.preemptible
         /\ x.target \notin view.pinned
         /\ busy = Busy(i)
         /\ DrawOn(i, pools) > 0
         /\ (busy => x.priority < Priority[asked])
         /\ (~busy => x.priority <= Priority[asked])
  BY <1>5 DEF Eligible
<1>11. Eligible(view, asked, x, i, busy, pools) /\ (busy => busyOk)
         <=> /\ MayEvict(i)
             /\ busy = Busy(i)
             /\ DrawOn(i, pools) > 0
  BY <1>9, <1>10
<1> QED BY <1>11 DEF x

(* What is no deficit is room beside what is kept, and more room beside    *)
(* less.                                                                   *)
LEMMA NoDeficitFits ==
  ASSUME Planned, NEW kept \in SUBSET Instances, NEW R \in SUBSET Instances,
         Deficits(asked, kept) = {},
         \A i \in R, p \in Pools : Draw[i][p] > 0 => i \in kept
  PROVE  FitsBeside(R)
<1>1. SUFFICES ASSUME NEW p \in Pools, Draw[InstanceOf[asked]][p] > 0
               PROVE  p \in DOMAIN Room /\ Used(p, R) + Draw[InstanceOf[asked]][p] <= Room[p]
  BY DEF FitsBeside
<1> DEFINE d == Draw[InstanceOf[asked]][p]
<1>2. d \in Nat
  BY AskedIsManaged, PlanInputs
<1>3. ~(d > Free(p, kept))
  BY <1>1 DEF Deficits
<1>4. p \in DOMAIN Room
  BY <1>1, <1>2, <1>3 DEF Free
<1>5. d <= Room[p] - Used(p, kept)
  <2>1. Free(p, kept) = Room[p] - Used(p, kept) /\ Free(p, kept) \in Int
    BY <1>4, UsedFacts DEF Free
  <2> QED BY <1>2, <1>3, <2>1
<1>6. Used(p, R) <= Used(p, kept)
  BY UsedCovered
<1>7. Used(p, R) \in Nat /\ Used(p, kept) \in Nat /\ Room[p] \in Int
  BY <1>4, UsedFacts, PlanInputs
<1> QED BY <1>2, <1>4, <1>5, <1>6, <1>7

LEMMA DeficitIsTooMuch ==
  ASSUME Planned, NEW kept \in SUBSET Instances, NEW R \in SUBSET Instances,
         NEW p \in Deficits(asked, kept),
         \A i \in kept : Draw[i][p] > 0 => i \in R
  PROVE  ~FitsBeside(R)
<1> DEFINE d == Draw[InstanceOf[asked]][p]
<1>1. p \in Pools /\ d > 0 /\ d > Free(p, kept)
  BY DEF Deficits
<1>2. d \in Nat
  BY <1>1, AskedIsManaged, PlanInputs
<1>3. SUFFICES ASSUME p \in DOMAIN Room, Used(p, R) + d <= Room[p] PROVE FALSE
  BY <1>1 DEF FitsBeside
<1>4. Free(p, kept) = Room[p] - Used(p, kept)
  BY <1>3 DEF Free
<1>5. Used(p, kept) <= Used(p, R)
  BY <1>1, UsedCovered
<1>6. Used(p, R) \in Nat /\ Used(p, kept) \in Nat /\ Room[p] \in Int
  BY <1>1, <1>3, UsedFacts, PlanInputs
<1> QED BY <1>1, <1>2, <1>3, <1>4, <1>5, <1>6

-----------------------------------------------------------------------------
(* The rounds of evictions for the request. *)

PeerOf == PeerFor(view, asked)
AllPeers == Peers(view, asked)
Ask == Evictions(view, asked, busyOk)

(* The case in which anything is evicted. *)
Competes == view.state[asked] # "ready" /\ DOMAIN Room # {}

(* Where no round is held, every resident that could be evicted and draws  *)
(* on what is missing has been.                                            *)
LEMMA OverIsHopeless ==
  ASSUME Planned, NEW left \in SUBSET AllPeers,
         Over(view, asked, PeerOf, busyOk, left), Deficits(asked, left) # {}
  PROVE  ~FitsBeside({i \in Resident : ~MayEvict(i)})
<1> DEFINE pools == Deficits(asked, left)
<1>1. pools \in SUBSET Pools
  BY DEF Deficits
<1>2. Tier(view, asked, PeerOf, left, pools, busyOk) = {}
  BY DEF Over
<1>3. \A i \in left : /\ ~Eligible(view, asked, PeerOf[i], i, FALSE, pools)
                      /\ ~(busyOk /\ Eligible(view, asked, PeerOf[i], i, TRUE, pools))
  BY <1>2 DEF Tier, Planned
<1>4. \A i \in left : i \in AllPeers /\ i \in Resident /\ i \in Instances
  BY PeersAreResidents DEF AllPeers
<1> HIDE DEF pools
<1>5. ASSUME NEW i \in left, DrawOn(i, pools) > 0
      PROVE  ~MayEvict(i)
  <2>1. Busy(i) \in BOOLEAN
    BY DEF Busy
  <2>2. Eligible(view, asked, PeerOf[i], i, Busy(i), pools) /\ (Busy(i) => busyOk)
          <=> MayEvict(i) /\ Busy(i) = Busy(i) /\ DrawOn(i, pools) > 0
    BY <1>1, <1>4, <2>1, EligibleIsLawful DEF AllPeers, PeerOf
  <2>3. CASE Busy(i)
    BY <1>3, <1>5, <2>2, <2>3
  <2>4. CASE ~Busy(i)
    <3>1. Busy(i) = FALSE
      BY <2>1, <2>4
    <3> QED BY <1>3, <1>5, <2>2, <3>1
  <2> QED BY <2>3, <2>4
<1> DEFINE R == {i \in Resident : ~MayEvict(i)}
<1>6. PICK p \in pools : TRUE
  BY DEF pools
<1>7. ASSUME NEW i \in left, Draw[i][p] > 0 PROVE i \in R
  BY <1>1, <1>4, <1>5, <1>6, <1>7, DrawOnFacts
<1>8. left \in SUBSET Instances /\ R \in SUBSET Instances
  BY <1>4 DEF Resident
<1> HIDE DEF R
<1>9. ~FitsBeside(R)
  BY <1>6, <1>7, <1>8, DeficitIsTooMuch DEF pools
<1> QED BY <1>9 DEF R

(* What is evicted in a round: a resident that may be, busy only when no   *)
(* idle one may be, wanted only when no idle one is unwanted.              *)
LEMMA VictimIsLawful ==
  ASSUME Planned, NEW kept \in SUBSET AllPeers,
         ~Over(view, asked, PeerOf, busyOk, kept),
         NEW i, i = VictimOf(view, asked, PeerOf, busyOk, kept)
  PROVE  /\ MayEvict(i)
         /\ Busy(i) =>
              \A j \in kept : DrawOn(j, Deficits(asked, kept)) > 0 => ~MayEvict(j) \/ Busy(j)
         /\ (~Busy(i) /\ Peer(view, asked, i).target \in view.wanted) =>
              \A j \in kept : DrawOn(j, Deficits(asked, kept)) > 0 =>
                \/ ~MayEvict(j) \/ Busy(j)
                \/ Peer(view, asked, j).target \in view.wanted
<1> DEFINE pools == Deficits(asked, kept)
           tier == Tier(view, asked, PeerOf, kept, pools, busyOk)
           idle == {j \in kept : Eligible(view, asked, PeerOf[j], j, FALSE, pools)}
           busies == {j \in kept : Eligible(view, asked, PeerOf[j], j, TRUE, pools)}
           wanted(j) == Peer(view, asked, j).target \in view.wanted
<1>1. pools \in SUBSET Pools /\ pools # {}
  BY DEF Deficits, Over
<1>2. tier # {} /\ tier \in SUBSET kept
  BY DEF Over, Tier
<1>3. tier = IF idle # {} THEN idle ELSE IF busyOk THEN busies ELSE {}
  BY DEF Tier
<1>4. PeersOK(PeerOf) /\ DOMAIN PeerOf = AllPeers /\ \A j \in AllPeers : PeerOf[j] = Peer(view, asked, j)
  BY AskedIsManaged, PeerForFacts DEF Planned, PeerOf, AllPeers
<1>5. view \in Views /\ asked \in Targets
  BY AskedIsManaged DEF Planned
<1>6. i = FirstVictim(view, PeerOf, tier, pools)
  BY DEF VictimOf
<1>7. \A j \in kept : j \in AllPeers /\ j \in Instances
  BY PeersAreResidents DEF AllPeers
<1> HIDE DEF pools, tier
<1>8. /\ i \in tier
      /\ \A j \in tier \ {i} : Below(SortKey(view, PeerOf[i], i, pools), SortKey(view, PeerOf[j], j, pools))
  <2>1. tier \in SUBSET DOMAIN PeerOf
    BY <1>2, <1>4, <1>7
  <2> QED BY <1>1, <1>2, <1>4, <1>5, <1>6, <2>1, FirstVictimIsFirst
<1>9. /\ \A j \in idle : MayEvict(j) /\ ~Busy(j)
      /\ busyOk => \A j \in busies : MayEvict(j) /\ Busy(j)
      /\ \A j \in kept : (DrawOn(j, pools) > 0 /\ MayEvict(j) /\ ~Busy(j)) => j \in idle
  <2>1. ASSUME NEW j \in kept, NEW b \in BOOLEAN
        PROVE  Eligible(view, asked, PeerOf[j], j, b, pools) /\ (b => busyOk)
                 <=> MayEvict(j) /\ b = Busy(j) /\ DrawOn(j, pools) > 0
    BY <1>1, <1>7, EligibleIsLawful DEF AllPeers, PeerOf
  <2>2. \A j \in kept : Busy(j) \in BOOLEAN
    BY DEF Busy
  <2>3. \A j \in kept : Eligible(view, asked, PeerOf[j], j, FALSE, pools)
                         <=> MayEvict(j) /\ ~Busy(j) /\ DrawOn(j, pools) > 0
    BY <2>1, <2>2
  <2>4. \A j \in kept : Eligible(view, asked, PeerOf[j], j, TRUE, pools) /\ busyOk
                         <=> MayEvict(j) /\ Busy(j) /\ DrawOn(j, pools) > 0
    BY <2>1, <2>2
  <2> QED BY <2>3, <2>4
<1>10. MayEvict(i)
  BY <1>3, <1>8, <1>9
<1>11. ASSUME Busy(i), NEW j \in kept, DrawOn(j, pools) > 0
       PROVE  ~MayEvict(j) \/ Busy(j)
  BY <1>3, <1>8, <1>9, <1>11
<1>12. ASSUME ~Busy(i), wanted(i), NEW j \in kept, DrawOn(j, pools) > 0, MayEvict(j), ~Busy(j)
       PROVE  wanted(j)
  <2>1. j \in idle /\ tier = idle
    BY <1>3, <1>9, <1>12
  <2>2. CASE j = i
    BY <1>12, <2>2
  <2>3. CASE j # i
    <3> DEFINE k == SortKey(view, PeerOf[i], i, pools)
               l == SortKey(view, PeerOf[j], j, pools)
    <3>1. Below(k, l)
      BY <1>8, <2>1, <2>3
    <3>2. i \in AllPeers /\ j \in AllPeers /\ i \in Instances /\ j \in Instances
      BY <1>2, <1>7, <1>8
    <3>3. PeerOf[i] \in PeerRec /\ PeerOf[j] \in PeerRec
      BY <1>4, <3>2 DEF PeersOK
    <3>4. /\ Len(k) = 5
          /\ k[1] = (IF PeerOf[i].target \in view.wanted THEN 1 ELSE 0)
          /\ l[1] = (IF PeerOf[j].target \in view.wanted THEN 1 ELSE 0)
      BY <1>1, <1>5, <3>2, <3>3, SortKeyType
    <3> HIDE DEF k, l
    <3>5. k[1] = 1
      BY <1>4, <1>12, <3>2, <3>4
    <3>6. PICK n \in 1..5 : k[n] < l[n] /\ \A m \in 1..(n - 1) : k[m] = l[m]
      BY <3>1, <3>4 DEF Below
    <3>7. CASE n = 1
      <4>1. k[1] < l[1]
        BY <3>6, <3>7
      <4>2. l[1] = 1 \/ l[1] = 0
        BY <3>4
      <4> QED BY <3>5, <4>1, <4>2
    <3>8. CASE n # 1
      <4>1. 1 \in 1..(n - 1)
        BY <3>8
      <4>2. l[1] = 1
        BY <3>5, <3>6, <4>1
      <4> QED BY <1>4, <3>2, <3>4, <4>2
    <3> QED BY <3>7, <3>8
  <2> QED BY <2>2, <2>3
<1> QED BY <1>10, <1>11, <1>12 DEF pools

-----------------------------------------------------------------------------
(* What a plan takes down. *)

LEMMA UnloadsOfPlan ==
  ASSUME NEW plan, plan.actions \in Seq(ActionRec)
  PROVE  \A u : u \in Unloads(plan)
                  <=> \E a \in Range(plan.actions) : a.type \in TakeDowns /\ a.target = u
<1> DEFINE s == plan.actions
<1>1. ASSUME NEW u, u \in Unloads(plan)
      PROVE  \E a \in Range(s) : a.type \in TakeDowns /\ a.target = u
  <2>1. PICK n \in 1..Len(s) : s[n].type \in TakeDowns /\ s[n].target = u
    BY <1>1 DEF Unloads, TakeDowns
  <2>2. s[n] \in Range(s)
    BY RangeHas
  <2> QED BY <2>1, <2>2
<1>2. ASSUME NEW u, NEW a \in Range(s), a.type \in TakeDowns, a.target = u
      PROVE  u \in Unloads(plan)
  <2>1. PICK n \in 1..Len(s) : s[n] = a
    BY RangeFrom
  <2> QED BY <1>2, <2>1 DEF Unloads, TakeDowns
<1> QED BY <1>1, <1>2

(* The instances a plan takes down are the victims of its rounds.          *)
LEMMA DownAreVictims ==
  ASSUME Planned, thePlan.ok, Competes
  PROVE  \E left \in SUBSET AllPeers :
           /\ Ends(view, asked, PeerOf, busyOk, AllPeers, left)
           /\ Deficits(asked, left) = {}
           /\ Down = AllPeers \ left
<1>1. asked \in Targets /\ view \in Views /\ IsManaged(asked) /\ busyOk \in BOOLEAN
  BY AskedIsManaged DEF Planned
<1>2. ~(~IsManaged(asked) \/ IsActive(view, asked) \/ DOMAIN Room = {})
  BY <1>1 DEF Competes, IsActive
<1>3. /\ Ask = Rounds(view, asked, PeerOf, busyOk)[AllPeers]
      /\ \E left \in SUBSET AllPeers : Ends(view, asked, PeerOf, busyOk, AllPeers, left)
  BY <1>1, <1>2, EvictionsEnd DEF Ask, PeerOf, AllPeers
<1>4. PICK left \in SUBSET AllPeers : Ends(view, asked, PeerOf, busyOk, AllPeers, left)
  BY <1>3
<1>5. /\ thePlan.actions \in Seq(ActionRec)
      /\ thePlan.ok = (view.state[asked] # "error" /\ Ask.ok)
      /\ \A a \in Range(thePlan.actions) :
           a \in Range(Ask.actions) \/ a \in Loads(view, asked) \/ a = Act("route-request", asked)
      /\ thePlan.ok => Range(Ask.actions) \subseteq Range(thePlan.actions)
  BY <1>1, PlanShape DEF Planned, Ask
<1>6. Deficits(asked, left) = {}
  BY <1>3, <1>4, <1>5 DEF Ends
<1>7. \A i \in AllPeers : /\ PeerOf[i].target \in Targets
                          /\ PeerOf[i].target # asked
                          /\ InstanceOf[PeerOf[i].target] = i
                          /\ IsManaged(PeerOf[i].target)
  <2>1. ASSUME NEW i \in AllPeers PROVE PeerOf[i].target \in Residents(view, asked, i) /\ i \in Instances
    <3>1. PeerOf[i] = Peer(view, asked, i) /\ i \in Instances /\ Residents(view, asked, i) # {}
      BY <1>1, PeerForFacts DEF PeerOf, AllPeers
    <3> QED BY <1>1, <3>1, PeerFacts
  <2> QED BY <2>1 DEF Residents, Instances, IsManaged
<1>8. ASSUME NEW u \in Unloads(thePlan), u # asked
      PROVE  InstanceOf[u] \in AllPeers \ left
  <2>1. PICK a \in Range(thePlan.actions) : a.type \in TakeDowns /\ a.target = u
    BY <1>5, <1>8, UnloadsOfPlan
  <2>2. a \notin Loads(view, asked)
    BY <1>8, <2>1 DEF Loads
  <2>3. a # Act("route-request", asked)
    BY <1>8, <2>1 DEF Act
  <2>4. a \in Range(Ask.actions)
    BY <1>5, <2>2, <2>3
  <2>5. PICK i \in AllPeers \ left : a \in Range(UnloadActions(view, PeerOf[i].target))
    BY <1>3, <1>4, <2>4 DEF Ends
  <2>6. a.target = PeerOf[i].target
    BY <1>1, <1>7, <2>5, UnloadActionsFacts
  <2> QED BY <1>7, <2>1, <2>5, <2>6
<1>9. ASSUME NEW i \in AllPeers \ left
      PROVE  \E u \in Unloads(thePlan) \ {asked} : InstanceOf[u] = i
  <2> DEFINE u == PeerOf[i].target
  <2>1. u \in Targets /\ u # asked /\ InstanceOf[u] = i /\ IsManaged(u)
    BY <1>7
  <2> HIDE DEF u
  <2>2. PICK a \in Range(UnloadActions(view, u)) : a.type \in TakeDowns
    BY <1>1, <2>1, UnloadActionsFacts
  <2>3. a.target = u
    BY <1>1, <2>1, UnloadActionsFacts
  <2>4. a \in Range(Ask.actions)
    BY <1>3, <1>4, <2>2 DEF Ends, u
  <2>5. u \in Unloads(thePlan)
    BY <1>5, <2>2, <2>3, <2>4, UnloadsOfPlan
  <2> QED BY <2>1, <2>5
<1>10. Down = AllPeers \ left
  BY <1>8, <1>9 DEF Down
<1> QED BY <1>4, <1>6, <1>10

(* Where nothing competes, nothing is taken down but asked itself.         *)
LEMMA NothingDown ==
  ASSUME Planned, ~Competes
  PROVE  Down = {} /\ Ask.ok
<1>1. asked \in Targets /\ view \in Views /\ busyOk \in BOOLEAN
  BY AskedIsManaged DEF Planned
<1>2. IsActive(view, asked) \/ DOMAIN Room = {}
  BY DEF Competes, IsActive
<1>3. Trivially(Ask)
  BY <1>1, <1>2, EvictionsEnd DEF Ask
<1>4. Ask.ok /\ Ask.actions = << >>
  BY <1>3 DEF Trivially
<1>5. Len(Ask.actions) = 0 /\ Ask.actions \in Seq(ActionRec)
  BY <1>4
<1>6. Range(Ask.actions) = {}
  BY <1>5, EmptyRange
<1>7. /\ thePlan.actions \in Seq(ActionRec)
      /\ \A a \in Range(thePlan.actions) :
           a \in Range(Ask.actions) \/ a \in Loads(view, asked) \/ a = Act("route-request", asked)
  BY <1>1, PlanShape DEF Planned, Ask
<1>8. \A a \in Range(thePlan.actions) : a.target = asked
  BY <1>6, <1>7 DEF Loads, Act
<1>9. \A u \in Unloads(thePlan) : u = asked
  BY <1>7, <1>8, UnloadsOfPlan
<1> QED BY <1>4, <1>9 DEF Down

-----------------------------------------------------------------------------
(* The properties, of a view and its plans. *)

(* Once all that a plan unloads is down, its target fits. *)
LEMMA RoomIsMade ==
  ASSUME Planned, DOMAIN Room # {}, thePlan.ok, view.state[asked] # "ready"
  PROVE  FitsBeside(Resident \ Down)
<1>1. Planned /\ DOMAIN Room # {} /\ thePlan.ok /\ view.state[asked] # "ready"
  OBVIOUS
<1>2. PICK left \in SUBSET AllPeers : Deficits(asked, left) = {} /\ Down = AllPeers \ left
  BY <1>1, DownAreVictims DEF Competes
<1>3. left \in SUBSET Instances
  BY <1>1, PeersAreResidents DEF AllPeers
<1>4. (Resident \ Down) \in SUBSET Instances
  BY DEF Resident
<1>5. ASSUME NEW i \in Resident \ Down, NEW p \in Pools, Draw[i][p] > 0
      PROVE  i \in left
  <2>1. i \in AllPeers
    BY <1>1, <1>5, PeersAreResidents DEF AllPeers
  <2> QED BY <1>2, <1>5, <2>1
<1> QED BY <1>1, <1>2, <1>3, <1>4, <1>5, NoDeficitFits

(* The first action: a load only if no eviction is left.                   *)
LEMMA FirstOfPlan ==
  ASSUME Planned, thePlan.ok, Todo # << >>
  PROVE  \/ Head(Todo) \in Loads(view, asked) /\ (view.state[asked] # "ready" => Down = {})
         \/ Head(Todo).type \in {"save-slot"} \cup TakeDowns
<1> DEFINE a == Head(Todo)
<1>1. asked \in Targets /\ view \in Views /\ IsManaged(asked) /\ busyOk \in BOOLEAN
  BY AskedIsManaged DEF Planned
<1>2. /\ thePlan.actions \in Seq(ActionRec)
      /\ \A x \in Range(thePlan.actions) :
           x \in Range(Ask.actions) \/ x \in Loads(view, asked) \/ x = Act("route-request", asked)
      /\ Len(Ask.actions) # 0 => Head(thePlan.actions) = Head(Ask.actions)
      /\ Range(Ask.actions) \subseteq Range(thePlan.actions)
      /\ Ask.actions \in Seq(ActionRec)
  BY <1>1, PlanShape, EvictionsEnd DEF Planned, Ask
<1>3. a \in Range(thePlan.actions) /\ a # Act("route-request", asked)
  BY TodoFacts DEF Act
<1>4. ASSUME NEW x \in Range(Ask.actions)
      PROVE  x.type \in {"save-slot"} \cup TakeDowns
  <2>1. CASE Competes
    <3>1. PICK left \in SUBSET AllPeers :
            \A y \in Range(Ask.actions) :
              \E i \in AllPeers \ left : y \in Range(UnloadActions(view, PeerOf[i].target))
      <4>1. ~(~IsManaged(asked) \/ IsActive(view, asked) \/ DOMAIN Room = {})
        BY <1>1, <2>1 DEF Competes, IsActive
      <4>2. /\ Ask = Rounds(view, asked, PeerOf, busyOk)[AllPeers]
            /\ \E left \in SUBSET AllPeers : Ends(view, asked, PeerOf, busyOk, AllPeers, left)
        BY <1>1, <4>1, EvictionsEnd DEF Ask, PeerOf, AllPeers
      <4>3. PICK left \in SUBSET AllPeers : Ends(view, asked, PeerOf, busyOk, AllPeers, left)
        BY <4>2
      <4> QED BY <4>2, <4>3 DEF Ends
    <3>2. PICK i \in AllPeers : x \in Range(UnloadActions(view, PeerOf[i].target))
      BY <3>1
    <3>3. PeerOf[i].target \in Targets
      <4>1. PeerOf[i] = Peer(view, asked, i) /\ i \in Instances /\ Residents(view, asked, i) # {}
        BY <1>1, PeerForFacts DEF PeerOf, AllPeers
      <4>2. PeerOf[i].target \in Residents(view, asked, i)
        BY <1>1, <4>1, PeerFacts
      <4> QED BY <4>2 DEF Residents
    <3> QED BY <1>1, <3>2, <3>3, UnloadActionsFacts
  <2>2. CASE ~Competes
    <3>1. Trivially(Ask)
      BY <1>1, <2>2, EvictionsEnd DEF Ask, Competes, IsActive
    <3>2. Ask.actions \in Seq(ActionRec) /\ Len(Ask.actions) = 0
      BY <1>2, <3>1 DEF Trivially
    <3> QED BY <1>4, <3>2, EmptyRange
  <2> QED BY <2>1, <2>2
<1>5. CASE Len(Ask.actions) # 0
  <2>1. Head(Ask.actions) \in Range(Ask.actions)
    <3>1. Ask.actions # << >>
      BY <1>5
    <3> QED BY <1>2, <3>1, RangeHead
  <2> DEFINE routeless == {x \in Range(thePlan.actions) : x.type # "route-request"}
  <2>2. Head(thePlan.actions) \in routeless /\ Len(thePlan.actions) # 0
    <3>1. Head(thePlan.actions).type # "route-request"
      BY <1>2, <1>4, <1>5, <2>1 DEF TakeDowns
    <3>2. thePlan.actions # << >>
      <4>1. Len(thePlan.actions) # 0
        BY <1>2, <2>1, EmptyRange
      <4> QED BY <1>2, <4>1
    <3> QED BY <1>2, <3>1, <3>2, RangeHead
  <2>3. a = Head(thePlan.actions)
    <3>1. Todo = Only(thePlan.actions, routeless)
      BY DEF Todo, ReadinessActions
    <3> HIDE DEF routeless
    <3> QED BY <1>2, <1>5, <2>2, <3>1, OnlyHead
  <2> QED BY <1>2, <1>4, <1>5, <2>1, <2>3
<1>6. CASE Len(Ask.actions) = 0
  <2>1. Range(Ask.actions) = {}
    BY <1>2, <1>6, EmptyRange
  <2>2. a \in Loads(view, asked)
    BY <1>2, <1>3, <2>1
  <2>3. ASSUME view.state[asked] # "ready", NEW i \in Down PROVE FALSE
    <3>1. PICK u \in Unloads(thePlan) \ {asked} : InstanceOf[u] = i
      BY <2>3 DEF Down
    <3>2. PICK x \in Range(thePlan.actions) : x.type \in TakeDowns /\ x.target = u
      BY <1>2, <3>1, UnloadsOfPlan
    <3> QED BY <1>2, <2>1, <3>1, <3>2 DEF Loads, Act
  <2> QED BY <2>2, <2>3
<1> QED BY <1>2, <1>5, <1>6

LEMMA PlannedFits == Planned => PlanFits
<1>1. SUFFICES ASSUME Planned, DOMAIN Room # {}, thePlan.ok, view.state[asked] # "ready",
                      Doing({"start-instance", "load-model"})
               PROVE  FitsBeside(Resident)
  BY DEF PlanFits
<1>2. Todo # << >> /\ Head(Todo).type \in {"start-instance", "load-model"}
  BY <1>1 DEF Doing
<1>3. Down = {}
  BY <1>1, <1>2, FirstOfPlan DEF TakeDowns
<1>4. FitsBeside(Resident \ Down) /\ Resident \ Down = Resident
  BY <1>1, <1>3, RoomIsMade
<1> QED BY <1>4

LEMMA PlannedIsHopeless == Planned => BlockedOnlyIfHopeless
<1>1. SUFFICES ASSUME Planned, ~thePlan.ok, view.state[asked] # "error"
               PROVE  ~FitsBeside({i \in Resident : ~MayEvict(i)})
  BY DEF BlockedOnlyIfHopeless
<1>2. asked \in Targets /\ view \in Views /\ IsManaged(asked) /\ busyOk \in BOOLEAN
  BY <1>1, AskedIsManaged DEF Planned
<1>3. ~Ask.ok /\ Ask.ok \in BOOLEAN
  BY <1>1, <1>2, PlanShape, EvictionsEnd DEF Planned, Ask
<1>4. Competes
  BY <1>1, <1>3, NothingDown
<1>5. /\ Ask = Rounds(view, asked, PeerOf, busyOk)[AllPeers]
      /\ \E left \in SUBSET AllPeers : Ends(view, asked, PeerOf, busyOk, AllPeers, left)
  BY <1>2, <1>4, EvictionsEnd DEF Ask, PeerOf, AllPeers, Competes, IsActive
<1>6. PICK left \in SUBSET AllPeers : Ends(view, asked, PeerOf, busyOk, AllPeers, left)
  BY <1>5
<1>7. Over(view, asked, PeerOf, busyOk, left) /\ Deficits(asked, left) # {}
  BY <1>3, <1>5, <1>6 DEF Ends
<1> QED BY <1>1, <1>7, OverIsHopeless

(* Whoever goes down was the victim of a round.                            *)
LEMMA VictimOfARound ==
  ASSUME Planned, thePlan.ok, Competes, NEW i \in Down
  PROVE  \E kept \in SUBSET AllPeers :
           /\ ~Over(view, asked, PeerOf, busyOk, kept)
           /\ i = VictimOf(view, asked, PeerOf, busyOk, kept)
  BY DownAreVictims DEF Ends

LEMMA PlannedIsLawful == Planned => VictimsLawful
<1>1. SUFFICES ASSUME Planned, thePlan.ok, view.state[asked] # "ready", NEW i \in Down
               PROVE  MayEvict(i)
  BY DEF VictimsLawful
<1>2. Competes
  BY <1>1, NothingDown
<1> QED BY <1>1, <1>2, VictimOfARound, VictimIsLawful

(* The kept instances of a round that draw on what is missing are too many.*)
LEMMA RoundIsNeeded ==
  ASSUME Planned, NEW kept \in SUBSET AllPeers, ~Over(view, asked, PeerOf, busyOk, kept),
         NEW R \in SUBSET Instances,
         \A j \in kept : DrawOn(j, Deficits(asked, kept)) > 0 => j \in R
  PROVE  ~FitsBeside(R)
<1>1. PICK p \in Deficits(asked, kept) : TRUE
  BY DEF Over
<1>2. kept \in SUBSET Instances
  BY PeersAreResidents DEF AllPeers
<1>3. Deficits(asked, kept) \in SUBSET Pools
  BY DEF Deficits
<1>4. \A j \in kept : Draw[j][p] > 0 => j \in R
  BY <1>1, <1>2, <1>3, DrawOnFacts
<1> QED BY <1>1, <1>2, <1>4, DeficitIsTooMuch

LEMMA PlannedIsLastResort == Planned => LastResort
<1> DEFINE spared(i) == ~MayEvict(i) \/ Busy(i)
           wanted(i) == Peer(view, asked, i).target \in view.wanted
<1>1. SUFFICES ASSUME Planned, thePlan.ok, view.state[asked] # "ready"
               PROVE  /\ (\E i \in Down : Busy(i)) => ~FitsBeside({i \in Resident : spared(i)})
                      /\ (\E i \in Down : wanted(i) /\ ~Busy(i))
                           => ~FitsBeside({i \in Resident : spared(i) \/ wanted(i)})
  BY DEF LastResort
<1>2. (\E i \in Down : TRUE) => Competes
  BY <1>1, NothingDown
<1>3. \A j \in AllPeers : j \in Resident
  BY <1>1, PeersAreResidents DEF AllPeers
<1>4. Resident \in SUBSET Instances
  BY DEF Resident
<1>5. ASSUME NEW i \in Down, Busy(i)
      PROVE  ~FitsBeside({j \in Resident : spared(j)})
  <2> DEFINE R == {j \in Resident : spared(j)}
  <2>1. PICK kept \in SUBSET AllPeers : /\ ~Over(view, asked, PeerOf, busyOk, kept)
                                        /\ i = VictimOf(view, asked, PeerOf, busyOk, kept)
    BY <1>1, <1>2, <1>5, VictimOfARound
  <2>2. \A j \in kept : DrawOn(j, Deficits(asked, kept)) > 0 => spared(j)
    BY <1>1, <1>5, <2>1, VictimIsLawful
  <2>3. \A j \in kept : DrawOn(j, Deficits(asked, kept)) > 0 => j \in R
    BY <1>3, <2>1, <2>2
  <2>4. R \in SUBSET Instances
    BY <1>4
  <2> HIDE DEF R
  <2>5. ~FitsBeside(R)
    BY <1>1, <2>1, <2>3, <2>4, RoundIsNeeded
  <2> QED BY <2>5 DEF R
<1>6. ASSUME NEW i \in Down, wanted(i), ~Busy(i)
      PROVE  ~FitsBeside({j \in Resident : spared(j) \/ wanted(j)})
  <2> DEFINE R == {j \in Resident : spared(j) \/ wanted(j)}
  <2>1. PICK kept \in SUBSET AllPeers : /\ ~Over(view, asked, PeerOf, busyOk, kept)
                                        /\ i = VictimOf(view, asked, PeerOf, busyOk, kept)
    BY <1>1, <1>2, <1>6, VictimOfARound
  <2>2. \A j \in kept : DrawOn(j, Deficits(asked, kept)) > 0 => spared(j) \/ wanted(j)
    BY <1>1, <1>6, <2>1, VictimIsLawful
  <2>3. \A j \in kept : DrawOn(j, Deficits(asked, kept)) > 0 => j \in R
    BY <1>3, <2>1, <2>2
  <2>4. R \in SUBSET Instances
    BY <1>4
  <2> HIDE DEF R
  <2>5. ~FitsBeside(R)
    BY <1>1, <2>1, <2>3, <2>4, RoundIsNeeded
  <2> QED BY <2>5 DEF R
<1> QED BY <1>5, <1>6

(* Beside fewer residents there is more room. *)
LEMMA FitsBesideFewer ==
  ASSUME Planned, NEW S \in SUBSET Instances, NEW R \in SUBSET S, FitsBeside(S)
  PROVE  FitsBeside(R)
<1>1. SUFFICES ASSUME NEW p \in Pools, Draw[InstanceOf[asked]][p] > 0
               PROVE  p \in DOMAIN Room /\ Used(p, R) + Draw[InstanceOf[asked]][p] <= Room[p]
  BY DEF FitsBeside
<1>2. p \in DOMAIN Room /\ Used(p, S) + Draw[InstanceOf[asked]][p] <= Room[p]
  BY <1>1 DEF FitsBeside
<1>3. R \in SUBSET Instances /\ Used(p, R) <= Used(p, S)
  BY UsedCovered
<1>4. Used(p, R) \in Nat /\ Used(p, S) \in Nat /\ Room[p] \in Int /\ Draw[InstanceOf[asked]][p] \in Nat
  BY <1>2, <1>3, AskedIsManaged, UsedFacts, PlanInputs
<1> QED BY <1>2, <1>3, <1>4

(* What a plan that is not blocked depends on, for the view after a step.  *)
LEMMA UncontestedIsOk ==
  Planned /\ ~Competes /\ view.state[asked] # "error" => thePlan.ok
<1>1. SUFFICES ASSUME Planned, ~Competes, view.state[asked] # "error" PROVE thePlan.ok
  OBVIOUS
<1>2. asked \in Targets /\ view \in Views /\ busyOk \in BOOLEAN
  BY <1>1, AskedIsManaged DEF Planned
<1>3. Ask.ok
  BY <1>1, NothingDown
<1> QED BY <1>1, <1>2, <1>3, PlanShape DEF Planned, Ask

LEMMA UncontestedNext ==
  Planned' /\ ~Competes' /\ (view.state[asked] # "error")' => (thePlan.ok)'
  BY UncontestedIsOk, PTL

LEMMA HopelessNext == Planned' => BlockedOnlyIfHopeless'
  BY PlannedIsHopeless, PTL

(* Who may be evicted still may be when less is ready and less is active.  *)
LEMMA StillEvictable ==
  ASSUME Planned, NEW i \in Instances, MayEvict(i), ReadyOn(i) \cap view.pinned = {},
         view' \in Views, asked' = asked, busyOk' = busyOk,
         view'.active \subseteq view.active, view'.pinned = view.pinned,
         i # InstanceOf[asked], ReadyOn(i)' \subseteq ReadyOn(i), ReadyOn(i)' # {}
  PROVE  MayEvict(i)'
<1>1. asked \in Targets /\ \A t \in Targets : Priority[t] \in Int
  BY AskedIsManaged, PlanInputs
<1>2. ReadyOn(i)' = {t \in Targets : InstanceOf[t] = i /\ view'.state[t] = "ready"}
  BY DEF ReadyOn
<1>3. Residents(view', asked, i) = ReadyOn(i)'
  BY <1>2 DEF Residents, IsActive
<1>4. Peer(view', asked, i).target \in ReadyOn(i)'
  <2> DEFINE w == view'
  <2>1. w \in Views /\ Residents(w, asked, i) # {} /\ Residents(w, asked, i) = ReadyOn(i)'
    BY <1>3
  <2> HIDE DEF w
  <2>2. Peer(w, asked, i).target \in Residents(w, asked, i)
    BY <1>1, <2>1, PeerFacts
  <2> QED BY <2>1, <2>2 DEF w
<1>5. Peer(view', asked, i).target \notin view'.pinned
  BY <1>4
<1>6. Busy(i)' = (ReadyOn(i)' \cap view'.active # {})
  BY DEF Busy
<1>7. ASSUME NEW t \in Targets, t \in ReadyOn(i)'
      PROVE  /\ IsPreemptible(view', t)
             /\ IF Busy(i)' THEN busyOk /\ Priority[t] < Priority[asked]
                ELSE Priority[t] <= Priority[asked]
  <2>1. /\ IsPreemptible(view, t)
        /\ IF Busy(i) THEN busyOk /\ Priority[t] < Priority[asked]
           ELSE Priority[t] <= Priority[asked]
    BY <1>7 DEF MayEvict
  <2>2. IsPreemptible(view', t)
    BY <2>1 DEF IsPreemptible
  <2>3. Busy(i)' => Busy(i)
    BY <1>6 DEF Busy
  <2> QED BY <1>1, <2>1, <2>2, <2>3
<1> HIDE DEF Busy
<1>8. \A t \in ReadyOn(i)' : t \in Targets
  BY <1>2
<1> QED BY <1>5, <1>7, <1>8 DEF MayEvict

(* A plan that made room still does when nothing else got ready. *)
LEMMA StillUnblocked ==
  ASSUME Planned, Planned', thePlan.ok, view.state[asked] # "ready",
         asked' = asked, busyOk' = busyOk,
         view'.active \subseteq view.active, view'.pinned = view.pinned,
         \A i \in Down : ReadyOn(i) \cap view.pinned = {},
         \A t \in Targets : InstanceOf[t] # InstanceOf[asked] /\ view'.state[t] = "ready"
                              => view.state[t] = "ready",
         view'.state[asked] # "error"
  PROVE  thePlan'.ok
<1> DEFINE R == {i \in Resident : ~MayEvict(i)}
<1>1. SUFFICES ASSUME ~thePlan'.ok PROVE FALSE
  OBVIOUS
<1>2. Competes'
  BY <1>1, UncontestedNext
<1>3. DOMAIN Room # {} /\ view' \in Views
  BY <1>2 DEF Competes, Planned
<1>4. FitsBeside(Resident \ Down)
  BY <1>3, RoomIsMade
<1>5. ASSUME NEW i \in R' PROVE i \in Resident \ Down
  <2>1. /\ i \in Instances /\ i # InstanceOf[asked]
        /\ \E t \in Targets : InstanceOf[t] = i /\ view'.state[t] = "ready"
        /\ ~MayEvict(i)'
    BY <1>5 DEF Resident
  <2>2. i \in Resident
    BY <2>1 DEF Resident
  <2>3. ReadyOn(i)' \subseteq ReadyOn(i) /\ ReadyOn(i)' # {}
    BY <2>1 DEF ReadyOn
  <2>4. ASSUME i \in Down PROVE FALSE
    <3>1. MayEvict(i)
      BY <2>4, PlannedIsLawful DEF VictimsLawful
    <3> QED BY <1>3, <2>1, <2>3, <2>4, <3>1, StillEvictable
  <2> QED BY <2>2, <2>4
<1>6. ~FitsBeside(R)'
  BY <1>1, HopelessNext DEF BlockedOnlyIfHopeless
<1>7. ~FitsBeside(R')
  BY <1>6 DEF FitsBeside
<1> HIDE DEF R
<1>8. Resident \ Down \in SUBSET Instances
  BY DEF Resident
<1>9. R' \in SUBSET (Resident \ Down)
  BY <1>5
<1> QED BY <1>4, <1>7, <1>8, <1>9, FitsBesideFewer

(* What the actions of a plan do to the states that count. *)
LEMMA TakeDownReadies ==
  ASSUME NEW a, a.type \in {"save-slot"} \cup TakeDowns, NEW t
  PROVE  /\ StateAfter(a, t) = "ready" => view.state[t] = "ready"
         /\ StateAfter(a, t) = "error" => view.state[t] = "error"
  BY DEF StateAfter, TakeDowns

LEMMA LoadReadies ==
  ASSUME NEW a, a \in Loads(view, asked), NEW t
  PROVE  /\ InstanceOf[t] # InstanceOf[asked] /\ StateAfter(a, t) = "ready" => view.state[t] = "ready"
         /\ StateAfter(a, t) = "error" => view.state[t] = "error"
<1>1. a.target = asked /\ a.type # "unload-model"
  BY DEF Loads
<1> QED BY <1>1 DEF StateAfter, On

LEMMA NotStranded ==
  ASSUME Planned, Planned', Next, thePlan.ok, Todo # << >>, view.state[asked] # "ready",
         \A i \in Down : ReadyOn(i) \cap view.pinned = {}
  PROVE  thePlan'.ok
<1>1. /\ asked \in Targets /\ view \in Views /\ busyOk \in BOOLEAN
      /\ view.state[asked] # "error"
  BY AskedIsManaged, PlanShape DEF Planned
<1>2. SUFFICES /\ asked' = asked /\ busyOk' = busyOk
               /\ view'.active \subseteq view.active /\ view'.pinned = view.pinned
               /\ \A t \in Targets :
                    /\ InstanceOf[t] # InstanceOf[asked] /\ view'.state[t] = "ready"
                         => view.state[t] = "ready"
                    /\ view'.state[t] = "error" => view.state[t] = "error"
  BY <1>1, StillUnblocked
<1>3. CASE Pass
  <2> DEFINE a == Head(Todo)
  <2>1. a \in ActionRec /\ view' = After(a)
    BY <1>3, TodoFacts DEF Pass
  <2>2. /\ After(a).state = [t \in Targets |-> StateAfter(a, t)]
        /\ After(a).active \subseteq view.active
        /\ After(a).pinned = view.pinned
    BY <1>1, <2>1, AfterIsView
  <2>3. \/ a \in Loads(view, asked)
        \/ a.type \in {"save-slot"} \cup TakeDowns
    BY FirstOfPlan
  <2> HIDE DEF a
  <2>4. ASSUME NEW t \in Targets
        PROVE  /\ InstanceOf[t] # InstanceOf[asked] /\ StateAfter(a, t) = "ready"
                    => view.state[t] = "ready"
               /\ StateAfter(a, t) = "error" => view.state[t] = "error"
    BY <2>3, TakeDownReadies, LoadReadies
  <2> QED BY <1>3, <2>1, <2>2, <2>4 DEF Pass, Plan
<1>4. CASE NextRequest
  BY <1>4 DEF NextRequest
<1>5. ASSUME NEW t \in Targets, ResponseEnds(t)
      PROVE  /\ asked' = asked /\ busyOk' = busyOk
             /\ view'.active \subseteq view.active /\ view'.pinned = view.pinned
             /\ view'.state = view.state
  BY <1>5, ResponseIsView DEF ResponseEnds, Plan
<1>6. ASSUME NEW t \in Targets, UnloadIdle(t)
      PROVE  /\ asked' = asked /\ busyOk' = busyOk
             /\ view'.active \subseteq view.active /\ view'.pinned = view.pinned
             /\ \A u \in Targets :
                  /\ view'.state[u] = "ready" => view.state[u] = "ready"
                  /\ view'.state[u] = "error" => view.state[u] = "error"
  <2>1. PICK a \in ActionRec : a.type \in TakeDowns /\ view'.state = [u \in Targets |-> StateAfter(a, u)]
    BY <1>6, UnloadIsView
  <2>2. \A u \in Targets : /\ StateAfter(a, u) = "ready" => view.state[u] = "ready"
                           /\ StateAfter(a, u) = "error" => view.state[u] = "error"
    BY <2>1, TakeDownReadies
  <2> QED BY <1>6, <2>1, <2>2, UnloadIsView DEF UnloadIdle, Plan
<1> QED BY <1>3, <1>4, <1>5, <1>6 DEF Next

(* Evictions that are enough without a busy victim are the same with one   *)
(* allowed, and so is the plan.                                            *)
LEMMA PlannedAgrees == Planned => GateAgrees
<1>1. SUFFICES ASSUME Planned, gated.ok PROVE thePlan = gated
  BY DEF GateAgrees
<1>2. asked \in Targets /\ view \in Views /\ busyOk \in BOOLEAN
  BY <1>1, AskedIsManaged DEF Planned
<1> DEFINE E(b) == Evictions(view, asked, b)
<1>3. E(FALSE).ok
  BY <1>1, <1>2, PlanShape DEF Planned
<1>4. E(TRUE) = E(FALSE)
  <2>1. CASE ~IsManaged(asked) \/ IsActive(view, asked) \/ DOMAIN Room = {}
    BY <2>1 DEF Evictions
  <2>2. CASE ~(~IsManaged(asked) \/ IsActive(view, asked) \/ DOMAIN Room = {})
    <3>1. \A b \in BOOLEAN : E(b) = Rounds(view, asked, PeerOf, b)[AllPeers]
      BY <2>2 DEF Evictions, PeerOf, AllPeers
    <3>2. PeersOK(PeerOf) /\ DOMAIN PeerOf = AllPeers
      BY <1>2, PeerForFacts DEF PeerOf, AllPeers
    <3>3. AllPeers \in SUBSET DOMAIN PeerOf
      BY <3>2
    <3>4. Rounds(view, asked, PeerOf, FALSE)[AllPeers].ok
      BY <1>3, <3>1
    <3> HIDE DEF E
    <3>5. \A kept \in SUBSET DOMAIN PeerOf :
            Rounds(view, asked, PeerOf, FALSE)[kept].ok
              => Rounds(view, asked, PeerOf, TRUE)[kept] = Rounds(view, asked, PeerOf, FALSE)[kept]
      BY <1>2, <3>2, RoundsAgree
    <3>6. Rounds(view, asked, PeerOf, TRUE)[AllPeers] = Rounds(view, asked, PeerOf, FALSE)[AllPeers]
      BY <3>3, <3>4, <3>5
    <3> QED BY <3>1, <3>6
  <2> QED BY <2>1, <2>2
<1>5. PlanRequest(view, asked, TRUE) = PlanRequest(view, asked, FALSE)
  BY <1>4 DEF PlanRequest
<1> QED BY <1>1, <1>2, <1>5 DEF Planned

-----------------------------------------------------------------------------
(* What is started or loaded fits beside all that is up by then.           *)
THEOREM PlansFit == Spec => []PlanFits
  BY PlansOfTheView, PlannedFits, PTL

(* A plan is blocked only when nothing that may be unloaded makes room.    *)
THEOREM BlockedIsHopeless == Spec => []BlockedOnlyIfHopeless
  BY PlansOfTheView, PlannedIsHopeless, PTL

(* A request for which something was unloaded is not refused before it can *)
(* be routed.                                                              *)
THEOREM NobodyStranded == Spec => NeverStranded
<1>1. Planned /\ Planned' /\ [Next]_vars
        => [thePlan.ok /\ Todo # << >> /\ view.state[asked] # "ready"
            /\ (\A i \in Down : ReadyOn(i) \cap view.pinned = {})
              => thePlan'.ok]_vars
  BY NotStranded
<1> QED BY <1>1, PlansOfTheView, PTL DEF Spec, NeverStranded

(* Only what the policies and the priorities allow is unloaded.            *)
THEOREM VictimsAreLawful == Spec => []VictimsLawful
  BY PlansOfTheView, PlannedIsLawful, PTL

(* Busy and wanted residents are unloaded only when the others are not     *)
(* enough.                                                                 *)
THEOREM PreemptionIsLastResort == Spec => []LastResort
  BY PlansOfTheView, PlannedIsLastResort, PTL

(* The gateway and the admission policy agree on what needs no preemption. *)
THEOREM GatewayAgrees == Spec => []GateAgrees
  BY PlansOfTheView, PlannedAgrees, PTL

=============================================================================
