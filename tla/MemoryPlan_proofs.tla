-------------------------- MODULE MemoryPlan_proofs --------------------------
(***************************************************************************)
(* What the planner of MemoryPlan computes, for every set of targets,      *)
(* instances and pools and every view of them.  The induction over the     *)
(* rounds of the eviction loop is a least counterexample among the subsets *)
(* of the residents.                                                       *)
(***************************************************************************)
EXTENDS MemoryPlan, Lists_proofs

-----------------------------------------------------------------------------
(* Targets, instances and peers. *)

(* The targets are in Order once each. *)
LEMMA Positions ==
  /\ \A t \in Targets : Position(t) \in 1..Len(Order) /\ Order[Position(t)] = t
  /\ IsFiniteSet(Targets)
<1>1. Order \in Seq(Targets) /\ IsInjective(Order)
  BY PlanInputs
<1>2. \A t \in Targets : \E n \in 1..Len(Order) : Order[n] = t
  BY <1>1, RangeFrom DEF Targets
<1>3. \A t \in Targets : Position(t) \in 1..Len(Order) /\ Order[Position(t)] = t
  BY <1>2 DEF Position
<1>4. Order \in Surjection(1..Len(Order), Targets)
  <2>1. Order \in [1..Len(Order) -> Targets]
    BY <1>1
  <2> QED BY <1>2, <2>1 DEF Surjection
<1>5. Len(Order) \in Nat /\ IsFiniteSet(1..Len(Order))
  BY <1>1, FS_Interval
<1> QED BY <1>3, <1>4, <1>5, FS_Surjection

LEMMA FiniteInstances ==
  /\ IsFiniteSet(Instances)
  /\ \A t \in Targets : IsManaged(t) <=> InstanceOf[t] \in Instances
<1> DEFINE f == [t \in Targets |-> InstanceOf[t]]
           All == {InstanceOf[t] : t \in Targets}
<1>1. f \in Surjection(Targets, All)
  BY DEF Surjection
<1>2. IsFiniteSet(All)
  <2> HIDE DEF f, All
  <2> QED BY <1>1, Positions, FS_Surjection
<1>3. Instances = All \ {NoInstance}
  BY DEF Instances
<1>4. Instances \in SUBSET All
  BY <1>3
<1>5. IsFiniteSet(Instances)
  BY <1>2, <1>4, FS_Subset
<1> QED BY <1>5 DEF Instances, IsManaged

LEMMA FirstIsIn ==
  ASSUME NEW S \in SUBSET Targets, S # {}
  PROVE  First(S) \in S
<1> DEFINE P == {Position(t) : t \in S}
<1>1. P \subseteq Nat /\ P # {}
  BY Positions, PlanInputs
<1>2. PICK n \in P : \A m \in P : n <= m
  BY <1>1, LeastNat
<1>3. PICK t \in S : n = Position(t)
  OBVIOUS
<1>4. \A u \in S : Position(t) <= Position(u)
  BY <1>2, <1>3
<1> QED BY <1>4 DEF First

LEMMA MaxIsIn ==
  ASSUME NEW S, IsFiniteSet(S), S # {}, NEW f, \A x \in S : f[x] \in Int,
         NEW M, \A x \in S : f[x] \in M, \A m \in M : \E x \in S : m = f[x]
  PROVE  Max(M) \in M /\ \A m \in M : m <= Max(M)
<1> DEFINE g == [x \in S |-> 0 - f[x]]
<1>1. \A x \in S : g[x] \in Int
  OBVIOUS
<1>2. PICK x \in S : \A y \in S : g[x] <= g[y]
  <2> HIDE DEF g
  <2> QED BY <1>1, LeastValue
<1>3. \A y \in S : f[y] <= f[x]
  BY <1>2
<1>4. f[x] \in M /\ \A m \in M : f[x] >= m
  BY <1>3
<1>5. \E max \in M : \A m \in M : max >= m
  BY <1>4
<1>6. Max(M) \in M /\ \A m \in M : Max(M) >= m
  BY <1>5 DEF Max
<1>7. \A m \in M : m \in Int
  OBVIOUS
<1> QED BY <1>6, <1>7

PeerRec ==
  [target : Targets, busy : BOOLEAN, preemptible : BOOLEAN, priority : Int,
   idle : Nat, place : Nat]

(* What a resident instance is represented by. *)
LEMMA PeerFacts ==
  ASSUME NEW v \in Views, NEW t \in Targets, NEW i \in Instances, Residents(v, t, i) # {}
  PROVE  /\ Peer(v, t, i) \in PeerRec
         /\ Peer(v, t, i).target \in Residents(v, t, i)
         /\ Peer(v, t, i).busy = (\E u \in Residents(v, t, i) : u \in v.active)
         /\ Peer(v, t, i).preemptible = (\A u \in Residents(v, t, i) : IsPreemptible(v, u))
         /\ \A u \in Residents(v, t, i) : Priority[u] <= Peer(v, t, i).priority
         /\ \E u \in Residents(v, t, i) : Priority[u] = Peer(v, t, i).priority
         /\ Order[Peer(v, t, i).place] \in Residents(v, t, i)
<1> DEFINE members == Residents(v, t, i)
           named == {u \in members : HasModel[u]}
           group == IF named # {} THEN named ELSE members
<1>1. members \in SUBSET Targets /\ group \in SUBSET members /\ group # {}
  BY DEF Residents
<1>2. First(group) \in members /\ First(members) \in members
  BY <1>1, FirstIsIn
<1>3. IsFiniteSet(members)
  BY <1>1, Positions, FS_Subset
<1>4. /\ \A u \in members : Priority[u] \in Int
      /\ v.idle[First(members)] \in Nat
  BY <1>1, <1>2, PlanInputs DEF Views
<1> DEFINE M == {Priority[u] : u \in members}
<1>5. Max(M) \in M /\ \A m \in M : m <= Max(M)
  <2>1. members # {} /\ (\A u \in members : Priority[u] \in M)
        /\ (\A m \in M : \E u \in members : m = Priority[u])
    OBVIOUS
  <2> HIDE DEF members, M
  <2> QED BY <1>3, <1>4, <2>1, MaxIsIn
<1>6. Position(First(members)) \in Nat /\ Order[Position(First(members))] \in members
  <2>1. First(members) \in Targets /\ First(members) \in members
    BY <1>1, <1>2
  <2> HIDE DEF members, M
  <2>2. Position(First(members)) \in 1..Len(Order)
        /\ Order[Position(First(members))] = First(members)
    BY <2>1, Positions
  <2>3. Len(Order) \in Nat
    BY PlanInputs
  <2> QED BY <2>1, <2>2, <2>3
<1>7. Peer(v, t, i) =
        [target |-> First(group), busy |-> \E u \in members : u \in v.active,
         preemptible |-> \A u \in members : IsPreemptible(v, u),
         priority |-> Max(M),
         idle |-> v.idle[First(members)], place |-> Position(First(members))]
  BY DEF Peer
<1> HIDE DEF members, named, group
<1>8. Max(M) \in Int
  BY <1>4, <1>5
<1>9. Peer(v, t, i) \in PeerRec
  BY <1>1, <1>2, <1>4, <1>6, <1>7, <1>8 DEF PeerRec
<1>10. Peer(v, t, i).priority = Max(M) /\ Peer(v, t, i).target \in members
       /\ Order[Peer(v, t, i).place] \in members
  BY <1>1, <1>2, <1>6, <1>7
<1>11. \A u \in members : Priority[u] <= Max(M)
  BY <1>5
<1>12. \E u \in members : Priority[u] = Max(M)
  BY <1>5
<1>13. Peer(v, t, i).busy = (\E u \in members : u \in v.active)
  BY <1>7
<1>15. Peer(v, t, i).preemptible = (\A u \in members : IsPreemptible(v, u))
  BY <1>7
<1> HIDE DEF M
<1> USE DEF members
<1>14. /\ \A u \in Residents(v, t, i) : Priority[u] <= Peer(v, t, i).priority
       /\ \E u \in Residents(v, t, i) : Priority[u] = Peer(v, t, i).priority
  BY <1>10, <1>11, <1>12
<1> QED BY <1>9, <1>10, <1>13, <1>14, <1>15

-----------------------------------------------------------------------------
(* Bytes. *)

LEMMA DrawOnFacts ==
  ASSUME NEW i \in Instances, NEW pools \in SUBSET Pools
  PROVE  /\ DrawOn(i, pools) \in Nat
         /\ DrawOn(i, pools) > 0 <=> \E p \in pools : Draw[i][p] > 0
<1>1. IsFiniteSet(pools) /\ IsFiniteSet({})
  BY PlanInputs, FS_Subset, FS_EmptySet
<1>2. \A p \in pools : Draw[i][p] \in Nat
  BY PlanInputs
<1>3. /\ SumFunctionOnSet(Draw[i], pools) \in Nat
      /\ \A p \in pools : SumFunctionOnSet(Draw[i], pools)
                           = Draw[i][p] + SumFunctionOnSet(Draw[i], pools \ {p})
  BY <1>1, <1>2, SumRemove
<1>4. \A p \in pools : SumFunctionOnSet(Draw[i], pools \ {p}) \in Nat
  BY <1>1, <1>2, SumRemove, FS_Subset
<1>5. ASSUME NEW p \in pools, Draw[i][p] > 0 PROVE SumFunctionOnSet(Draw[i], pools) > 0
  <2>1. SumFunctionOnSet(Draw[i], pools) = Draw[i][p] + SumFunctionOnSet(Draw[i], pools \ {p})
    BY <1>3
  <2>2. SumFunctionOnSet(Draw[i], pools \ {p}) \in Nat /\ Draw[i][p] \in Nat
    BY <1>2, <1>4
  <2> QED BY <1>5, <2>1, <2>2
<1>6. ASSUME \A p \in pools : ~(Draw[i][p] > 0) PROVE SumFunctionOnSet(Draw[i], pools) = 0
  <2>1. \A p \in pools : Draw[i][p] # 0 => p \in {}
    BY <1>2, <1>6
  <2>2. SumFunctionOnSet(Draw[i], pools) <= SumFunctionOnSet(Draw[i], {})
    BY <1>1, <1>2, <2>1, SumCovered
  <2>3. SumFunctionOnSet(Draw[i], {}) = 0
    BY <1>1, SumStep
  <2> QED BY <1>3, <2>2, <2>3
<1> QED BY <1>3, <1>5, <1>6 DEF DrawOn

LEMMA UsedFacts ==
  ASSUME NEW p \in Pools, NEW S \in SUBSET Instances
  PROVE  Used(p, S) \in Nat /\ Free(p, S) \in Int
<1> DEFINE f == [i \in Instances |-> Draw[i][p]]
<1>1. \A i \in S : f[i] \in Nat
  BY PlanInputs
<1>2. IsFiniteSet(S)
  BY FiniteInstances, FS_Subset
<1>3. SumFunctionOnSet(f, S) \in Nat
  <2> HIDE DEF f
  <2> QED BY <1>1, <1>2, SumRemove
<1>4. Used(p, S) \in Nat
  BY <1>3 DEF Used
<1> QED BY <1>4, PlanInputs DEF Free

(* A set of instances uses no more of a pool than another that holds all   *)
(* the instances that draw on it.                                          *)
LEMMA UsedCovered ==
  ASSUME NEW p \in Pools, NEW S \in SUBSET Instances, NEW T \in SUBSET Instances,
         \A i \in S : Draw[i][p] > 0 => i \in T
  PROVE  Used(p, S) <= Used(p, T)
<1> DEFINE f == [i \in Instances |-> Draw[i][p]]
<1>1. \A i \in S \cup T : f[i] \in Nat
  BY PlanInputs
<1>2. IsFiniteSet(S) /\ IsFiniteSet(T)
  BY FiniteInstances, FS_Subset
<1>3. \A i \in S : f[i] # 0 => i \in T
  <2>1. \A i \in S : f[i] = Draw[i][p] /\ Draw[i][p] \in Nat
    BY PlanInputs
  <2> QED BY <2>1
<1>4. SumFunctionOnSet(f, S) <= SumFunctionOnSet(f, T)
  <2> HIDE DEF f
  <2> QED BY <1>1, <1>2, <1>3, SumCovered
<1> QED BY <1>4 DEF Used

-----------------------------------------------------------------------------
(* The choice of a victim. *)

(* Where a function into the integers is least on a finite set. *)
LEMMA LeastSet ==
  ASSUME NEW S, IsFiniteSet(S), S # {}, NEW f, \A x \in S : f[x] \in Int
  PROVE  \E T \in SUBSET S :
           /\ T # {}
           /\ \A x \in T : \A y \in S : f[x] <= f[y] /\ (f[x] = f[y] => y \in T)
<1>1. PICK x \in S : \A y \in S : f[x] <= f[y]
  BY LeastValue
<1> DEFINE T == {y \in S : f[y] = f[x]}
<1>2. T \in SUBSET S /\ T # {}
  OBVIOUS
<1>3. \A z \in T : \A y \in S : f[z] <= f[y] /\ (f[z] = f[y] => y \in T)
  BY <1>1
<1> HIDE DEF T
<1> QED BY <1>2, <1>3

(* What the rounds know of the peers: distinct peers have distinct places. *)
PeersOK(peer) ==
  /\ DOMAIN peer \subseteq Instances
  /\ \A i \in DOMAIN peer : peer[i] \in PeerRec
  /\ \A i, j \in DOMAIN peer : peer[i].place = peer[j].place => i = j

LEMMA SortKeyType ==
  ASSUME NEW v \in Views, NEW x \in PeerRec, NEW i \in Instances, NEW pools \in SUBSET Pools
  PROVE  /\ Len(SortKey(v, x, i, pools)) = 5
         /\ \A n \in 1..5 : SortKey(v, x, i, pools)[n] \in Int
         /\ SortKey(v, x, i, pools)[1] = (IF x.target \in v.wanted THEN 1 ELSE 0)
         /\ SortKey(v, x, i, pools)[5] = x.place
<1> DEFINE first == IF x.target \in v.wanted THEN 1 ELSE 0
<1>1. /\ first \in Int /\ x.priority \in Int /\ -x.idle \in Int /\ x.place \in Int
      /\ -DrawOn(i, pools) \in Int
  BY DrawOnFacts DEF PeerRec
<1>2. SortKey(v, x, i, pools) = <<first, x.priority, -x.idle, -DrawOn(i, pools), x.place>>
  BY DEF SortKey
<1> HIDE DEF first
<1>3. \A n \in 1..5 : SortKey(v, x, i, pools)[n] \in Int
  <2>1. \A n \in 1..5 : n = 1 \/ n = 2 \/ n = 3 \/ n = 4 \/ n = 5
    OBVIOUS
  <2> QED BY <1>1, <1>2, <2>1
<1>4. Len(SortKey(v, x, i, pools)) = 5
  BY <1>2
<1> QED BY <1>2, <1>3, <1>4 DEF first

(* The sort has a first element, and it comes below all the others. *)
LEMMA FirstVictimIsFirst ==
  ASSUME NEW v \in Views, NEW peer, PeersOK(peer), NEW pools \in SUBSET Pools,
         NEW tier \in SUBSET DOMAIN peer, tier # {}
  PROVE  /\ FirstVictim(v, peer, tier, pools) \in tier
         /\ \A j \in tier \ {FirstVictim(v, peer, tier, pools)} :
              LET i == FirstVictim(v, peer, tier, pools)
              IN Below(SortKey(v, peer[i], i, pools), SortKey(v, peer[j], j, pools))
<1> DEFINE Key(i) == SortKey(v, peer[i], i, pools)
<1>1. \A i \in tier : i \in Instances /\ peer[i] \in PeerRec
  BY DEF PeersOK
<1>2. \A i \in tier : Len(Key(i)) = 5 /\ (\A n \in 1..5 : Key(i)[n] \in Int)
                      /\ Key(i)[5] = peer[i].place
  BY <1>1, SortKeyType
<1>3. IsFiniteSet(tier)
  BY FiniteInstances, FS_Subset DEF PeersOK
<1> HIDE DEF Key
<1> DEFINE Leads(S, n, T) ==
             /\ T # {}
             /\ \A x \in T : \A y \in S : /\ Key(x)[n] <= Key(y)[n]
                                        /\ (Key(x)[n] = Key(y)[n] => y \in T)
<1>4. ASSUME NEW S \in SUBSET tier, S # {}, NEW n \in 1..5
      PROVE  \E T \in SUBSET S : Leads(S, n, T)
  <2> DEFINE f == [i \in tier |-> Key(i)[n]]
  <2>1. \A i \in S : f[i] \in Int
    BY <1>2
  <2>2. IsFiniteSet(S)
    BY <1>3, FS_Subset
  <2>3. \E T \in SUBSET S :
          /\ T # {}
          /\ \A x \in T : \A y \in S : f[x] <= f[y] /\ (f[x] = f[y] => y \in T)
    <3> HIDE DEF f
    <3> QED BY <1>4, <2>1, <2>2, LeastSet
  <2>4. PICK T \in SUBSET S :
          /\ T # {}
          /\ \A x \in T : \A y \in S : f[x] <= f[y] /\ (f[x] = f[y] => y \in T)
    BY <2>3
  <2>5. \A i \in tier : f[i] = Key(i)[n]
    OBVIOUS
  <2> HIDE DEF f
  <2>6. \A x \in T : \A y \in S : /\ Key(x)[n] <= Key(y)[n]
                                /\ (Key(x)[n] = Key(y)[n] => y \in T)
    BY <2>4, <2>5
  <2> QED BY <2>4, <2>6
<1>16. \A S \in SUBSET tier : \A n \in 1..5 : S # {} => \E T \in SUBSET S : Leads(S, n, T)
  BY <1>4
<1>17. \A S, n, T : Leads(S, n, T) => T # {}
  OBVIOUS
<1> HIDE DEF Leads
<1>5. PICK T1 \in SUBSET tier : Leads(tier, 1, T1)
  BY <1>16
<1>6. PICK T2 \in SUBSET T1 : Leads(T1, 2, T2)
  <2>1. T1 \in SUBSET tier /\ T1 # {}
    BY <1>5, <1>17
  <2>2. \E T \in SUBSET T1 : Leads(T1, 2, T)
    BY <1>16, <2>1
  <2> QED BY <2>2
<1>7. PICK T3 \in SUBSET T2 : Leads(T2, 3, T3)
  <2>1. T2 \in SUBSET tier /\ T2 # {}
    BY <1>6, <1>17
  <2>2. \E T \in SUBSET T2 : Leads(T2, 3, T)
    BY <1>16, <2>1
  <2> QED BY <2>2
<1>8. PICK T4 \in SUBSET T3 : Leads(T3, 4, T4)
  <2>1. T3 \in SUBSET tier /\ T3 # {}
    BY <1>7, <1>17
  <2>2. \E T \in SUBSET T3 : Leads(T3, 4, T)
    BY <1>16, <2>1
  <2> QED BY <2>2
<1>9. PICK T5 \in SUBSET T4 : Leads(T4, 5, T5)
  <2>1. T4 \in SUBSET tier /\ T4 # {}
    BY <1>8, <1>17
  <2>2. \E T \in SUBSET T4 : Leads(T4, 5, T)
    BY <1>16, <2>1
  <2> QED BY <2>2
<1>10. PICK i \in T5 : TRUE
  BY <1>9, <1>17
<1> USE DEF Leads
<1>11. ASSUME NEW j \in tier \ {i} PROVE Below(Key(i), Key(j))
  <2>1. i \in tier /\ i \in T1 /\ i \in T2 /\ i \in T3 /\ i \in T4
    OBVIOUS
  <2>2. Len(Key(i)) = 5 /\ \A n \in 1..5 : Key(i)[n] \in Int /\ Key(j)[n] \in Int
    BY <1>2, <2>1
  <2>3. SUFFICES \E n \in 1..5 : Key(i)[n] < Key(j)[n] /\ \A m \in 1..(n - 1) : Key(i)[m] = Key(j)[m]
    BY <2>2 DEF Below
  <2>4. Key(i)[1] <= Key(j)[1] /\ (Key(i)[1] = Key(j)[1] => j \in T1)
    BY <1>5, <2>1
  <2>5. j \in T1 => Key(i)[2] <= Key(j)[2] /\ (Key(i)[2] = Key(j)[2] => j \in T2)
    BY <1>6, <2>1
  <2>6. j \in T2 => Key(i)[3] <= Key(j)[3] /\ (Key(i)[3] = Key(j)[3] => j \in T3)
    BY <1>7, <2>1
  <2>7. j \in T3 => Key(i)[4] <= Key(j)[4] /\ (Key(i)[4] = Key(j)[4] => j \in T4)
    BY <1>8, <2>1
  <2>8. j \in T4 => Key(i)[5] <= Key(j)[5]
    BY <1>9, <2>1
  <2>9. Key(i)[5] # Key(j)[5]
    BY <1>2, <2>1 DEF PeersOK
  <2>10. \A n \in 1..5 : Key(i)[n] \in Int /\ Key(j)[n] \in Int
    BY <2>2
  <2>11. CASE Key(i)[1] < Key(j)[1]
    BY <2>11
  <2>12. CASE Key(i)[1] = Key(j)[1] /\ Key(i)[2] < Key(j)[2]
    BY <2>12
  <2>13. CASE Key(i)[1] = Key(j)[1] /\ Key(i)[2] = Key(j)[2] /\ Key(i)[3] < Key(j)[3]
    BY <2>13
  <2>14. CASE /\ Key(i)[1] = Key(j)[1] /\ Key(i)[2] = Key(j)[2] /\ Key(i)[3] = Key(j)[3]
              /\ Key(i)[4] < Key(j)[4]
    BY <2>14
  <2>15. CASE /\ Key(i)[1] = Key(j)[1] /\ Key(i)[2] = Key(j)[2] /\ Key(i)[3] = Key(j)[3]
              /\ Key(i)[4] = Key(j)[4] /\ Key(i)[5] < Key(j)[5]
    BY <2>15
  <2> QED BY <2>4, <2>5, <2>6, <2>7, <2>8, <2>9, <2>10, <2>11, <2>12, <2>13, <2>14, <2>15
<1>12. i \in tier /\ \A j \in tier \ {i} : Below(SortKey(v, peer[i], i, pools),
                                                SortKey(v, peer[j], j, pools))
  BY <1>11 DEF Key
<1> QED BY <1>12 DEF FirstVictim

-----------------------------------------------------------------------------
(* The rounds. *)

(* What the round with kept left comes to, if g is what comes of the       *)
(* smaller ones.                                                           *)
VictimOf(v, t, peer, busyOk, kept) ==
  FirstVictim(v, peer, Tier(v, t, peer, kept, Deficits(t, kept), busyOk), Deficits(t, kept))

Over(v, t, peer, busyOk, kept) ==
  \/ Deficits(t, kept) = {}
  \/ Tier(v, t, peer, kept, Deficits(t, kept), busyOk) = {}

Round(v, t, peer, busyOk, g, kept) ==
  IF Over(v, t, peer, busyOk, kept)
  THEN [ok |-> Deficits(t, kept) = {}, actions |-> << >>, preempt |-> {}]
  ELSE Evict(v, peer[VictimOf(v, t, peer, busyOk, kept)],
             g[kept \ {VictimOf(v, t, peer, busyOk, kept)}])

LEMMA RoundsIsFixpoint ==
  \A v, t, peer, busyOk :
    Rounds(v, t, peer, busyOk) =
      CHOOSE from : from = [kept \in SUBSET DOMAIN peer |->
                              Round(v, t, peer, busyOk, from, kept)]
  BY DEF Rounds, Round, Over, VictimOf

LEMMA VictimIsKept ==
  ASSUME NEW v \in Views, NEW t \in Targets, NEW peer, PeersOK(peer), NEW busyOk \in BOOLEAN,
         NEW kept \in SUBSET DOMAIN peer, ~Over(v, t, peer, busyOk, kept)
  PROVE  /\ VictimOf(v, t, peer, busyOk, kept) \in kept
         /\ VictimOf(v, t, peer, busyOk, kept)
              \in Tier(v, t, peer, kept, Deficits(t, kept), busyOk)
<1> DEFINE tier == Tier(v, t, peer, kept, Deficits(t, kept), busyOk)
<1>1. tier \in SUBSET kept /\ tier # {}
  BY DEF Tier, Over
<1>2. Deficits(t, kept) \in SUBSET Pools
  BY DEF Deficits
<1>3. FirstVictim(v, peer, tier, Deficits(t, kept)) \in tier
  <2> HIDE DEF tier
  <2> QED BY <1>1, <1>2, FirstVictimIsFirst
<1> QED BY <1>1, <1>3 DEF VictimOf

LEMMA RoundsDef ==
  ASSUME NEW v \in Views, NEW t \in Targets, NEW peer, PeersOK(peer), NEW busyOk \in BOOLEAN
  PROVE  \A kept \in SUBSET DOMAIN peer :
           Rounds(v, t, peer, busyOk)[kept]
             = Round(v, t, peer, busyOk, Rounds(v, t, peer, busyOk), kept)
<1> DEFINE S == DOMAIN peer
           Step(g, s) == Round(v, t, peer, busyOk, g, s)
           Upto(n) == \E g : \A s \in SUBSET S : Cardinality(s) < n => g[s] = Step(g, s)
           Built == {n \in Nat : Upto(n)}
           vic(s) == VictimOf(v, t, peer, busyOk, s)
<1>0. IsFiniteSet(S)
  BY FiniteInstances, FS_Subset DEF PeersOK
<1>1. \A s \in SUBSET S : ~Over(v, t, peer, busyOk, s) =>
        /\ vic(s) \in s /\ s \ {vic(s)} \in SUBSET S
        /\ Cardinality(s) \in Nat
        /\ Cardinality(s \ {vic(s)}) = Cardinality(s) - 1
  <2>1. \A s \in SUBSET S : ~Over(v, t, peer, busyOk, s) => vic(s) \in s
    BY VictimIsKept
  <2> HIDE DEF vic
  <2> QED BY <1>0, <2>1, FS_Subset, FS_CardinalityType, FS_RemoveElement
<1>9. \A g, h : \A s \in SUBSET S :
        (~Over(v, t, peer, busyOk, s) => g[s \ {vic(s)}] = h[s \ {vic(s)}])
          => Step(g, s) = Step(h, s)
  BY DEF Round
<1> HIDE DEF vic, Step, S
<1>2. 0 \in Built
  BY <1>0, FS_Subset, FS_CardinalityType
<1>3. ASSUME NEW n \in Nat, n \in Built PROVE n + 1 \in Built
  <2>1. PICK g : \A s \in SUBSET S : Cardinality(s) < n => g[s] = Step(g, s)
    BY <1>3
  <2> DEFINE h == [s \in SUBSET S |-> Step(g, s)]
  <2>2. ASSUME NEW s \in SUBSET S, Cardinality(s) < n + 1
        PROVE  h[s] = Step(h, s)
    <3>1. ASSUME ~Over(v, t, peer, busyOk, s)
          PROVE  g[s \ {vic(s)}] = h[s \ {vic(s)}]
      <4>1. Cardinality(s \ {vic(s)}) < n /\ s \ {vic(s)} \in SUBSET S
        BY <1>1, <2>2, <3>1
      <4> QED BY <2>1, <4>1
    <3>2. h[s] = Step(g, s)
      OBVIOUS
    <3> HIDE DEF h
    <3> QED BY <1>9, <3>1, <3>2
  <2>3. Upto(n + 1)
    <3> HIDE DEF h
    <3> QED BY <2>2
  <2> QED BY <2>3
<1>4. Cardinality(S) + 1 \in Built
  <2> HIDE DEF Built
  <2> QED BY <1>0, <1>2, <1>3, NatInductionSet, FS_CardinalityType
<1>5. PICK g : \A s \in SUBSET S : g[s] = Step(g, s)
  <2>1. PICK g : \A s \in SUBSET S : Cardinality(s) < Cardinality(S) + 1 => g[s] = Step(g, s)
    BY <1>4
  <2>2. \A s \in SUBSET S : Cardinality(s) < Cardinality(S) + 1
    BY <1>0, FS_Subset, FS_CardinalityType
  <2> QED BY <2>1, <2>2
<1> DEFINE f == [s \in SUBSET S |-> Step(g, s)]
<1>6. \A s \in SUBSET S : f[s] = g[s]
  BY <1>5
<1>7. \A s \in SUBSET S : f[s] = Step(f, s)
  <2>1. \A s \in SUBSET S : Step(f, s) = Step(g, s)
    <3> HIDE DEF f
    <3> QED BY <1>1, <1>6, <1>9
  <2> QED BY <2>1
<1>8. f = [s \in SUBSET S |-> Step(f, s)]
  BY <1>7
<1>10. \E from : from = [s \in SUBSET S |-> Step(from, s)]
  <2> HIDE DEF f
  <2> QED BY <1>8
<1>11. Rounds(v, t, peer, busyOk) = [s \in SUBSET S |-> Step(Rounds(v, t, peer, busyOk), s)]
  BY <1>10, RoundsIsFixpoint DEF S, Step
<1>12. \A s \in SUBSET S : Rounds(v, t, peer, busyOk)[s] = Step(Rounds(v, t, peer, busyOk), s)
  BY <1>11
<1> QED BY <1>12 DEF S, Step

-----------------------------------------------------------------------------
(* Actions. *)

ActionTypes == {"save-slot", "unload-model", "stop-instance", "start-instance",
                "wait-instance-ready", "wait-model-ready", "load-model", "restore-slot",
                "route-request"}
ActionRec ==
  {a \in [type : ActionTypes, target : Targets, slot : Nat \cup {NoSlot}] :
     a.type = "save-slot" => a.slot \in Nat}
TakeDowns == {"unload-model", "stop-instance"}

(* A finite set of naturals can be put in order. *)
LEMMA AscendingType ==
  ASSUME NEW S \in SUBSET Nat, IsFiniteSet(S)
  PROVE  Ascending(S) \in Seq(Nat)
<1> DEFINE Sorted(A, s) ==
             /\ s \in [1..Cardinality(A) -> A]
             /\ \A n \in DOMAIN s, m \in DOMAIN s : m < n => s[m] < s[n]
           T == {A \in SUBSET S : \E s : Sorted(A, s)}
<1>1. ASSUME NEW A \in SUBSET S, \A B \in SUBSET A : B # A => B \in T
      PROVE  A \in T
  <2>1. IsFiniteSet(A) /\ Cardinality(A) \in Nat
    BY FS_Subset, FS_CardinalityType
  <2>2. CASE A = {}
    <3>1. Cardinality(A) = 0
      BY <2>2, FS_EmptySet
    <3>2. [n \in 1..0 |-> 0] \in [1..0 -> A]
      OBVIOUS
    <3>3. Sorted(A, [n \in 1..0 |-> 0])
      BY <3>1, <3>2
    <3> HIDE DEF Sorted
    <3> QED BY <3>3
  <2>3. CASE A # {}
    <3> DEFINE f == [x \in A |-> 0 - x]
    <3>1. PICK a \in A : \A x \in A : f[a] <= f[x]
      <4>1. \A x \in A : f[x] \in Int
        OBVIOUS
      <4> HIDE DEF f
      <4> QED BY <2>1, <2>3, <4>1, LeastValue
    <3>2. \A x \in A \ {a} : x < a
      BY <3>1
    <3>3. A \ {a} \in T /\ Cardinality(A \ {a}) = Cardinality(A) - 1
      BY <1>1, <2>1, FS_RemoveElement
    <3>4. PICK s : Sorted(A \ {a}, s)
      BY <3>3
    <3> DEFINE N == Cardinality(A)
               r == [n \in 1..N |-> IF n = N THEN a ELSE s[n]]
    <3>5. N \in Nat /\ s \in [1..(N - 1) -> A \ {a}]
      BY <2>1, <3>3, <3>4
    <3>6. \A n \in 1..(N - 1), m \in 1..(N - 1) : m < n => s[m] < s[n]
      BY <3>4, <3>5
    <3> HIDE DEF N
    <3>7. r \in [1..N -> A]
      BY <3>5
    <3>8. ASSUME NEW n \in 1..N, NEW m \in 1..N, m < n PROVE r[m] < r[n]
      <4>1. m \in 1..(N - 1) /\ r[m] = s[m] /\ s[m] \in A \ {a}
        BY <3>5, <3>8
      <4>2. CASE n = N
        BY <3>2, <4>1, <4>2
      <4>3. CASE n # N
        <5>1. n \in 1..(N - 1) /\ r[n] = s[n]
          BY <3>5, <4>3
        <5> QED BY <3>6, <3>8, <4>1, <5>1
      <4> QED BY <4>2, <4>3
    <3>9. Sorted(A, r)
      BY <3>7, <3>8 DEF N
    <3> HIDE DEF Sorted, r
    <3> QED BY <3>9
  <2> QED BY <2>2, <2>3
<1>2. \A A \in SUBSET S : A \in T
  <2>1. \A A \in SUBSET S : (\A B \in SUBSET A : B # A => B \in T) => A \in T
    BY <1>1
  <2> HIDE DEF T
  <2> QED BY <2>1, SubsetInduction
<1>3. \E s \in [1..Cardinality(S) -> S] :
        \A n \in DOMAIN s, m \in DOMAIN s : m < n => s[m] < s[n]
  BY <1>2
<1>4. Ascending(S) \in [1..Cardinality(S) -> S]
  BY <1>3 DEF Ascending
<1> DEFINE N == Cardinality(S)
           q == Ascending(S)
<1>5. N \in Nat
  BY FS_CardinalityType
<1>6. q \in [1..N -> Nat]
  BY <1>4
<1> HIDE DEF N, q
<1>7. q \in Seq(Nat)
  BY <1>5, <1>6
<1> QED BY <1>7 DEF q

LEMMA SlotActsFacts ==
  ASSUME NEW type \in ActionTypes, NEW t \in Targets, NEW slots \in Seq(Nat)
  PROVE  /\ SlotActs(type, t, slots) \in Seq(ActionRec)
         /\ \A a \in Range(SlotActs(type, t, slots)) : a.type = type /\ a.target = t
<1> DEFINE s == SlotActs(type, t, slots)
<1>1. \A n \in 1..Len(slots) : SlotAct(type, t, slots[n]) \in ActionRec
  BY DEF SlotAct, ActionRec
<1>2. s \in Seq(ActionRec)
  BY <1>1 DEF SlotActs
<1>3. \A n \in 1..Len(s) : s[n].type = type /\ s[n].target = t
  BY DEF SlotActs, SlotAct
<1> HIDE DEF s
<1>4. \A a \in Range(s) : a.type = type /\ a.target = t
  BY <1>2, <1>3, RangeFrom
<1> QED BY <1>2, <1>4 DEF s

(* A target is unloaded after its unsaved slots have been saved. *)
LEMMA UnloadActionsFacts ==
  ASSUME NEW v \in Views, NEW t \in Targets
  PROVE  /\ UnloadActions(v, t) \in Seq(ActionRec)
         /\ \A a \in Range(UnloadActions(v, t)) :
              a.target = t /\ a.type \in {"save-slot"} \cup TakeDowns
         /\ IsManaged(t) => \E a \in Range(UnloadActions(v, t)) : a.type \in TakeDowns
<1> DEFINE unsaved == Only(SlotIds[t], Range(SlotIds[t]) \ v.saved[t])
           saves == When(SavesSlots[t] /\ SlotSave[t], SlotActs("save-slot", t, unsaved))
           last == Act(IF HasModel[t] /\ ModelLoadUnload[t] THEN "unload-model"
                       ELSE "stop-instance", t)
<1>1. unsaved \in Seq(Nat)
  BY PlanInputs, OnlyKeeps
<1>2. /\ SlotActs("save-slot", t, unsaved) \in Seq(ActionRec)
      /\ \A a \in Range(SlotActs("save-slot", t, unsaved)) : a.type = "save-slot" /\ a.target = t
  <2> HIDE DEF unsaved
  <2>1. "save-slot" \in ActionTypes
    BY DEF ActionTypes
  <2> QED BY <1>1, <2>1, SlotActsFacts
<1>3. saves \in Seq(ActionRec) /\ \A a \in Range(saves) : a.type = "save-slot" /\ a.target = t
  <2>1. CASE SavesSlots[t] /\ SlotSave[t]
    BY <1>2, <2>1 DEF When
  <2>2. CASE ~(SavesSlots[t] /\ SlotSave[t])
    <3>1. saves = << >>
      BY <2>2 DEF When
    <3> HIDE DEF saves
    <3>2. saves \in Seq(ActionRec) /\ Len(saves) = 0
      BY <3>1
    <3>3. Range(saves) = {}
      BY <3>2, EmptyRange
    <3> QED BY <3>2, <3>3
  <2> QED BY <2>1, <2>2
<1>4. last \in ActionRec /\ last.target = t /\ last.type \in TakeDowns
  BY DEF Act, ActionRec, TakeDowns, ActionTypes
<1> HIDE DEF saves, last
<1> DEFINE tail == <<last>>
<1>5. tail \in Seq(ActionRec) /\ Range(tail) = {last}
  BY <1>4 DEF Range
<1>7. UnloadActions(v, t) = IF IsManaged(t) THEN saves \o tail ELSE << >>
  BY DEF UnloadActions, When, saves, last
<1> HIDE DEF tail
<1>6. saves \o tail \in Seq(ActionRec) /\ Range(saves \o tail) = Range(saves) \cup {last}
  BY <1>3, <1>5, RangeOfConcat
<1>8. CASE IsManaged(t)
  <2>1. /\ \A a \in Range(saves \o tail) : a.target = t /\ a.type \in {"save-slot"} \cup TakeDowns
        /\ \E a \in Range(saves \o tail) : a.type \in TakeDowns
    BY <1>3, <1>4, <1>6
  <2> QED BY <1>6, <1>7, <1>8, <2>1
<1>9. CASE ~IsManaged(t)
  <2>1. Range(<< >>) = {}
    BY DEF Range
  <2> QED BY <1>7, <1>9, <2>1
<1> QED BY <1>8, <1>9

(* What a load may ask for: a target that is unloaded on an engine that    *)
(* cannot load models is the only one it stops.                            *)
Loads(v, t) ==
  {a \in ActionRec :
     /\ a.target = t
     /\ a.type \notin {"save-slot", "unload-model", "route-request"}
     /\ (a.type = "stop-instance" => v.state[t] = "unloaded" /\ ~ModelLoadUnload[t])
     /\ (a.type = "load-model" => ~IsActive(v, t))
     /\ (a.type = "start-instance" =>
           \/ v.state[t] \in {"stopped", "unknown"}
           \/ v.state[t] = "unloaded" /\ ~ModelLoadUnload[t])}

(* They are all a load asks for, and a target that is neither ready nor in *)
(* error always needs some, unless it is unloaded and no model of a router.*)
LEMMA LoadActionsFacts ==
  ASSUME NEW v \in Views, NEW t \in Targets
  PROVE  /\ LoadActions(v, t) \in Seq(Loads(v, t))
         /\ (/\ IsManaged(t) /\ v.state[t] \notin {"ready", "error"}
             /\ v.state[t] = "unloaded" => HasModel[t] /\ ModelLoadUnload[t])
              => Len(LoadActions(v, t)) # 0
<1> DEFINE L == Loads(v, t)
           start == <<Act("start-instance", t), Act("wait-instance-ready", t)>>
           W1 == When(v.state[t] \in {"stopped", "unknown"}, start)
           W2 == When(IsPending(v, t), <<Act("wait-model-ready", t)>>)
           W3 == When(~IsActive(v, t) /\ ~IsPending(v, t) /\ (HasModel[t] /\ ModelLoadUnload[t]),
                      <<Act("load-model", t), Act("wait-model-ready", t)>>)
           W4 == When(v.state[t] = "unloaded" /\ ~ModelLoadUnload[t],
                      <<Act("stop-instance", t)>> \o start)
           slots == Ascending(v.saved[t])
           W5 == When(SlotSave[t], SlotActs("restore-slot", t, slots))
<1>1. /\ Act("wait-instance-ready", t) \in L /\ Act("wait-model-ready", t) \in L
      /\ ~IsActive(v, t) => Act("load-model", t) \in L
      /\ (\/ v.state[t] \in {"stopped", "unknown"}
          \/ v.state[t] = "unloaded" /\ ~ModelLoadUnload[t]) => Act("start-instance", t) \in L
      /\ (v.state[t] = "unloaded" /\ ~ModelLoadUnload[t]) => Act("stop-instance", t) \in L
  BY DEF Loads, Act, ActionRec, ActionTypes
<1>2. \A n \in Nat : SlotAct("restore-slot", t, n) \in L
  BY DEF Loads, SlotAct, ActionRec, ActionTypes
<1>3. slots \in Seq(Nat)
  <2>1. v.saved[t] \in SUBSET Nat /\ IsFiniteSet(v.saved[t])
    BY DEF Views
  <2> QED BY <2>1, AscendingType
<1> HIDE DEF L, slots
<1>4. (\/ v.state[t] \in {"stopped", "unknown"}
       \/ v.state[t] = "unloaded" /\ ~ModelLoadUnload[t]) => start \in Seq(L)
  BY <1>1
<1>5. W1 \in Seq(L)
  BY <1>4 DEF When
<1>6. W2 \in Seq(L)
  BY <1>1 DEF When
<1>7. W3 \in Seq(L)
  BY <1>1 DEF When
<1>8. W4 \in Seq(L)
  <2>1. CASE v.state[t] = "unloaded" /\ ~ModelLoadUnload[t]
    <3>1. start \in Seq(L) /\ Act("stop-instance", t) \in L
      BY <1>1, <1>4, <2>1
    <3> HIDE DEF start
    <3>2. <<Act("stop-instance", t)>> \in Seq(L)
      BY <3>1
    <3>3. <<Act("stop-instance", t)>> \o start \in Seq(L)
      BY <3>1, <3>2
    <3> QED BY <2>1, <3>3 DEF When
  <2>2. CASE ~(v.state[t] = "unloaded" /\ ~ModelLoadUnload[t])
    BY <2>2 DEF When
  <2> QED BY <2>1, <2>2
<1>9. W5 \in Seq(L)
  <2>1. SlotActs("restore-slot", t, slots) \in Seq(L)
    BY <1>2, <1>3 DEF SlotActs
  <2> QED BY <2>1 DEF When
<1>10. LoadActions(v, t) = IF IsManaged(t) THEN W1 \o W2 \o W3 \o W4 \o W5 ELSE << >>
  BY DEF LoadActions, When, slots
<1> HIDE DEF W1, W2, W3, W4, W5
<1>11. W1 \o W2 \in Seq(L)
  BY <1>5, <1>6
<1>12. W1 \o W2 \o W3 \in Seq(L)
  BY <1>7, <1>11
<1>13. W1 \o W2 \o W3 \o W4 \in Seq(L)
  BY <1>8, <1>12
<1>14. W1 \o W2 \o W3 \o W4 \o W5 \in Seq(L)
  BY <1>9, <1>13
<1>15. LoadActions(v, t) \in Seq(L)
  BY <1>10, <1>14
<1>16. ASSUME IsManaged(t), v.state[t] \notin {"ready", "error"},
              v.state[t] = "unloaded" => HasModel[t] /\ ModelLoadUnload[t]
       PROVE  Len(LoadActions(v, t)) # 0
  <2>1. v.state[t] \in {"unknown", "stopped", "unloaded", "loading"}
    BY <1>16 DEF Views, States
  <2>2. v.state[t] \in {"unknown", "stopped"} => Len(W1) = 2
    BY DEF W1, When
  <2>3. v.state[t] = "loading" => Len(W2) = 1
    BY DEF W2, When, IsPending
  <2>4. v.state[t] = "unloaded" => Len(W3) = 2
    BY <1>16 DEF W3, When, IsPending, IsActive
  <2>5. Len(W1) # 0 \/ Len(W2) # 0 \/ Len(W3) # 0
    BY <2>1, <2>2, <2>3, <2>4
  <2>6. Len(W1 \o W2) = Len(W1) + Len(W2) /\ Len(W1) \in Nat /\ Len(W2) \in Nat
    BY <1>5, <1>6
  <2>7. Len(W1 \o W2 \o W3) = Len(W1 \o W2) + Len(W3) /\ Len(W3) \in Nat
    BY <1>7, <1>11
  <2>8. Len(W1 \o W2 \o W3 \o W4) = Len(W1 \o W2 \o W3) + Len(W4) /\ Len(W4) \in Nat
    BY <1>8, <1>12
  <2>9. Len(W1 \o W2 \o W3 \o W4 \o W5) = Len(W1 \o W2 \o W3 \o W4) + Len(W5) /\ Len(W5) \in Nat
    BY <1>9, <1>13
  <2> QED BY <1>10, <1>16, <2>5, <2>6, <2>7, <2>8, <2>9
<1> QED BY <1>15, <1>16 DEF L

-----------------------------------------------------------------------------
(* How the rounds end. *)

(* From kept, the rounds end with left: nothing more is needed, or nothing *)
(* more may be evicted; what was evicted in between is unloaded, and each  *)
(* victim was the first of the tier of a round.                            *)
Ends(v, t, peer, busyOk, kept, left) ==
  LET e == Rounds(v, t, peer, busyOk)[kept]
  IN /\ Over(v, t, peer, busyOk, left)
     /\ e.ok \in BOOLEAN /\ e.ok = (Deficits(t, left) = {})
     /\ e.actions \in Seq(ActionRec)
     /\ \A a \in Range(e.actions) :
          \E i \in kept \ left : a \in Range(UnloadActions(v, peer[i].target))
     /\ \A i \in kept \ left : Range(UnloadActions(v, peer[i].target)) \subseteq Range(e.actions)
     /\ Len(e.actions) # 0 =>
          \E i \in kept \ left : /\ Len(UnloadActions(v, peer[i].target)) # 0
                               /\ Head(e.actions) = Head(UnloadActions(v, peer[i].target))
     /\ \A i \in kept \ left : \E S \in SUBSET kept :
          ~Over(v, t, peer, busyOk, S) /\ i = VictimOf(v, t, peer, busyOk, S)
     /\ e.preempt = {peer[i].target : i \in {j \in kept \ left : peer[j].busy}}

LEMMA RoundsEnd ==
  ASSUME NEW v \in Views, NEW t \in Targets, NEW peer, PeersOK(peer), NEW busyOk \in BOOLEAN
  PROVE  \A kept \in SUBSET DOMAIN peer :
           \E left \in SUBSET kept : Ends(v, t, peer, busyOk, kept, left)
<1> DEFINE S == DOMAIN peer
           F == Rounds(v, t, peer, busyOk)
           T == {kept \in SUBSET S : \E left \in SUBSET kept : Ends(v, t, peer, busyOk, kept, left)}
<1>1. ASSUME NEW kept \in SUBSET S, \A B \in SUBSET kept : B # kept => B \in T
      PROVE  \E left \in SUBSET kept : Ends(v, t, peer, busyOk, kept, left)
  <2>1. F[kept] = Round(v, t, peer, busyOk, F, kept)
    BY RoundsDef
  <2>2. CASE Over(v, t, peer, busyOk, kept)
    <3>1. F[kept] = [ok |-> Deficits(t, kept) = {}, actions |-> << >>, preempt |-> {}]
      BY <2>1, <2>2 DEF Round
    <3>2. /\ F[kept].ok \in BOOLEAN /\ F[kept].ok = (Deficits(t, kept) = {})
          /\ F[kept].actions = << >> /\ F[kept].preempt = {}
      BY <3>1
    <3> HIDE DEF F
    <3>3. F[kept].actions \in Seq(ActionRec) /\ Len(F[kept].actions) = 0
      BY <3>2
    <3>4. Range(F[kept].actions) = {}
      BY <3>3, EmptyRange
    <3>5. kept \ kept = {}
      OBVIOUS
    <3>6. Ends(v, t, peer, busyOk, kept, kept)
      BY <2>2, <3>2, <3>3, <3>4, <3>5 DEF Ends, F
    <3> QED BY <3>6
  <2>3. CASE ~Over(v, t, peer, busyOk, kept)
    <3> DEFINE i == VictimOf(v, t, peer, busyOk, kept)
               rest == kept \ {i}
               unload == UnloadActions(v, peer[i].target)
    <3>1. i \in kept
      BY <2>3, VictimIsKept
    <3>2. F[kept] = Evict(v, peer[i], F[rest])
      BY <2>1, <2>3 DEF Round
    <3>3. rest \in T
      BY <1>1, <3>1
    <3>4. PICK left \in SUBSET rest : Ends(v, t, peer, busyOk, rest, left)
      BY <3>3
    <3>5. peer[i] \in PeerRec /\ peer[i].target \in Targets /\ peer[i].busy \in BOOLEAN
      BY <3>1 DEF PeersOK, PeerRec
    <3>6. unload \in Seq(ActionRec)
      BY <3>5, UnloadActionsFacts
    <3>7. /\ F[kept].ok = F[rest].ok
          /\ F[kept].actions = unload \o F[rest].actions
          /\ F[kept].preempt = F[rest].preempt \cup (IF peer[i].busy THEN {peer[i].target} ELSE {})
      <4> HIDE DEF F, rest, i
      <4>1. F[kept].ok = F[rest].ok
        BY <3>2 DEF Evict
      <4> DEFINE all == UnloadActions(v, peer[i].target) \o F[rest].actions
                 out == F[rest].preempt \cup (IF peer[i].busy THEN {peer[i].target} ELSE {})
      <4>4. F[kept] = [ok |-> F[rest].ok, actions |-> all, preempt |-> out]
        BY <3>2, Zenon DEF Evict
      <4>5. F[kept].actions = all
        <5> HIDE DEF all, out
        <5> QED BY <4>4
      <4>2. F[kept].actions = unload \o F[rest].actions
        BY <4>5, Zenon
      <4>3. F[kept].preempt = F[rest].preempt \cup (IF peer[i].busy THEN {peer[i].target} ELSE {})
        BY <3>2 DEF Evict
      <4> QED BY <4>1, <4>2, <4>3
    <3> HIDE DEF F, unload, rest
    <3>8. /\ Over(v, t, peer, busyOk, left)
          /\ F[rest].ok \in BOOLEAN /\ F[rest].ok = (Deficits(t, left) = {})
          /\ F[rest].actions \in Seq(ActionRec)
      BY <3>4 DEF Ends, F
    <3>9. /\ F[kept].actions \in Seq(ActionRec)
          /\ Range(F[kept].actions) = Range(unload) \cup Range(F[rest].actions)
      BY <3>6, <3>7, <3>8, RangeOfConcat
    <3>10. kept \ left = (rest \ left) \cup {i} /\ i \notin rest \ left /\ left \in SUBSET kept
      BY <3>1, <3>4 DEF rest
    <3>11. \A a \in Range(F[kept].actions) :
             \E j \in kept \ left : a \in Range(UnloadActions(v, peer[j].target))
      <4>1. \A a \in Range(F[rest].actions) :
              \E j \in rest \ left : a \in Range(UnloadActions(v, peer[j].target))
        BY <3>4 DEF Ends, F
      <4> QED BY <3>9, <3>10, <4>1 DEF unload
    <3>12. \A j \in kept \ left : Range(UnloadActions(v, peer[j].target)) \subseteq Range(F[kept].actions)
      <4>1. \A j \in rest \ left : Range(UnloadActions(v, peer[j].target)) \subseteq Range(F[rest].actions)
        BY <3>4 DEF Ends, F
      <4> QED BY <3>9, <3>10, <4>1 DEF unload
    <3>13. Len(unload) # 0 => Head(F[kept].actions) = Head(unload)
      BY <3>6, <3>7, <3>8, HeadOfConcat
    <3>14. ASSUME Len(F[kept].actions) # 0
           PROVE  \E j \in kept \ left : /\ Len(UnloadActions(v, peer[j].target)) # 0
                                       /\ Head(F[kept].actions) = Head(UnloadActions(v, peer[j].target))
      <4>1. CASE Len(unload) # 0
        BY <3>10, <3>13, <4>1 DEF unload
      <4>2. CASE Len(unload) = 0
        <5>1. F[kept].actions = F[rest].actions
          BY <3>6, <3>7, <3>8, <4>2
        <5>2. \E j \in rest \ left : /\ Len(UnloadActions(v, peer[j].target)) # 0
                                   /\ Head(F[rest].actions) = Head(UnloadActions(v, peer[j].target))
          BY <3>4, <3>14, <5>1 DEF Ends, F
        <5> QED BY <3>10, <5>1, <5>2
      <4> QED BY <4>1, <4>2
    <3>15. \A j \in kept \ left : \E R \in SUBSET kept :
             ~Over(v, t, peer, busyOk, R) /\ j = VictimOf(v, t, peer, busyOk, R)
      <4>1. \A j \in rest \ left : \E R \in SUBSET rest :
              ~Over(v, t, peer, busyOk, R) /\ j = VictimOf(v, t, peer, busyOk, R)
        BY <3>4 DEF Ends
      <4>2. SUBSET rest \subseteq SUBSET kept
        BY DEF rest
      <4> QED BY <2>3, <3>10, <4>1, <4>2
    <3>16. F[kept].preempt = {peer[j].target : j \in {k \in kept \ left : peer[k].busy}}
      <4>1. F[rest].preempt = {peer[j].target : j \in {k \in rest \ left : peer[k].busy}}
        BY <3>4 DEF Ends, F
      <4> QED BY <3>5, <3>7, <3>10, <4>1
    <3>17. F[kept].ok \in BOOLEAN /\ F[kept].ok = (Deficits(t, left) = {})
      BY <3>7, <3>8
    <3>18. Ends(v, t, peer, busyOk, kept, left)
      BY <3>8, <3>9, <3>11, <3>12, <3>14, <3>15, <3>16, <3>17 DEF Ends, F
    <3> QED BY <3>10, <3>18
  <2> QED BY <2>2, <2>3
<1>2. \A kept \in SUBSET S : kept \in T
  <2>1. \A kept \in SUBSET S : (\A B \in SUBSET kept : B # kept => B \in T) => kept \in T
    BY <1>1
  <2>2. IsFiniteSet(S)
    BY FiniteInstances, FS_Subset DEF PeersOK
  <2> HIDE DEF T, S
  <2> QED BY <2>1, <2>2, SubsetInduction
<1> QED BY <1>2

(* Rounds that need no busy victim are the same when one is allowed.       *)
LEMMA RoundsAgree ==
  ASSUME NEW v \in Views, NEW t \in Targets, NEW peer, PeersOK(peer)
  PROVE  \A kept \in SUBSET DOMAIN peer :
           Rounds(v, t, peer, FALSE)[kept].ok
             => Rounds(v, t, peer, TRUE)[kept] = Rounds(v, t, peer, FALSE)[kept]
<1> DEFINE S == DOMAIN peer
           F == Rounds(v, t, peer, FALSE)
           G == Rounds(v, t, peer, TRUE)
           T == {kept \in SUBSET S : F[kept].ok => G[kept] = F[kept]}
<1>1. ASSUME NEW kept \in SUBSET S, \A B \in SUBSET kept : B # kept => B \in T
      PROVE  F[kept].ok => G[kept] = F[kept]
  <2>1. F[kept] = Round(v, t, peer, FALSE, F, kept) /\ G[kept] = Round(v, t, peer, TRUE, G, kept)
    BY RoundsDef
  <2>2. CASE Over(v, t, peer, FALSE, kept)
    <3>1. F[kept] = [ok |-> Deficits(t, kept) = {}, actions |-> << >>, preempt |-> {}]
      BY <2>1, <2>2 DEF Round
    <3>2. F[kept].ok = (Deficits(t, kept) = {})
      <4> HIDE DEF F
      <4> QED BY <3>1
    <3>3. Deficits(t, kept) = {} => Over(v, t, peer, TRUE, kept)
      BY DEF Over
    <3>4. Deficits(t, kept) = {} =>
            G[kept] = [ok |-> Deficits(t, kept) = {}, actions |-> << >>, preempt |-> {}]
      BY <2>1, <3>3 DEF Round
    <3> QED BY <3>1, <3>2, <3>4
  <2>3. CASE ~Over(v, t, peer, FALSE, kept)
    <3> DEFINE i == VictimOf(v, t, peer, FALSE, kept)
    <3>1. Tier(v, t, peer, kept, Deficits(t, kept), TRUE) = Tier(v, t, peer, kept, Deficits(t, kept), FALSE)
      BY <2>3 DEF Over, Tier
    <3>2. ~Over(v, t, peer, TRUE, kept) /\ VictimOf(v, t, peer, TRUE, kept) = i
      BY <2>3, <3>1 DEF Over, VictimOf
    <3>3. i \in kept
      BY <2>3, VictimIsKept
    <3>4. F[kept] = Evict(v, peer[i], F[kept \ {i}]) /\ G[kept] = Evict(v, peer[i], G[kept \ {i}])
      BY <2>1, <2>3, <3>2 DEF Round
    <3>5. F[kept \ {i}].ok => G[kept \ {i}] = F[kept \ {i}]
      BY <1>1, <3>3
    <3> HIDE DEF F, G, i
    <3>6. F[kept].ok = F[kept \ {i}].ok
      BY <3>4 DEF Evict
    <3> QED BY <3>4, <3>5, <3>6
  <2> QED BY <2>2, <2>3
<1>2. \A kept \in SUBSET S : kept \in T
  <2>1. \A kept \in SUBSET S : (\A B \in SUBSET kept : B # kept => B \in T) => kept \in T
    BY <1>1
  <2>2. IsFiniteSet(S)
    BY FiniteInstances, FS_Subset DEF PeersOK
  <2> HIDE DEF T, S
  <2> QED BY <2>1, <2>2, SubsetInduction
<1> QED BY <1>2

LEMMA PeerForFacts ==
  ASSUME NEW v \in Views, NEW t \in Targets
  PROVE  /\ PeersOK(PeerFor(v, t))
         /\ DOMAIN PeerFor(v, t) = Peers(v, t)
         /\ \A i \in Peers(v, t) :
              /\ PeerFor(v, t)[i] = Peer(v, t, i)
              /\ i \in Instances \ {InstanceOf[t]}
              /\ Residents(v, t, i) # {}
<1> DEFINE P == Peers(v, t)
           peer == PeerFor(v, t)
<1>1. \A i \in P : i \in Instances \ {InstanceOf[t]} /\ Residents(v, t, i) # {}
  BY DEF Peers
<1>2. DOMAIN peer = P /\ \A i \in P : peer[i] = Peer(v, t, i)
  BY DEF PeerFor
<1> HIDE DEF P, peer
<1>3. \A i \in P : peer[i] \in PeerRec /\ Order[peer[i].place] \in Residents(v, t, i)
  <2>1. ASSUME NEW i \in P
        PROVE  peer[i] \in PeerRec /\ Order[peer[i].place] \in Residents(v, t, i)
    <3>1. peer[i] = Peer(v, t, i)
      BY <1>2, <2>1
    <3>2. i \in Instances /\ Residents(v, t, i) # {}
      BY <1>1, <2>1
    <3>3. Peer(v, t, i) \in PeerRec /\ Order[Peer(v, t, i).place] \in Residents(v, t, i)
      BY <3>2, PeerFacts
    <3> QED BY <3>1, <3>3
  <2> QED BY <2>1
<1>4. \A i, j \in P : peer[i].place = peer[j].place => i = j
  <2>1. \A i \in P : InstanceOf[Order[peer[i].place]] = i
    BY <1>3 DEF Residents
  <2> QED BY <2>1
<1>5. PeersOK(peer)
  BY <1>1, <1>2, <1>3, <1>4 DEF PeersOK
<1> QED BY <1>1, <1>2, <1>5 DEF P, peer

-----------------------------------------------------------------------------
(* Plans. *)

Trivially(e) == e.ok = TRUE /\ e.actions = << >> /\ e.preempt = {}

LEMMA EvictionsEnd ==
  ASSUME NEW v \in Views, NEW t \in Targets, NEW busyOk \in BOOLEAN
  PROVE  /\ ~IsManaged(t) \/ IsActive(v, t) \/ DOMAIN Room = {}
              => Trivially(Evictions(v, t, busyOk))
         /\ ~(~IsManaged(t) \/ IsActive(v, t) \/ DOMAIN Room = {})
              => /\ Evictions(v, t, busyOk)
                      = Rounds(v, t, PeerFor(v, t), busyOk)[Peers(v, t)]
                 /\ \E left \in SUBSET Peers(v, t) :
                      Ends(v, t, PeerFor(v, t), busyOk, Peers(v, t), left)
         /\ Evictions(v, t, busyOk).ok \in BOOLEAN
         /\ Evictions(v, t, busyOk).actions \in Seq(ActionRec)
<1>1. ASSUME ~IsManaged(t) \/ IsActive(v, t) \/ DOMAIN Room = {}
      PROVE  Trivially(Evictions(v, t, busyOk))
  BY <1>1 DEF Evictions, Trivially
<1>2. ASSUME ~(~IsManaged(t) \/ IsActive(v, t) \/ DOMAIN Room = {})
      PROVE  /\ Evictions(v, t, busyOk)
                  = Rounds(v, t, PeerFor(v, t), busyOk)[Peers(v, t)]
             /\ \E left \in SUBSET Peers(v, t) :
                  Ends(v, t, PeerFor(v, t), busyOk, Peers(v, t), left)
  <2>1. Evictions(v, t, busyOk)
          = Rounds(v, t, PeerFor(v, t), busyOk)[Peers(v, t)]
    BY <1>2 DEF Evictions
  <2>2. \E left \in SUBSET Peers(v, t) :
          Ends(v, t, PeerFor(v, t), busyOk, Peers(v, t), left)
    <3> DEFINE peer == PeerFor(v, t)
               P == Peers(v, t)
    <3>1. PeersOK(peer) /\ DOMAIN peer = P
      BY PeerForFacts
    <3> HIDE DEF peer, P
    <3>2. P \in SUBSET DOMAIN peer
      BY <3>1
    <3>3. \E left \in SUBSET P : Ends(v, t, peer, busyOk, P, left)
      BY <3>1, <3>2, RoundsEnd
    <3> QED BY <3>3 DEF peer, P
  <2> QED BY <2>1, <2>2
<1>3. ASSUME ~(~IsManaged(t) \/ IsActive(v, t) \/ DOMAIN Room = {})
      PROVE  /\ Evictions(v, t, busyOk).ok \in BOOLEAN
             /\ Evictions(v, t, busyOk).actions \in Seq(ActionRec)
  BY <1>2, <1>3 DEF Ends
<1>4. ASSUME Trivially(Evictions(v, t, busyOk))
      PROVE  /\ Evictions(v, t, busyOk).ok \in BOOLEAN
             /\ Evictions(v, t, busyOk).actions \in Seq(ActionRec)
  <2>1. Evictions(v, t, busyOk).ok = TRUE /\ Evictions(v, t, busyOk).actions = << >>
    BY <1>4 DEF Trivially
  <2>2. << >> \in Seq(ActionRec)
    OBVIOUS
  <2> QED BY <2>1, <2>2
<1> QED BY <1>1, <1>2, <1>3, <1>4

(* A plan that is not blocked unloads the victims, loads its target and    *)
(* routes the request.                                                     *)
LEMMA PlanShape ==
  ASSUME NEW v \in Views, NEW t \in Targets, NEW busyOk \in BOOLEAN
  PROVE  LET plan == PlanRequest(v, t, busyOk)
             e == Evictions(v, t, busyOk)
         IN /\ plan.ok \in BOOLEAN
            /\ plan.ok = (v.state[t] # "error" /\ e.ok)
            /\ plan.actions \in Seq(ActionRec)
            /\ \A a \in Range(plan.actions) :
                 a \in Range(e.actions) \/ a \in Loads(v, t) \/ a = Act("route-request", t)
            /\ plan.ok => /\ Range(e.actions) \subseteq Range(plan.actions)
                          /\ Range(LoadActions(v, t)) \subseteq Range(plan.actions)
                          /\ Act("route-request", t) \in Range(plan.actions)
            /\ (plan.ok /\ Len(e.actions) # 0) => Head(plan.actions) = Head(e.actions)
<1> DEFINE plan == PlanRequest(v, t, busyOk)
           e == Evictions(v, t, busyOk)
           route == Act("route-request", t)
           loads == LoadActions(v, t)
           tail == <<route>>
<1>1. e.ok \in BOOLEAN /\ e.actions \in Seq(ActionRec)
  BY EvictionsEnd
<1>2. loads \in Seq(ActionRec) /\ Range(loads) \subseteq Loads(v, t)
  <2>1. loads \in Seq(Loads(v, t))
    BY LoadActionsFacts
  <2>2. Loads(v, t) \subseteq ActionRec
    BY DEF Loads
  <2> HIDE DEF loads
  <2> QED BY <2>1, <2>2, RangeType
<1>3. route \in ActionRec
  BY DEF Act, ActionRec, ActionTypes
<1>4. tail \in Seq(ActionRec) /\ Range(tail) = {route} /\ Len(tail) = 1
  BY <1>3 DEF Range
<1>5. plan = IF v.state[t] = "error" \/ ~e.ok THEN Blocked
             ELSE [ok |-> TRUE, actions |-> e.actions \o loads \o tail, preempt |-> e.preempt]
  BY DEF PlanRequest
<1> HIDE DEF e, loads, tail, route, plan
<1>6. CASE v.state[t] = "error" \/ ~e.ok
  <2>1. plan.ok = FALSE /\ plan.actions = << >>
    BY <1>5, <1>6 DEF Blocked
  <2>2. plan.actions \in Seq(ActionRec) /\ Len(plan.actions) = 0
    BY <2>1
  <2>3. Range(plan.actions) = {}
    BY <2>2, EmptyRange
  <2> QED BY <1>1, <1>6, <2>1, <2>2, <2>3 DEF plan, e, route
<1>7. CASE ~(v.state[t] = "error" \/ ~e.ok)
  <2> DEFINE most == e.actions \o loads
  <2>1. plan.ok = TRUE /\ plan.actions = most \o tail
    BY <1>5, <1>7
  <2>2. most \in Seq(ActionRec) /\ Range(most) = Range(e.actions) \cup Range(loads)
    BY <1>1, <1>2, RangeOfConcat
  <2>3. Len(e.actions) # 0 => Len(most) # 0 /\ Head(most) = Head(e.actions)
    BY <1>1, <1>2, HeadOfConcat
  <2> HIDE DEF most
  <2>4. /\ plan.actions \in Seq(ActionRec)
        /\ Range(plan.actions) = Range(most) \cup {route}
    BY <1>4, <2>1, <2>2, RangeOfConcat
  <2>5. Len(e.actions) # 0 => Head(plan.actions) = Head(e.actions)
    BY <1>4, <2>1, <2>2, <2>3, HeadOfConcat
  <2>6. plan.ok = (v.state[t] # "error" /\ e.ok)
    BY <1>1, <1>7, <2>1
  <2>7. \A a \in Range(plan.actions) : a \in Range(e.actions) \/ a \in Loads(v, t) \/ a = route
    BY <1>2, <2>2, <2>4
  <2>8. /\ Range(e.actions) \subseteq Range(plan.actions) /\ route \in Range(plan.actions)
        /\ Range(loads) \subseteq Range(plan.actions)
    BY <2>2, <2>4
  <2> QED BY <2>1, <2>4, <2>5, <2>6, <2>7, <2>8 DEF plan, e, route, loads
<1> QED BY <1>6, <1>7

-----------------------------------------------------------------------------
(* The first readiness action of a plan. *)

(* A target is not taken down before its slots are saved. *)
LEMMA UnloadStarts ==
  ASSUME NEW v \in Views, NEW t \in Targets, Len(UnloadActions(v, t)) # 0
  PROVE  LET a == Head(UnloadActions(v, t))
         IN /\ a.type = "save-slot" => a.slot \in Range(SlotIds[t])
            /\ a.type = "unload-model" => HasModel[t] /\ ModelLoadUnload[t]
            /\ a.type = "stop-instance" => ~(HasModel[t] /\ ModelLoadUnload[t])
            /\ (a.type \in TakeDowns /\ SavesSlots[t] /\ SlotSave[t])
                 => Range(SlotIds[t]) \subseteq v.saved[t]
<1> DEFINE kept == Range(SlotIds[t]) \ v.saved[t]
           unsaved == Only(SlotIds[t], kept)
           slotActs == SlotActs("save-slot", t, unsaved)
           saves == When(SavesSlots[t] /\ SlotSave[t], slotActs)
           last == Act(IF HasModel[t] /\ ModelLoadUnload[t] THEN "unload-model"
                       ELSE "stop-instance", t)
           tail == <<last>>
           a == Head(UnloadActions(v, t))
<1>1. unsaved \in Seq(Nat) /\ Range(unsaved) = Range(SlotIds[t]) \cap kept
  BY PlanInputs, OnlyKeeps
<1>2. "save-slot" \in ActionTypes
  BY DEF ActionTypes
<1>3. Len(slotActs) = Len(unsaved) /\ \A n \in 1..Len(unsaved) :
        slotActs[n].type = "save-slot" /\ slotActs[n].slot = unsaved[n]
  <2> HIDE DEF unsaved
  <2> QED BY <1>1 DEF SlotActs, SlotAct
<1>4. slotActs \in Seq(ActionRec)
  <2> HIDE DEF unsaved
  <2> QED BY <1>1, <1>2, SlotActsFacts
<1>5. last \in ActionRec
      /\ last.type = (IF HasModel[t] /\ ModelLoadUnload[t] THEN "unload-model" ELSE "stop-instance")
  BY DEF Act, ActionRec, ActionTypes
<1> HIDE DEF last
<1>6. tail \in Seq(ActionRec) /\ Len(tail) = 1 /\ Head(tail) = last
  BY <1>5
<1> HIDE DEF tail, unsaved, slotActs
<1>7. UnloadActions(v, t) = IF IsManaged(t) THEN saves \o tail ELSE << >>
  BY DEF UnloadActions, When, saves, last, tail, unsaved, slotActs
<1>8. UnloadActions(v, t) = saves \o tail
  BY <1>7
<1>9. saves \in Seq(ActionRec)
  BY <1>4 DEF When
<1>10. SavesSlots[t] /\ SlotSave[t] => saves = slotActs
  BY DEF When
<1>11. ~(SavesSlots[t] /\ SlotSave[t]) => Len(saves) = 0
  BY DEF When
<1> HIDE DEF saves
<1>12. CASE Len(saves) # 0
  <2>1. a = Head(saves)
    BY <1>6, <1>8, <1>9, <1>12, HeadOfConcat
  <2>2. saves = slotActs
    BY <1>10, <1>11, <1>12
  <2>3. 1 \in 1..Len(unsaved) /\ Head(slotActs) = slotActs[1]
    BY <1>1, <1>3, <1>4, <1>12, <2>2
  <2>4. a.type = "save-slot" /\ a.slot = unsaved[1]
    BY <1>3, <2>1, <2>2, <2>3
  <2>5. unsaved[1] \in Range(SlotIds[t])
    BY <1>1, <2>3, RangeHas
  <2> QED BY <2>4, <2>5 DEF TakeDowns
<1>13. CASE Len(saves) = 0
  <2>1. saves \o tail = tail
    <3>1. saves = << >>
      BY <1>9, <1>13
    <3> QED BY <1>6, <3>1
  <2>2. a = last
    BY <1>6, <1>8, <2>1
  <2>3. SavesSlots[t] /\ SlotSave[t] => Range(SlotIds[t]) \subseteq v.saved[t]
    <3>1. SUFFICES ASSUME SavesSlots[t] /\ SlotSave[t] PROVE Range(unsaved) = {}
      BY <1>1
    <3>2. Len(unsaved) = 0
      BY <1>3, <1>10, <1>13, <3>1
    <3> QED BY <1>1, <3>2, EmptyRange
  <2> QED BY <1>5, <2>2, <2>3
<1> QED BY <1>12, <1>13

(* Two instances draw on a common pool that has a budget.                  *)
SharePool(i, j) == \E p \in DOMAIN Room : Draw[i][p] > 0 /\ Draw[j][p] > 0

(* The targets that a plan without busy evictions takes down.              *)
IdleVictim(v, t, u) ==
  \E i \in Instances \ {InstanceOf[t]} :
    /\ u \in Residents(v, t, i)
    /\ u = Peer(v, t, i).target
    /\ \A w \in Residents(v, t, i) : w \notin v.active
    /\ SharePool(i, InstanceOf[t])

(* What happens first is part of a load, or the first step of the eviction *)
(* of an idle instance.                                                    *)
LEMMA FirstAction ==
  ASSUME NEW v \in Views, NEW t \in Targets,
         Len(ReadinessActions(PlanRequest(v, t, FALSE))) # 0
  PROVE  LET a == Head(ReadinessActions(PlanRequest(v, t, FALSE)))
         IN /\ a \in ActionRec
            /\ a.type # "route-request"
            /\ \/ a \in Loads(v, t) /\ Len(Evictions(v, t, FALSE).actions) = 0
               \/ \E u \in Targets : /\ IdleVictim(v, t, u)
                                     /\ Len(UnloadActions(v, u)) # 0
                                     /\ a = Head(UnloadActions(v, u))
<1> DEFINE plan == PlanRequest(v, t, FALSE)
           e == Evictions(v, t, FALSE)
           routeless == {x \in Range(plan.actions) : x.type # "route-request"}
           todo == ReadinessActions(plan)
           a == Head(todo)
           P == Peers(v, t)
           peer == PeerFor(v, t)
<1>1. FALSE \in BOOLEAN
  OBVIOUS
<1>2. /\ plan.actions \in Seq(ActionRec)
      /\ \A x \in Range(plan.actions) :
           x \in Range(e.actions) \/ x \in Loads(v, t) \/ x = Act("route-request", t)
      /\ plan.ok => Range(e.actions) \subseteq Range(plan.actions)
      /\ (plan.ok /\ Len(e.actions) # 0) => Head(plan.actions) = Head(e.actions)
      /\ plan.ok \in BOOLEAN
  BY <1>1, PlanShape
<1>3. e.actions \in Seq(ActionRec)
  BY <1>1, EvictionsEnd
<1>4. ~plan.ok => plan.actions = << >>
  BY DEF PlanRequest, Blocked
<1>5. todo = Only(plan.actions, routeless)
  BY DEF ReadinessActions
<1> HIDE DEF plan, e
<1>6. todo \in Seq(ActionRec) /\ Range(todo) = Range(plan.actions) \cap routeless
  <2> HIDE DEF routeless, todo
  <2> QED BY <1>2, <1>5, OnlyKeeps
<1>7. todo # << >> /\ Len(todo) # 0
  <2>1. Len(todo) # 0
    BY DEF plan
  <2> HIDE DEF todo
  <2> QED BY <1>6, <2>1
<1> HIDE DEF todo
<1>8. a \in Range(todo)
  BY <1>6, <1>7, RangeHead
<1>9. a \in Range(plan.actions) /\ a.type # "route-request" /\ a \in ActionRec
  BY <1>2, <1>6, <1>8, RangeType
<1>10. plan.ok
  <2>1. SUFFICES ASSUME ~plan.ok PROVE FALSE
    OBVIOUS
  <2>2. plan.actions \in Seq(ActionRec) /\ Len(plan.actions) = 0
    BY <1>2, <1>4, <2>1
  <2> QED BY <1>9, <2>2, EmptyRange
<1>11. CASE Len(e.actions) = 0
  <2>1. Range(e.actions) = {}
    BY <1>3, <1>11, EmptyRange
  <2>2. a # Act("route-request", t)
    BY <1>9 DEF Act
  <2>3. a \in Loads(v, t)
    BY <1>2, <1>9, <2>1, <2>2
  <2> QED BY <1>9, <1>11, <2>3 DEF todo, plan, e
<1>12. CASE Len(e.actions) # 0
  <2>1. ~(~IsManaged(t) \/ IsActive(v, t) \/ DOMAIN Room = {})
    <3>1. SUFFICES ASSUME Trivially(e) PROVE FALSE
      BY <1>1, EvictionsEnd DEF e
    <3>2. e.actions = << >>
      BY <3>1 DEF Trivially
    <3> QED BY <1>12, <3>2
  <2>2. PICK left \in SUBSET P : e = Rounds(v, t, peer, FALSE)[P] /\ Ends(v, t, peer, FALSE, P, left)
    BY <1>1, <2>1, EvictionsEnd DEF e
  <2>3. PICK i \in P \ left : /\ Len(UnloadActions(v, peer[i].target)) # 0
                              /\ Head(e.actions) = Head(UnloadActions(v, peer[i].target))
    BY <1>12, <2>2 DEF Ends
  <2>4. PICK S \in SUBSET P : ~Over(v, t, peer, FALSE, S) /\ i = VictimOf(v, t, peer, FALSE, S)
    BY <2>2, <2>3 DEF Ends
  <2>5. PeersOK(peer) /\ DOMAIN peer = P /\ S \in SUBSET DOMAIN peer
    BY <2>4, PeerForFacts
  <2> DEFINE pools == Deficits(t, S)
             tier == Tier(v, t, peer, S, pools, FALSE)
  <2>6. i \in tier
    <3>1. pools \in SUBSET Pools /\ tier \in SUBSET DOMAIN peer /\ tier # {}
      BY <2>4, <2>5 DEF Deficits, Over, Tier
    <3>2. i = FirstVictim(v, peer, tier, pools)
      BY <2>4 DEF VictimOf
    <3> HIDE DEF pools, tier, peer
    <3> QED BY <2>5, <3>1, <3>2, FirstVictimIsFirst
  <2>7. Eligible(v, t, peer[i], i, FALSE, pools)
    BY <2>6 DEF Tier
  <2>8. ~peer[i].busy
    BY <2>7 DEF Eligible
  <2>9. peer[i] = Peer(v, t, i) /\ i \in Instances \ {InstanceOf[t]} /\ Residents(v, t, i) # {}
    BY <2>3, PeerForFacts
  <2> DEFINE u == peer[i].target
  <2>10. /\ u = Peer(v, t, i).target
         /\ ~Peer(v, t, i).busy
         /\ u \in Residents(v, t, i)
         /\ Peer(v, t, i).busy = (\E w \in Residents(v, t, i) : w \in v.active)
    <3>1. u = Peer(v, t, i).target /\ ~Peer(v, t, i).busy
      BY <2>8, <2>9
    <3> HIDE DEF u, peer
    <3> QED BY <2>9, <3>1, PeerFacts
  <2>21. SharePool(i, InstanceOf[t])
    <3>1. pools \in SUBSET Pools /\ DrawOn(i, pools) > 0 /\ i \in Instances
      BY <2>7, <2>9 DEF Deficits, Eligible
    <3>2. PICK p \in pools : Draw[i][p] > 0
      <4> HIDE DEF pools
      <4> QED BY <3>1, DrawOnFacts
    <3>3. p \in Pools /\ Draw[InstanceOf[t]][p] > 0
      BY <3>2 DEF Deficits
    <3>4. Deficits(t, left) = {}
      <4>1. e.ok
        BY <1>1, <1>10, PlanShape DEF plan, e
      <4> QED BY <2>2, <4>1 DEF Ends
    <3>5. p \in DOMAIN Room
      BY <3>3, <3>4 DEF Deficits, Free
    <3> QED BY <3>2, <3>3, <3>5 DEF SharePool
  <2>11. IdleVictim(v, t, u)
    BY <2>9, <2>10, <2>21 DEF IdleVictim
  <2>12. u \in Targets
    BY <2>10 DEF Residents
  <2> HIDE DEF u
  <2>13. Len(UnloadActions(v, u)) # 0 /\ Head(e.actions) = Head(UnloadActions(v, u))
    BY <2>3 DEF u
  <2>14. /\ UnloadActions(v, u) \in Seq(ActionRec) /\ UnloadActions(v, u) # << >>
         /\ \A x \in Range(UnloadActions(v, u)) : x.target = u /\ x.type \in {"save-slot"} \cup TakeDowns
    BY <2>12, <2>13, UnloadActionsFacts
  <2>15. Head(e.actions).type # "route-request"
    <3>1. Head(UnloadActions(v, u)) \in Range(UnloadActions(v, u))
      BY <2>14, RangeHead
    <3> QED BY <2>13, <2>14, <3>1 DEF TakeDowns
  <2>16. Head(plan.actions) = Head(e.actions)
    BY <1>2, <1>10, <1>12
  <2>17. Len(plan.actions) # 0 /\ plan.actions # << >>
    <3>1. SUFFICES ASSUME Len(plan.actions) = 0 PROVE FALSE
      BY <1>2
    <3> QED BY <1>2, <1>9, <3>1, EmptyRange
  <2>18. Head(plan.actions) \in routeless
    BY <1>2, <2>15, <2>16, <2>17, RangeHead
  <2>19. a = Head(plan.actions)
    <3> HIDE DEF routeless
    <3> QED BY <1>2, <1>5, <2>17, <2>18, OnlyHead
  <2>20. a = Head(UnloadActions(v, u))
    BY <2>13, <2>16, <2>19
  <2> QED BY <1>9, <2>11, <2>12, <2>13, <2>20 DEF todo, plan
<1> QED BY <1>11, <1>12

-----------------------------------------------------------------------------
(* What fits. *)

(* A target that fits beside some instances fits beside others that draw   *)
(* no more on its pools.                                                   *)
LEMMA DeficitsCovered ==
  ASSUME NEW t \in Targets, IsManaged(t), NEW S \in SUBSET Instances, NEW T \in SUBSET Instances,
         \A i \in S : SharePool(i, InstanceOf[t]) => i \in T, Deficits(t, T) = {}
  PROVE  Deficits(t, S) = {}
<1>1. SUFFICES ASSUME NEW p \in Pools, Draw[InstanceOf[t]][p] > 0,
                      Draw[InstanceOf[t]][p] > Free(p, S)
               PROVE  FALSE
  BY DEF Deficits
<1>2. ~(Draw[InstanceOf[t]][p] > Free(p, T))
  BY <1>1 DEF Deficits
<1>3. InstanceOf[t] \in Instances /\ Draw[InstanceOf[t]][p] \in Nat
  BY PlanInputs DEF Instances, IsManaged
<1>4. p \in DOMAIN Room /\ Room[p] \in Int
  BY <1>1, <1>2, <1>3, PlanInputs DEF Free
<1>5. Used(p, S) <= Used(p, T)
  <2>1. \A i \in S : Draw[i][p] > 0 => i \in T
    BY <1>1, <1>4 DEF SharePool
  <2> QED BY <2>1, UsedCovered
<1>6. Used(p, S) \in Nat /\ Used(p, T) \in Nat
  BY UsedFacts
<1>7. Free(p, S) = Room[p] - Used(p, S) /\ Free(p, T) = Room[p] - Used(p, T)
  BY <1>4 DEF Free
<1> QED BY <1>1, <1>2, <1>3, <1>4, <1>5, <1>6, <1>7

(* What fits beside its peers is not blocked, unless it is in error.       *)
LEMMA FitIsUnblocked ==
  ASSUME NEW v \in Views, NEW t \in Targets, v.state[t] # "error",
         Deficits(t, Peers(v, t)) = {}
  PROVE  PlanRequest(v, t, FALSE).ok
<1> DEFINE e == Evictions(v, t, FALSE)
           P == Peers(v, t)
           peer == PeerFor(v, t)
<1>1. FALSE \in BOOLEAN
  OBVIOUS
<1>2. CASE ~IsManaged(t) \/ IsActive(v, t) \/ DOMAIN Room = {}
  <2>1. e.ok
    BY <1>1, <1>2, EvictionsEnd DEF Trivially
  <2> QED BY <1>1, <2>1, PlanShape
<1>3. CASE ~(~IsManaged(t) \/ IsActive(v, t) \/ DOMAIN Room = {})
  <2>1. e = Rounds(v, t, peer, FALSE)[P]
    BY <1>1, <1>3, EvictionsEnd
  <2>2. PeersOK(peer) /\ P \in SUBSET DOMAIN peer
    BY PeerForFacts
  <2> HIDE DEF e, peer, P
  <2>3. e = Round(v, t, peer, FALSE, Rounds(v, t, peer, FALSE), P)
    BY <1>1, <2>1, <2>2, RoundsDef
  <2>4. e.ok
    BY <2>3 DEF Round, Over, P
  <2> QED BY <1>1, <2>4, PlanShape DEF e
<1> QED BY <1>2, <1>3

(* A plan that begins with a start needs no eviction. *)
LEMMA StartFits ==
  ASSUME NEW v \in Views, NEW t \in Targets, IsManaged(t), DOMAIN Room # {},
         Len(ReadinessActions(PlanRequest(v, t, FALSE))) # 0,
         Head(ReadinessActions(PlanRequest(v, t, FALSE))).type = "start-instance"
  PROVE  /\ Deficits(t, Peers(v, t)) = {}
         /\ \/ v.state[t] \in {"stopped", "unknown"}
            \/ v.state[t] = "unloaded" /\ ~ModelLoadUnload[t]
<1> DEFINE plan == PlanRequest(v, t, FALSE)
           e == Evictions(v, t, FALSE)
           a == Head(ReadinessActions(plan))
           P == Peers(v, t)
           peer == PeerFor(v, t)
<1>1. FALSE \in BOOLEAN
  OBVIOUS
<1>2. a \in Loads(v, t) /\ Len(e.actions) = 0
  <2>1. \A u \in Targets : Len(UnloadActions(v, u)) # 0 => Head(UnloadActions(v, u)).type # "start-instance"
    <3>1. SUFFICES ASSUME NEW u \in Targets, Len(UnloadActions(v, u)) # 0
                   PROVE  Head(UnloadActions(v, u)).type # "start-instance"
      OBVIOUS
    <3>2. UnloadActions(v, u) \in Seq(ActionRec) /\ UnloadActions(v, u) # << >>
          /\ \A x \in Range(UnloadActions(v, u)) : x.type \in {"save-slot"} \cup TakeDowns
      BY <3>1, UnloadActionsFacts
    <3>3. Head(UnloadActions(v, u)) \in Range(UnloadActions(v, u))
      BY <3>2, RangeHead
    <3> QED BY <3>2, <3>3 DEF TakeDowns
  <2> QED BY <2>1, FirstAction
<1>3. a.type = "start-instance"
  OBVIOUS
<1> HIDE DEF plan, a
<1>4. \/ v.state[t] \in {"stopped", "unknown"}
      \/ v.state[t] = "unloaded" /\ ~ModelLoadUnload[t]
  BY <1>2, <1>3 DEF Loads
<1>5. plan.ok
  <2>1. ~plan.ok => plan.actions = << >>
    BY DEF plan, PlanRequest, Blocked
  <2>2. plan.actions = << >> => Len(ReadinessActions(plan)) = 0
    <3>1. SUFFICES ASSUME plan.actions = << >> PROVE Len(ReadinessActions(plan)) = 0
      OBVIOUS
    <3>2. plan.actions \in Seq(ActionRec) /\ Len(plan.actions) = 0
      BY <1>1, <3>1, PlanShape DEF plan
    <3>3. Range(plan.actions) = {}
      BY <3>2, EmptyRange
    <3>4. ReadinessActions(plan) \in Seq(ActionRec) /\ Range(ReadinessActions(plan)) = {}
      BY <3>2, <3>3, OnlyKeeps DEF ReadinessActions
    <3> QED BY <3>4, RangeHead
  <2> QED BY <2>1, <2>2 DEF plan
<1>6. e.ok /\ ~(~IsManaged(t) \/ IsActive(v, t) \/ DOMAIN Room = {})
  BY <1>1, <1>4, <1>5, PlanShape DEF plan, IsActive
<1>7. PICK left \in SUBSET P : e = Rounds(v, t, peer, FALSE)[P] /\ Ends(v, t, peer, FALSE, P, left)
  BY <1>1, <1>6, EvictionsEnd
<1>8. Deficits(t, left) = {} /\ Range(e.actions) = {}
  <2>1. e.actions \in Seq(ActionRec)
    BY <1>1, EvictionsEnd
  <2>2. Range(e.actions) = {}
    <3> HIDE DEF e
    <3> QED BY <1>2, <2>1, EmptyRange
  <2> QED BY <1>6, <1>7, <2>2 DEF Ends
<1>9. left = P
  <2>1. SUFFICES ASSUME NEW i \in P \ left PROVE FALSE
    OBVIOUS
  <2>2. Range(UnloadActions(v, peer[i].target)) = {}
    BY <1>7, <1>8, <2>1 DEF Ends
  <2>3. peer[i] = Peer(v, t, i) /\ i \in Instances /\ Residents(v, t, i) # {}
    BY <2>1, PeerForFacts
  <2>4. peer[i].target \in Residents(v, t, i)
    BY <2>3, PeerFacts
  <2>5. peer[i].target \in Targets /\ IsManaged(peer[i].target)
    BY <2>3, <2>4 DEF Residents, Instances, IsManaged
  <2> QED BY <2>2, <2>5, UnloadActionsFacts
<1> QED BY <1>4, <1>8, <1>9

=============================================================================
