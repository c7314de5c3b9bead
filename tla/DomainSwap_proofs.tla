-------------------------- MODULE DomainSwap_proofs --------------------------
(***************************************************************************)
(* The swap coordinator excludes overlapping swaps, first come first       *)
(* served, for every set of callers and domains, and implements the safety *)
(* of the abstract lock.                                                   *)
(***************************************************************************)
EXTENDS DomainSwap, TLAPS, WellFoundedInduction

(* A call appears at most once in a chain. *)
AppendsOnce ==
  \A k \in Domains : \A i, j \in 1..Len(chain[k]) :
    chain[k][i] = chain[k][j] => i = j

InChain(c, k) == \E i \in 1..Len(chain[k]) : chain[k][i] = c

(* What a call has appended to is what it has passed or awaits. *)
ChainsMatchCalls ==
  \A c \in Callers, k \in Domains :
    InChain(c, k) <=> k \in passed[c] \/ (phase[c] = "asking" /\ k = awaiting[c])

(* What each phase of a call means for its locks. *)
PhasesMatchLocks ==
  \A c \in Callers :
    /\ phase[c] = "outside" => passed[c] = {}
    /\ passed[c] \subseteq DomainsWanted[c]
    /\ phase[c] = "asking" =>
         /\ awaiting[c] \in DomainsWanted[c] \ passed[c]
         /\ \A k \in DomainsWanted[c] \ passed[c] : Rank[awaiting[c]] <= Rank[k]
    /\ phase[c] = "inside" => passed[c] = DomainsWanted[c]

ReleasedOnLeaving ==
  \A c \in Callers, k \in Domains :
    <<c, k>> \in released => phase[c] = "left" /\ k \in passed[c]

IInv ==
  /\ TypeOK
  /\ AppendsOnce
  /\ ChainsMatchCalls
  /\ PhasesMatchLocks
  /\ ReleasedOnLeaving
  /\ ChainInTurn
  /\ LocksInOrder

-----------------------------------------------------------------------------
(* Every non-empty set of keys has a first one in sorted order. *)
LEMMA FirstKeyExists ==
  ASSUME CallAssumption, NEW K \in SUBSET Domains, K # {}
  PROVE  /\ FirstKey(K) \in K
         /\ \A j \in K : Rank[FirstKey(K)] <= Rank[j]
<1> DEFINE ranks == {Rank[k] : k \in K}
           less == OpToRel(<, Nat)
<1>1. ranks \subseteq Nat /\ ranks # {}
  BY DEF CallAssumption
<1>2. PICK m \in ranks : \A n \in ranks : ~(<<n, m>> \in less)
  <2>1. IsWellFoundedOn(less, Nat)
    BY NatLessThanWellFounded
  <2> HIDE DEF less, ranks
  <2> QED BY <1>1, <2>1, WFMin
<1>3. \A n \in ranks : m <= n
  <2>1. less = {p \in Nat \X Nat : p[1] < p[2]}
    BY Zenon DEF OpToRel
  <2> HIDE DEF less, ranks
  <2> SUFFICES ASSUME NEW n \in ranks PROVE m <= n
    OBVIOUS
  <2>2. <<n, m>> \in Nat \X Nat /\ ~(<<n, m>>[1] < <<n, m>>[2])
    BY <1>1, <1>2, <2>1
  <2> QED BY <2>2, <1>1
<1>4. \E k \in K : \A j \in K : Rank[k] <= Rank[j]
  BY <1>3
<1> QED BY <1>4 DEF FirstKey

(* What taking a key does to the chains. *)
LEMMA Enqueueing ==
  ASSUME TypeOK, NEW c \in Callers, NEW k \in Domains, Enqueue(c, k)
  PROVE  /\ chain' \in [Domains -> Seq(Callers)]
         /\ awaiting' = [awaiting EXCEPT ![c] = k]
         /\ \A n \in Domains \ {k} : chain'[n] = chain[n]
         /\ Len(chain'[k]) = Len(chain[k]) + 1
         /\ \A i \in 1..Len(chain[k]) : chain'[k][i] = chain[k][i]
         /\ chain'[k][Len(chain[k]) + 1] = c
BY DEF TypeOK, Enqueue

(* Taking a key one has not taken keeps the chains in order. *)
LEMMA EnqueueKeepsChains ==
  ASSUME TypeOK, AppendsOnce, ChainInTurn, ChainsMatchCalls,
         NEW c \in Callers, NEW k \in Domains,
         ~InChain(c, k), Enqueue(c, k), UNCHANGED released,
         \A d \in Callers \ {c} : passed'[d] = passed[d],
         k \notin passed'[c],
         \A n \in Domains : \A i, j \in 1..Len(chain[n]) :
           i < j /\ chain[n][j] = c /\ n \in passed'[c]
             => <<chain[n][i], n>> \in released
  PROVE  /\ AppendsOnce'
         /\ ChainInTurn'
         /\ \A d \in Callers, n \in Domains :
              InChain(d, n)' <=> InChain(d, n) \/ (d = c /\ n = k)
<1>1. /\ \A n \in Domains \ {k} : chain'[n] = chain[n]
      /\ Len(chain'[k]) = Len(chain[k]) + 1
      /\ \A i \in 1..Len(chain[k]) : chain'[k][i] = chain[k][i]
      /\ chain'[k][Len(chain[k]) + 1] = c
  BY Enqueueing
<1>2. \A n \in Domains : chain[n] \in Seq(Callers) /\ Len(chain[n]) \in Nat
  BY DEF TypeOK
<1>3. AppendsOnce'
  <2> SUFFICES ASSUME NEW n \in Domains,
                      NEW i \in 1..Len(chain'[n]), NEW j \in 1..Len(chain'[n]),
                      chain'[n][i] = chain'[n][j]
               PROVE  i = j
    BY DEF AppendsOnce
  <2>1. CASE n # k
    BY <2>1, <1>1 DEF AppendsOnce
  <2>2. CASE n = k
    <3> DEFINE m == Len(chain[k])
    <3>1. m \in Nat /\ i \in 1..(m + 1) /\ j \in 1..(m + 1)
      BY <2>2, <1>1, <1>2
    <3>2. \A p \in 1..m : chain'[k][p] = chain[k][p] /\ chain'[k][p] # c
      BY <1>1 DEF InChain
    <3>3. chain'[k][m + 1] = c
      BY <1>1
    <3>4. CASE i \in 1..m /\ j \in 1..m
      BY <2>2, <3>2, <3>4 DEF AppendsOnce
    <3>5. CASE i = m + 1 /\ j = m + 1
      BY <3>5
    <3>6. CASE i = m + 1 /\ j \in 1..m
      BY <2>2, <3>2, <3>3, <3>6
    <3>7. CASE j = m + 1 /\ i \in 1..m
      BY <2>2, <3>2, <3>3, <3>7
    <3> HIDE DEF m
    <3> QED BY <3>1, <3>4, <3>5, <3>6, <3>7
  <2> QED BY <2>1, <2>2
<1>4. ChainInTurn'
  <2> SUFFICES ASSUME NEW n \in Domains,
                      NEW i \in 1..Len(chain'[n]), NEW j \in 1..Len(chain'[n]),
                      i < j, n \in passed'[chain'[n][j]]
               PROVE  <<chain'[n][i], n>> \in released
    BY DEF ChainInTurn
  <2>1. i \in 1..Len(chain[n]) /\ j \in 1..Len(chain[n])
    BY <1>1, <1>2
  <2>2. chain'[n][i] = chain[n][i] /\ chain'[n][j] = chain[n][j]
    BY <1>1, <2>1
  <2>3. CASE chain[n][j] = c
    BY <2>1, <2>2, <2>3
  <2>4. CASE chain[n][j] # c
    <3>1. chain[n][j] \in Callers
      BY <1>2, <2>1
    <3>2. n \in passed[chain[n][j]]
      BY <3>1, <2>2, <2>4
    <3> QED BY <3>2, <2>1, <2>2 DEF ChainInTurn
  <2> QED BY <2>3, <2>4
<1>5. \A d \in Callers, n \in Domains :
        InChain(d, n)' <=> InChain(d, n) \/ (d = c /\ n = k)
  BY <1>1, <1>2 DEF InChain
<1> QED BY <1>3, <1>4, <1>5

(* A resolved prior means everyone earlier in the chain has released.      *)
LEMMA PriorsReleased ==
  ASSUME IInv, NEW c \in Callers, phase[c] = "asking", PriorResolved(c, awaiting[c]),
         NEW k \in Domains, NEW i \in 1..Len(chain[k]), NEW j \in 1..Len(chain[k]),
         i < j, chain[k][j] = c, k \in passed[c] \cup {awaiting[c]}
  PROVE  <<chain[k][i], k>> \in released
<1>1. CASE k \in passed[c]
  BY <1>1 DEF IInv, ChainInTurn
<1>2. CASE k = awaiting[c]
  <2>1. PICK p \in 1..Len(chain[k]) :
          chain[k][p] = c /\ (p > 1 => <<chain[k][p - 1], k>> \in released)
    BY <1>2 DEF PriorResolved
  <2>2. p = j
    BY <2>1 DEF IInv, AppendsOnce
  <2>3. Len(chain[k]) \in Nat /\ j - 1 \in 1..Len(chain[k]) /\ chain[k][j - 1] \in Callers
    BY DEF IInv, TypeOK
  <2>4. <<chain[k][j - 1], k>> \in released
    BY <2>1, <2>2
  <2>5. k \in passed[chain[k][j - 1]]
    BY <2>3, <2>4 DEF IInv, ReleasedOnLeaving
  <2>6. CASE i < j - 1
    BY <2>3, <2>5, <2>6 DEF IInv, ChainInTurn
  <2>7. CASE i = j - 1
    BY <2>4, <2>7
  <2> QED BY <2>6, <2>7
<1> QED BY <1>1, <1>2

LEMMA InitInv == CallAssumption /\ Init => IInv
BY DEF CallAssumption, Init, IInv, TypeOK, AppendsOnce, ChainsMatchCalls,
       PhasesMatchLocks, ReleasedOnLeaving, ChainInTurn, LocksInOrder, InChain

LEMMA AskKeepsInv ==
  ASSUME CallAssumption, IInv, NEW c \in Callers, Ask(c)
  PROVE  IInv'
<1> DEFINE k == FirstKey(DomainsWanted[c])
<1>1. k \in DomainsWanted[c] /\ k \in Domains
      /\ \A n \in DomainsWanted[c] : Rank[k] <= Rank[n]
  BY FirstKeyExists DEF CallAssumption
<1>2. phase[c] = "outside" /\ passed[c] = {}
  BY DEF Ask, IInv, PhasesMatchLocks
<1>3. /\ phase' = [phase EXCEPT ![c] = "asking"] /\ Enqueue(c, k)
      /\ passed' = passed /\ released' = released
  BY DEF Ask
<1> HIDE DEF k
<1>4. \A n \in Domains : ~InChain(c, n)
  BY <1>2 DEF IInv, ChainsMatchCalls
<1>5. /\ chain' \in [Domains -> Seq(Callers)]
      /\ awaiting' = [awaiting EXCEPT ![c] = k]
  BY <1>1, <1>3, Enqueueing DEF IInv
<1>6. TypeOK'
  BY <1>1, <1>3, <1>5 DEF IInv, TypeOK
<1>7. /\ AppendsOnce' /\ ChainInTurn'
      /\ \A d \in Callers, n \in Domains :
           InChain(d, n)' <=> InChain(d, n) \/ (d = c /\ n = k)
  BY <1>1, <1>2, <1>3, <1>4, EnqueueKeepsChains DEF IInv
<1>8. ChainsMatchCalls'
  <2> SUFFICES ASSUME NEW d \in Callers, NEW n \in Domains
               PROVE  InChain(d, n)' <=>
                        \/ n \in passed'[d]
                        \/ phase'[d] = "asking" /\ n = awaiting'[d]
    BY DEF ChainsMatchCalls
  <2>1. InChain(d, n) <=> n \in passed[d] \/ (phase[d] = "asking" /\ n = awaiting[d])
    BY DEF IInv, ChainsMatchCalls
  <2>2. CASE d = c
    BY <2>1, <2>2, <1>2, <1>3, <1>4, <1>5, <1>7 DEF IInv, TypeOK
  <2>3. CASE d # c
    BY <2>1, <2>3, <1>3, <1>5, <1>7 DEF IInv, TypeOK
  <2> QED BY <2>2, <2>3
<1>9. PhasesMatchLocks'
  BY <1>1, <1>2, <1>3, <1>5 DEF IInv, PhasesMatchLocks, TypeOK
<1>10. ReleasedOnLeaving'
  BY <1>2, <1>3 DEF IInv, ReleasedOnLeaving, TypeOK
<1>11. LocksInOrder'
  BY <1>2, <1>3, <1>5 DEF IInv, LocksInOrder, TypeOK
<1> QED BY <1>6, <1>7, <1>8, <1>9, <1>10, <1>11 DEF IInv

(* Advance, when a key is left to take. *)
LEMMA AdvanceOnKeepsInv ==
  ASSUME CallAssumption, IInv, NEW c \in Callers, Advance(c),
         DomainsWanted[c] \ (passed[c] \cup {awaiting[c]}) # {}
  PROVE  IInv'
<1> DEFINE had == passed[c] \cup {awaiting[c]}
           left == DomainsWanted[c] \ had
           k == FirstKey(left)
<1>1. left \in SUBSET Domains /\ left # {}
  BY DEF CallAssumption
<1>2. k \in left /\ k \in Domains /\ \A n \in left : Rank[k] <= Rank[n]
  BY <1>1, FirstKeyExists
<1>3. phase[c] = "asking" /\ PriorResolved(c, awaiting[c])
  BY DEF Advance
<1>4. /\ passed' = [passed EXCEPT ![c] = had] /\ Enqueue(c, k)
      /\ phase' = phase /\ released' = released
  BY DEF Advance
<1>5. /\ awaiting[c] \in DomainsWanted[c] \ passed[c]
      /\ \A n \in DomainsWanted[c] \ passed[c] : Rank[awaiting[c]] <= Rank[n]
      /\ \A n \in passed[c] : Rank[n] < Rank[awaiting[c]]
      /\ passed[c] \subseteq DomainsWanted[c]
  BY <1>3 DEF IInv, PhasesMatchLocks, LocksInOrder
<1>6. ~InChain(c, k) /\ k \notin had
  BY <1>2 DEF IInv, ChainsMatchCalls
<1>7. \A n \in Domains : \A i, j \in 1..Len(chain[n]) :
        i < j /\ chain[n][j] = c /\ n \in had => <<chain[n][i], n>> \in released
  BY <1>3, PriorsReleased
<1>8. had \in SUBSET Domains
  BY DEF IInv, TypeOK
<1> HIDE DEF had, left, k
<1>9. passed'[c] = had /\ \A d \in Callers \ {c} : passed'[d] = passed[d]
  BY <1>4 DEF IInv, TypeOK
<1>10. /\ chain' \in [Domains -> Seq(Callers)]
       /\ awaiting' = [awaiting EXCEPT ![c] = k]
  BY <1>2, <1>4, Enqueueing DEF IInv
<1>11. TypeOK'
  BY <1>2, <1>4, <1>8, <1>10 DEF IInv, TypeOK
<1>12. /\ AppendsOnce' /\ ChainInTurn'
       /\ \A d \in Callers, n \in Domains :
            InChain(d, n)' <=> InChain(d, n) \/ (d = c /\ n = k)
  BY <1>2, <1>4, <1>6, <1>7, <1>9, EnqueueKeepsChains DEF IInv
<1>13. ChainsMatchCalls'
  <2> SUFFICES ASSUME NEW d \in Callers, NEW n \in Domains
               PROVE  InChain(d, n)' <=>
                        \/ n \in passed'[d]
                        \/ phase'[d] = "asking" /\ n = awaiting'[d]
    BY DEF ChainsMatchCalls
  <2>1. InChain(d, n) <=> n \in passed[d] \/ (phase[d] = "asking" /\ n = awaiting[d])
    BY DEF IInv, ChainsMatchCalls
  <2>2. CASE d = c
    BY <2>1, <2>2, <1>3, <1>4, <1>9, <1>10, <1>12 DEF IInv, TypeOK, had
  <2>3. CASE d # c
    BY <2>1, <2>3, <1>4, <1>9, <1>10, <1>12 DEF IInv, TypeOK
  <2> QED BY <2>2, <2>3
<1>14. \A n \in had : Rank[n] < Rank[k]
  <2> SUFFICES ASSUME NEW n \in had PROVE Rank[n] < Rank[k]
    OBVIOUS
  <2>1. Rank[n] <= Rank[awaiting[c]]
    BY <1>5, <1>8 DEF had, CallAssumption, IInv, TypeOK
  <2>2. Rank[awaiting[c]] <= Rank[k]
    BY <1>2, <1>5 DEF left, had
  <2>3. Rank[awaiting[c]] # Rank[k]
    BY <1>2, <1>6, <1>8 DEF had, CallAssumption
  <2>4. Rank[n] \in Nat /\ Rank[awaiting[c]] \in Nat /\ Rank[k] \in Nat
    BY <1>2, <1>8 DEF had, CallAssumption
  <2> QED BY <2>1, <2>2, <2>3, <2>4
<1>15. PhasesMatchLocks'
  <2>1. had \subseteq DomainsWanted[c] /\ k \in DomainsWanted[c] \ had
        /\ \A n \in DomainsWanted[c] \ had : Rank[k] <= Rank[n]
    BY <1>2, <1>5, <1>6 DEF had, left
  <2> QED BY <2>1, <1>3, <1>4, <1>9, <1>10 DEF IInv, PhasesMatchLocks, TypeOK
<1>16. ReleasedOnLeaving'
  BY <1>3, <1>4, <1>9 DEF IInv, ReleasedOnLeaving, TypeOK
<1>17. LocksInOrder'
  BY <1>4, <1>9, <1>10, <1>14 DEF IInv, LocksInOrder, TypeOK
<1> QED BY <1>11, <1>12, <1>13, <1>15, <1>16, <1>17 DEF IInv

(* Advance, when the last key was taken. *)
LEMMA AdvanceInKeepsInv ==
  ASSUME CallAssumption, IInv, NEW c \in Callers, Advance(c),
         DomainsWanted[c] \ (passed[c] \cup {awaiting[c]}) = {}
  PROVE  IInv'
<1> DEFINE had == passed[c] \cup {awaiting[c]}
<1>1. phase[c] = "asking" /\ PriorResolved(c, awaiting[c])
  BY DEF Advance
<1>2. /\ passed' = [passed EXCEPT ![c] = had]
      /\ phase' = [phase EXCEPT ![c] = "inside"]
      /\ chain' = chain /\ awaiting' = awaiting /\ released' = released
  BY DEF Advance
<1>3. had = DomainsWanted[c]
  BY <1>1 DEF IInv, PhasesMatchLocks
<1>4. \A n \in Domains : \A i, j \in 1..Len(chain[n]) :
        i < j /\ chain[n][j] = c /\ n \in had => <<chain[n][i], n>> \in released
  BY <1>1, PriorsReleased
<1>5. had \in SUBSET Domains
  BY DEF IInv, TypeOK
<1>6. \A n \in Domains : n \in had <=> n \in passed[c] \/ n = awaiting[c]
  OBVIOUS
<1> HIDE DEF had
<1>7. TypeOK'
  BY <1>2, <1>5 DEF IInv, TypeOK
<1>8. AppendsOnce'
  BY <1>2 DEF IInv, AppendsOnce
<1>9. ChainsMatchCalls'
  <2> SUFFICES ASSUME NEW d \in Callers, NEW n \in Domains
               PROVE  InChain(d, n) <=>
                        \/ n \in passed'[d]
                        \/ phase'[d] = "asking" /\ n = awaiting[d]
    BY <1>2 DEF ChainsMatchCalls, InChain
  <2>1. InChain(d, n) <=> n \in passed[d] \/ (phase[d] = "asking" /\ n = awaiting[d])
    BY DEF IInv, ChainsMatchCalls
  <2>2. CASE d = c
    BY <2>1, <2>2, <1>1, <1>2, <1>6 DEF IInv, TypeOK
  <2>3. CASE d # c
    BY <2>1, <2>3, <1>2 DEF IInv, TypeOK
  <2> QED BY <2>2, <2>3
<1>10. PhasesMatchLocks'
  BY <1>2, <1>3 DEF IInv, PhasesMatchLocks, TypeOK
<1>11. ReleasedOnLeaving'
  BY <1>1, <1>2 DEF IInv, ReleasedOnLeaving, TypeOK
<1>12. ChainInTurn'
  <2> SUFFICES ASSUME NEW n \in Domains,
                      NEW i \in 1..Len(chain[n]), NEW j \in 1..Len(chain[n]),
                      i < j, n \in passed'[chain[n][j]]
               PROVE  <<chain[n][i], n>> \in released
    BY <1>2 DEF ChainInTurn
  <2>1. chain[n][j] \in Callers
    BY DEF IInv, TypeOK
  <2>2. CASE chain[n][j] = c
    BY <2>2, <1>2, <1>4 DEF IInv, TypeOK
  <2>3. CASE chain[n][j] # c
    BY <2>1, <2>3, <1>2 DEF IInv, TypeOK, ChainInTurn
  <2> QED BY <2>2, <2>3
<1>13. LocksInOrder'
  BY <1>2 DEF IInv, LocksInOrder, TypeOK
<1> QED BY <1>7, <1>8, <1>9, <1>10, <1>11, <1>12, <1>13 DEF IInv

LEMMA FinishKeepsInv ==
  ASSUME IInv, NEW c \in Callers, Finish(c)
  PROVE  IInv'
<1>1. TypeOK'
  BY DEF IInv, TypeOK, Finish
<1>2. AppendsOnce'
  BY DEF IInv, AppendsOnce, Finish
<1>3. ChainsMatchCalls'
  BY DEF IInv, ChainsMatchCalls, InChain, Finish, TypeOK
<1>4. PhasesMatchLocks'
  BY DEF IInv, PhasesMatchLocks, Finish, TypeOK
<1>5. ReleasedOnLeaving'
  BY DEF IInv, ReleasedOnLeaving, Finish, TypeOK
<1>6. ChainInTurn'
  BY DEF IInv, ChainInTurn, Finish
<1>7. LocksInOrder'
  BY DEF IInv, LocksInOrder, Finish, TypeOK
<1> QED BY <1>1, <1>2, <1>3, <1>4, <1>5, <1>6, <1>7 DEF IInv

(* The invariant is inductive, and rules out overlapping swaps. *)
LEMMA StepInv == CallAssumption /\ IInv /\ [Next]_vars => IInv'
<1> SUFFICES ASSUME CallAssumption, IInv, [Next]_vars PROVE IInv'
  OBVIOUS
<1>1. CASE \E c \in Callers : Ask(c)
  BY <1>1, AskKeepsInv
<1>2. CASE \E c \in Callers : Advance(c)
  BY <1>2, AdvanceOnKeepsInv, AdvanceInKeepsInv
<1>3. CASE \E c \in Callers : Finish(c)
  BY <1>3, FinishKeepsInv
<1>4. CASE UNCHANGED vars
  BY <1>4 DEF vars, IInv, TypeOK, AppendsOnce, ChainsMatchCalls, InChain,
              PhasesMatchLocks, ReleasedOnLeaving, ChainInTurn, LocksInOrder
<1> QED BY <1>1, <1>2, <1>3, <1>4 DEF Next

LEMMA InvExcludes == IInv => SwapsExclude
<1> SUFFICES ASSUME IInv, NEW c \in Callers, NEW d \in Callers, c # d,
                    phase[c] = "inside", phase[d] = "inside",
                    NEW k \in DomainsWanted[c] \cap DomainsWanted[d]
             PROVE  FALSE
  BY DEF SwapsExclude
<1>1. k \in passed[c] /\ k \in passed[d] /\ k \in Domains
  BY DEF IInv, PhasesMatchLocks, TypeOK
<1>2. PICK i \in 1..Len(chain[k]), j \in 1..Len(chain[k]) :
        chain[k][i] = c /\ chain[k][j] = d
  BY <1>1 DEF IInv, ChainsMatchCalls, InChain
<1>3. i < j \/ j < i
  BY <1>2
<1>4. <<c, k>> \in released \/ <<d, k>> \in released
  BY <1>1, <1>2, <1>3 DEF IInv, ChainInTurn
<1> QED BY <1>1, <1>4 DEF IInv, ReleasedOnLeaving

LEMMA SwapInvariance == SafeSpec => []IInv
<1>1. Init => IInv
  BY Calls, InitInv
<1>2. IInv /\ [Next]_vars => IInv'
  BY Calls, StepInv
<1> QED BY <1>1, <1>2, PTL DEF SafeSpec

-----------------------------------------------------------------------------
(* For every set of calls and domains: swaps that share a domain never run *)
(* together.                                                               *)
THEOREM SwapExclusion == SafeSpec => []SwapsExclude
BY SwapInvariance, InvExcludes, PTL

(* The state has its type throughout. *)
THEOREM SwapTypeCorrect == SafeSpec => []TypeOK
<1>1. IInv => TypeOK
  BY DEF IInv
<1> QED BY <1>1, SwapInvariance, PTL

(* First come, first served on every domain.                               *)
THEOREM SwapTurns == SafeSpec => []ChainInTurn
<1>1. IInv => ChainInTurn BY DEF IInv
<1> QED BY <1>1, SwapInvariance, PTL

(* A waiting call holds only locks that sort before the one it awaits.     *)
THEOREM SwapOrder == SafeSpec => []LocksInOrder
<1>1. IInv => LocksInOrder BY DEF IInv
<1> QED BY <1>1, SwapInvariance, PTL

(* Every behaviour of the lock, its fairness aside, is one of the abstract *)
(* promise.                                                                *)
THEOREM SwapRefinement == SafeSpec => Access!SafeSpec
<1>1. Init => Access!Init
  BY DEF Init, Access!Init
<1>2. IInv /\ SwapsExclude' /\ TypeOK' /\ [Next]_vars => [Access!Next]_phase
  <2> SUFFICES ASSUME IInv, SwapsExclude', [Next]_vars
               PROVE  [Access!Next]_phase
    OBVIOUS
  <2>1. ASSUME NEW c \in Callers, Ask(c) PROVE Access!Ask(c)
    BY <2>1 DEF Ask, Access!Ask
  <2>2. ASSUME NEW c \in Callers, Advance(c) PROVE Access!Enter(c) \/ phase' = phase
    <3> SUFFICES ASSUME phase[c] = "asking", phase' = [phase EXCEPT ![c] = "inside"],
                        NEW d \in Callers, phase[d] = "inside"
                 PROVE  ~Access!Conflict(c, d)
      BY <2>2 DEF Advance, Access!Enter
    <3>1. phase'[c] = "inside" /\ phase'[d] = "inside"
      BY DEF IInv, TypeOK
    <3> QED BY <3>1 DEF SwapsExclude, Access!Conflict
  <2>3. ASSUME NEW c \in Callers, Finish(c) PROVE Access!Leave(c)
    BY <2>3 DEF Finish, Access!Leave
  <2> QED BY <2>1, <2>2, <2>3 DEF Next, vars, Access!Next
<1> QED BY <1>1, <1>2, SwapInvariance, SwapExclusion, SwapTypeCorrect, PTL
        DEF SafeSpec, Access!SafeSpec
=============================================================================
