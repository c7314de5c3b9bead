----------------------- MODULE DomainCoordinator_proofs -----------------------
(***************************************************************************)
(* The safety of the compute-domain coordinator, for every set of leases,  *)
(* every assignment of targets, domains and priorities, and every policy.  *)
(***************************************************************************)
EXTENDS DomainCoordinator, TLAPS

(* A request that was made captured something; a queued abort belongs to a *)
(* request that was made.                                                  *)
CapturedOnce == \A l \in Leases : status[l] # "none" => captured[l] \in Captures
AbortsQueuedForRequests == \A l \in Leases : abortQueued[l] => status[l] # "none"

IInv ==
  /\ TypeOK
  /\ QueuesAgree
  /\ CapturedOnce
  /\ AbortsQueuedForRequests
  /\ MaintenanceAlone
  /\ HoldersCompatible
  /\ NoMissedAdmission
  /\ NoMissedPreemption

-----------------------------------------------------------------------------
(* Overlap is symmetric. *)
LEMMA OverlapSymmetric ==
  ASSUME NEW l, NEW k PROVE Overlap(l, k) <=> Overlap(k, l)
BY DEF Overlap

(* What a run promotes was pending. *)
LEMMA PromotedPending ==
  ASSUME NEW W, NEW run \in Seq(W), NEW i \in 0..Len(run)
  PROVE  Promoted(run, i) \subseteq W
BY DEF Promoted

(* A lease admitted while h holds an overlapping domain does not refuse h, *)
(* and h is not a maintenance lease.                                       *)
LEMMA AdmissibleBeside ==
  ASSUME NEW H \in SUBSET Leases, NEW l \in Leases, NEW h \in H, NEW cap,
         cap[l] \in Captures, Overlap(l, h), Admissible(l, H, cap)
  PROVE  ~IsMaintenance(h) /\ <<cap[l], l, h>> \notin Refuses
<1>1. h \in HoldersOn(l, H)
  BY OverlapSymmetric DEF HoldersOn
<1>2. ~IsMaintenance(h)
  BY <1>1 DEF Admissible, UnderMaintenance
<1>3. HoldersOn(l, H) \in SUBSET Leases /\ Admits(cap[l], l, HoldersOn(l, H))
  BY DEF HoldersOn, Admissible
<1>4. <<cap[l], l, h>> \notin Refuses
  BY <1>1, <1>3 DEF Refuses
<1> QED BY <1>2, <1>4

(* What the admission loop establishes, whatever the handler that calls it *)
(* did before.  P is the set of leases it promotes.                        *)
Admission(P, H, W, st, pr, cap) ==
  /\ P \subseteq W
  /\ holders' = H \cup P
  /\ waiters' = W \ P
  /\ status' = [l \in Leases |-> IF l \in P THEN "holding" ELSE st[l]]
  /\ promise' = [l \in Leases |-> IF l \in P THEN "resolved" ELSE pr[l]]
  /\ preemptFired' \in [Leases -> BOOLEAN]
  /\ \A l \in P : ~IsMaintenance(l)
  /\ \A l \in P, h \in H : Overlap(l, h) =>
       ~IsMaintenance(h) /\ <<cap[l], l, h>> \notin Refuses
  /\ \A l, h \in P : l # h /\ Overlap(l, h) =>
       <<cap[l], l, h>> \notin Refuses \/ <<cap[h], h, l>> \notin Refuses
  /\ \A l \in waiters' : ~Admissible(l, holders', cap)
  /\ \A l \in waiters' : \A h \in Named(l, holders', cap) : preemptFired'[h]

LEMMA ScheduleAdmits ==
  ASSUME NEW H \in SUBSET Leases, NEW W \in SUBSET Leases,
         NEW st, NEW pr, NEW sq, NEW cap,
         \A l \in W : cap[l] \in Captures,
         ScheduleAdmission(H, W, st, pr, sq, cap)
  PROVE  \E P : Admission(P, H, W, st, pr, cap)
<1>0. PICK run :
        IsRun(run, H, W, sq, cap)
          /\ AfterRun(run, Promoted(run, Len(run)), H, W, st, pr, sq, cap)
  BY DEF ScheduleAdmission
<1> DEFINE n == Len(run)
           won == Promoted(run, n)
           stint(l) == IF l \in won THEN CHOOSE i \in 1..n : run[i] = l ELSE 0
<1>1. IsRun(run, H, W, sq, cap)
  BY <1>0
<1>2. run \in Seq(W) /\ n \in Nat
  BY <1>1 DEF IsRun
<1>3. \A i \in 1..n : /\ run[i] \in W
                      /\ Admissible(run[i], H \cup Promoted(run, i - 1), cap)
  BY <1>1 DEF IsRun, Wins
<1>4. won \subseteq W
  BY <1>2, PromotedPending
<1>5. /\ holders' = H \cup won
      /\ waiters' = W \ won
      /\ status' = [l \in Leases |-> IF l \in won THEN "holding" ELSE st[l]]
      /\ promise' = [l \in Leases |-> IF l \in won THEN "resolved" ELSE pr[l]]
      /\ preemptFired' = [l \in Leases |->
           \/ l \notin won /\ preemptFired[l]
           \/ \E i \in stint(l)..n : l \in FiredInPass(run, i, H, W, sq, cap)]
  BY <1>0 DEF AfterRun
<1>6. \A l \in won : ~IsMaintenance(l)
  BY <1>3 DEF Promoted, Admissible
<1>7. \A l \in won, h \in H : Overlap(l, h) =>
        ~IsMaintenance(h) /\ <<cap[l], l, h>> \notin Refuses
  <2> TAKE l \in won, h \in H
  <2> HAVE Overlap(l, h)
  <2>1. PICK i \in 1..n : l = run[i]
    BY DEF Promoted
  <2>2. Admissible(l, H \cup Promoted(run, i - 1), cap)
    BY <1>3, <2>1
  <2>3. H \cup Promoted(run, i - 1) \in SUBSET Leases
    BY <1>2, <2>1, PromotedPending
  <2> QED BY <1>4, <2>2, <2>3, AdmissibleBeside
<1>8. \A l, h \in won : l # h /\ Overlap(l, h) =>
        <<cap[l], l, h>> \notin Refuses \/ <<cap[h], h, l>> \notin Refuses
  <2>1. ASSUME NEW i \in 1..n, NEW j \in 1..n, i < j, Overlap(run[j], run[i])
        PROVE  <<cap[run[j]], run[j], run[i]>> \notin Refuses
    <3>1. run[i] \in H \cup Promoted(run, j - 1)
      BY <2>1, <1>2 DEF Promoted
    <3>2. H \cup Promoted(run, j - 1) \in SUBSET Leases
      BY <1>2, PromotedPending
    <3>3. run[j] \in W /\ Admissible(run[j], H \cup Promoted(run, j - 1), cap)
      BY <1>3
    <3> QED BY <2>1, <3>1, <3>2, <3>3, AdmissibleBeside
  <2> TAKE l, h \in won
  <2> HAVE l # h /\ Overlap(l, h)
  <2>2. PICK i \in 1..n, j \in 1..n : l = run[i] /\ h = run[j]
    BY DEF Promoted
  <2>3. i < j \/ j < i
    BY <2>2, <1>2
  <2> QED BY <2>1, <2>2, <2>3, OverlapSymmetric
<1>9. \A l \in waiters' : ~Admissible(l, holders', cap)
  BY <1>1, <1>5 DEF IsRun
<1>10. \A l \in waiters' : \A h \in Named(l, holders', cap) : preemptFired'[h]
  <2> TAKE l \in waiters'
  <2> TAKE h \in Named(l, holders', cap)
  <2>1. h \in FiredInPass(run, n, H, W, sq, cap)
    BY <1>5, <1>2 DEF FiredInPass
  <2>2. h \in Leases
    BY <1>4, <1>5 DEF Named, HoldersOn
  <2>3. stint(h) \in 0..n
    BY <1>2 DEF Promoted
  <2>4. (\E i \in stint(h)..n : h \in FiredInPass(run, i, H, W, sq, cap))
          => preemptFired'[h]
    BY <1>5, <2>2
  <2> HIDE DEF stint, n
  <2>5. n \in stint(h)..n
    BY <1>2, <2>3
  <2> QED BY <2>1, <2>4, <2>5
<1>11. preemptFired' \in [Leases -> BOOLEAN]
  BY <1>5
<1>12. Admission(won, H, W, st, pr, cap)
  BY <1>4, <1>5, <1>6, <1>7, <1>8, <1>9, <1>10, <1>11 DEF Admission
<1> QED BY <1>12
-----------------------------------------------------------------------------
(* The queues as a handler leaves them when it calls the admission loop.   *)
Statuses == {"none", "waiting", "holding", "suspended", "settled"}
Outcomes == {"none", "pending", "resolved", "rejected"}

Ready(H, W, st, pr, cap) ==
  /\ H = {l \in Leases : st[l] = "holding"}
  /\ W = {l \in Leases : st[l] \in {"waiting", "suspended"}}
  /\ st \in [Leases -> Statuses]
  /\ pr \in [Leases -> Outcomes]
  /\ cap \in [Leases -> Captures \cup {NoCapture}]
  /\ \A l \in Leases : st[l] # "none" => cap[l] \in Captures
  /\ \A l \in W : ~IsMaintenance(l) /\ pr[l] = "pending"
  /\ \A l \in H : ~IsMaintenance(l) => pr[l] = "resolved"
  /\ \A m, h \in H : IsMaintenance(m) /\ m # h => ~Overlap(m, h)
  /\ \A l, h \in H : l # h /\ Overlap(l, h) =>
       <<cap[l], l, h>> \notin Refuses \/ <<cap[h], h, l>> \notin Refuses

(* The part of the invariant that speaks of the queues. *)
QueueInv ==
  /\ holders \subseteq Leases
  /\ waiters \subseteq Leases
  /\ status \in [Leases -> Statuses]
  /\ promise \in [Leases -> Outcomes]
  /\ preemptFired \in [Leases -> BOOLEAN]
  /\ captured \in [Leases -> Captures \cup {NoCapture}]
  /\ QueuesAgree
  /\ CapturedOnce
  /\ MaintenanceAlone
  /\ HoldersCompatible
  /\ NoMissedAdmission
  /\ NoMissedPreemption

(* The admission loop turns queues that are ready into queues that satisfy *)
(* the invariant.                                                          *)
LEMMA AdmissionEstablishes ==
  ASSUME NEW H, NEW W, NEW st, NEW pr, NEW sq, NEW cap,
         Ready(H, W, st, pr, cap),
         ScheduleAdmission(H, W, st, pr, sq, cap),
         captured' = cap
  PROVE  QueueInv'
<1>1. H \in SUBSET Leases /\ W \in SUBSET Leases /\ H \cap W = {}
  BY DEF Ready
<1>2. \A l \in W : cap[l] \in Captures
  BY DEF Ready
<1>3. PICK P : Admission(P, H, W, st, pr, cap)
  BY <1>1, <1>2, ScheduleAdmits
<1>4. P \subseteq W /\ holders' = H \cup P /\ waiters' = W \ P
  BY <1>3 DEF Admission
<1>5. /\ status' \in [Leases -> Statuses]
      /\ promise' \in [Leases -> Outcomes]
      /\ preemptFired' \in [Leases -> BOOLEAN]
      /\ captured' \in [Leases -> Captures \cup {NoCapture}]
  BY <1>3 DEF Admission, Ready, Statuses, Outcomes
<1>6. QueuesAgree'
  <2>1. \A l \in Leases : status'[l] = IF l \in P THEN "holding" ELSE st[l]
    BY <1>3 DEF Admission
  <2>2. \A l \in Leases : promise'[l] = IF l \in P THEN "resolved" ELSE pr[l]
    BY <1>3 DEF Admission
  <2>3. holders' = {l \in Leases : status'[l] = "holding"}
    BY <1>1, <1>4, <2>1 DEF Ready
  <2>4. waiters' = {l \in Leases : status'[l] \in {"waiting", "suspended"}}
    BY <1>1, <1>4, <2>1 DEF Ready
  <2>5. \A l \in waiters' : ~IsMaintenance(l) /\ promise'[l] = "pending"
    BY <1>1, <1>4, <2>2 DEF Ready
  <2>6. \A l \in holders' : ~IsMaintenance(l) => promise'[l] = "resolved"
    BY <1>1, <1>4, <2>2 DEF Ready
  <2> QED BY <2>3, <2>4, <2>5, <2>6 DEF QueuesAgree
<1>7. CapturedOnce'
  BY <1>1, <1>2, <1>3, <1>4 DEF CapturedOnce, Admission, Ready
<1>8. MaintenanceAlone'
  BY <1>3, <1>4, OverlapSymmetric DEF MaintenanceAlone, Admission, Ready
<1>9. HoldersCompatible'
  BY <1>3, <1>4, OverlapSymmetric DEF HoldersCompatible, Admission, Ready
<1>10. NoMissedAdmission' /\ NoMissedPreemption'
  BY <1>3 DEF NoMissedAdmission, NoMissedPreemption, Admission
<1> QED BY <1>1, <1>4, <1>5, <1>6, <1>7, <1>8, <1>9, <1>10 DEF QueueInv

LEMMA InvQueues == IInv => QueueInv
BY DEF IInv, QueueInv, TypeOK, Statuses, Outcomes

-----------------------------------------------------------------------------
(* Every handler leaves the queues ready for the loop. *)

LEMMA ReleaseReady ==
  ASSUME QueueInv, NEW l \in Leases, status[l] # "none"
  PROVE  Ready(holders \ {l}, waiters \ {l},
               [status EXCEPT ![l] = "settled"], promise, captured)
<1> DEFINE st == [status EXCEPT ![l] = "settled"]
<1>1. st \in [Leases -> Statuses]
  BY DEF QueueInv, Statuses
<1>2. \A k \in Leases : st[k] = IF k = l THEN "settled" ELSE status[k]
  BY DEF QueueInv
<1> QED BY <1>1, <1>2
     DEF QueueInv, Ready, QueuesAgree, CapturedOnce, MaintenanceAlone, HoldersCompatible

LEMMA AbortReady ==
  ASSUME QueueInv, NEW l \in Leases, status[l] \notin {"none", "holding"}
  PROVE  Ready(holders, waiters \ {l}, [status EXCEPT ![l] = "settled"],
               [promise EXCEPT ![l] = "rejected"], captured)
<1> DEFINE st == [status EXCEPT ![l] = "settled"]
           pr == [promise EXCEPT ![l] = "rejected"]
<1>1. st \in [Leases -> Statuses] /\ pr \in [Leases -> Outcomes]
  BY DEF QueueInv, Statuses, Outcomes
<1>2. \A k \in Leases : st[k] = IF k = l THEN "settled" ELSE status[k]
  BY DEF QueueInv
<1>3. \A k \in Leases \ {l} : pr[k] = promise[k]
  BY DEF QueueInv
<1> QED BY <1>1, <1>2, <1>3
     DEF QueueInv, Ready, QueuesAgree, CapturedOnce, MaintenanceAlone, HoldersCompatible

LEMMA YieldReady ==
  ASSUME QueueInv, NEW l \in holders, ~IsMaintenance(l)
  PROVE  Ready(holders \ {l}, waiters \cup {l}, [status EXCEPT ![l] = "suspended"],
               [promise EXCEPT ![l] = "pending"], captured)
<1> DEFINE st == [status EXCEPT ![l] = "suspended"]
           pr == [promise EXCEPT ![l] = "pending"]
<1>1. l \in Leases /\ status[l] = "holding"
  BY DEF QueueInv, QueuesAgree
<1>2. st \in [Leases -> Statuses] /\ pr \in [Leases -> Outcomes]
  BY DEF QueueInv, Statuses, Outcomes
<1>3. \A k \in Leases : st[k] = IF k = l THEN "suspended" ELSE status[k]
  BY DEF QueueInv
<1>4. \A k \in Leases : pr[k] = IF k = l THEN "pending" ELSE promise[k]
  BY DEF QueueInv
<1> QED BY <1>1, <1>2, <1>3, <1>4
     DEF QueueInv, Ready, QueuesAgree, CapturedOnce, MaintenanceAlone, HoldersCompatible

LEMMA AcquireReady ==
  ASSUME QueueInv, NEW l \in Leases, NEW c \in Captures,
         ~IsMaintenance(l), status[l] = "none"
  PROVE  Ready(holders, waiters \cup {l}, [status EXCEPT ![l] = "waiting"],
               [promise EXCEPT ![l] = "pending"], [captured EXCEPT ![l] = c])
<1> DEFINE st == [status EXCEPT ![l] = "waiting"]
           pr == [promise EXCEPT ![l] = "pending"]
           cap == [captured EXCEPT ![l] = c]
<1>1. /\ st \in [Leases -> Statuses] /\ pr \in [Leases -> Outcomes]
      /\ cap \in [Leases -> Captures \cup {NoCapture}]
  BY DEF QueueInv, Statuses, Outcomes
<1>2. \A k \in Leases : st[k] = IF k = l THEN "waiting" ELSE status[k]
  BY DEF QueueInv
<1>3. \A k \in Leases : pr[k] = IF k = l THEN "pending" ELSE promise[k]
  BY DEF QueueInv
<1>4. \A k \in Leases : cap[k] = IF k = l THEN c ELSE captured[k]
  BY DEF QueueInv
<1>5. l \notin holders
  BY DEF QueueInv, QueuesAgree
<1> QED BY <1>1, <1>2, <1>3, <1>4, <1>5
     DEF QueueInv, Ready, QueuesAgree, CapturedOnce, MaintenanceAlone, HoldersCompatible

-----------------------------------------------------------------------------
(* Every action preserves the part of the invariant about the queues. *)

LEMMA AcquireQueues ==
  ASSUME QueueInv, NEW l \in Leases, NEW c \in Captures, NEW b \in BOOLEAN,
         Acquire(l, c, b)
  PROVE  QueueInv'
<1>1. ~IsMaintenance(l) /\ status[l] = "none" /\ captured' = [captured EXCEPT ![l] = c]
  BY DEF Acquire, CreateLease
<1>2. ScheduleAdmission(holders, waiters \cup {l}, [status EXCEPT ![l] = "waiting"],
                        [promise EXCEPT ![l] = "pending"], seq', captured')
  BY DEF Acquire
<1>3. Ready(holders, waiters \cup {l}, [status EXCEPT ![l] = "waiting"],
            [promise EXCEPT ![l] = "pending"], captured')
  BY <1>1, AcquireReady
<1> QED BY <1>2, <1>3, AdmissionEstablishes

LEMMA YieldQueues ==
  ASSUME QueueInv, NEW l \in Leases, Yield(l)
  PROVE  QueueInv'
BY YieldReady, AdmissionEstablishes DEF Yield, requestVars

LEMMA ReleaseQueues ==
  ASSUME QueueInv, NEW l \in Leases, status[l] # "none", ReleaseLease(l),
         captured' = captured
  PROVE  QueueInv'
BY ReleaseReady, AdmissionEstablishes DEF ReleaseLease

LEMMA AbortQueues ==
  ASSUME QueueInv, NEW l \in Leases, status[l] # "none", AbortLease(l),
         captured' = captured
  PROVE  QueueInv'
<1>1. CASE status[l] = "holding"
  BY <1>1, ReleaseQueues DEF AbortLease
<1>2. CASE status[l] # "holding"
  BY <1>2, AbortReady, AdmissionEstablishes DEF AbortLease
<1> QED BY <1>1, <1>2

(* A maintenance lease joins the holders without a pass of the loop: it    *)
(* overlaps nothing, so no verdict changes.                                *)
LEMMA MaintenanceQueues ==
  ASSUME QueueInv, NEW l \in Leases, NEW c \in Captures, TryAcquireMaintenance(l, c)
  PROVE  QueueInv'
<1>1. /\ IsMaintenance(l) /\ status[l] = "none"
      /\ \A k \in holders \cup waiters : ~Overlap(k, l)
      /\ holders' = holders \cup {l} /\ waiters' = waiters
      /\ preemptFired' = preemptFired /\ promise' = promise
  BY DEF TryAcquireMaintenance, CreateLease
<1>2. \A k \in Leases : status'[k] = IF k = l THEN "holding" ELSE status[k]
  BY DEF TryAcquireMaintenance, QueueInv
<1>3. \A k \in Leases : captured'[k] = IF k = l THEN c ELSE captured[k]
  BY DEF TryAcquireMaintenance, CreateLease, QueueInv
<1>4. /\ status' \in [Leases -> Statuses]
      /\ captured' \in [Leases -> Captures \cup {NoCapture}]
  BY DEF TryAcquireMaintenance, CreateLease, QueueInv, Statuses
<1>5. l \notin holders /\ l \notin waiters
  BY <1>1 DEF QueueInv, QueuesAgree
<1>6. QueuesAgree' /\ CapturedOnce'
  BY <1>1, <1>2, <1>3, <1>5 DEF QueueInv, QueuesAgree, CapturedOnce
<1>7. MaintenanceAlone' /\ HoldersCompatible'
  BY <1>1, <1>3, <1>5, OverlapSymmetric
     DEF QueueInv, MaintenanceAlone, HoldersCompatible
<1>8. \A k \in waiters : HoldersOn(k, holders') = HoldersOn(k, holders)
  BY <1>1, OverlapSymmetric DEF HoldersOn
<1>9. \A k \in waiters : captured'[k] = captured[k]
  BY <1>3, <1>5 DEF QueueInv
<1>10. NoMissedAdmission'
  BY <1>1, <1>8, <1>9 DEF QueueInv, NoMissedAdmission, Admissible, UnderMaintenance
<1>11. NoMissedPreemption'
  BY <1>1, <1>8, <1>9 DEF QueueInv, NoMissedPreemption, Named, UnderMaintenance
<1> QED BY <1>1, <1>4, <1>6, <1>7, <1>10, <1>11 DEF QueueInv
-----------------------------------------------------------------------------
(* The rest of the invariant: the types of the other variables, and that a *)
(* queued abort belongs to a request.  Each step either runs the queues'   *)
(* handlers or leaves them alone.                                          *)
RestInv ==
  /\ seq \in [Leases -> Nat]
  /\ nextSeq \in Nat
  /\ abortQueued \in [Leases -> BOOLEAN]
  /\ swapMark \in 0..nextSeq
  /\ contMark \in 0..nextSeq
  /\ AbortsQueuedForRequests

LEMMA InvParts == IInv <=> QueueInv /\ RestInv
BY DEF IInv, QueueInv, RestInv, TypeOK, Statuses, Outcomes

LEMMA InvPartsNext == QueueInv' /\ RestInv' => IInv'
BY DEF IInv, QueueInv, RestInv, TypeOK, Statuses, Outcomes

(* A handler sets the status of one lease and runs the loop: no lease      *)
(* becomes unmade.                                                         *)
LEMMA RequestsStayMade ==
  ASSUME QueueInv, NEW l \in Leases, NEW s, s # "none",
         NEW H, NEW W, NEW pr, NEW sq, NEW cap,
         ScheduleAdmission(H, W, [status EXCEPT ![l] = s], pr, sq, cap)
  PROVE  \A k \in Leases : status[k] # "none" \/ k = l => status'[k] # "none"
<1>1. \A k \in Leases : [status EXCEPT ![l] = s][k] = IF k = l THEN s ELSE status[k]
  BY DEF QueueInv
<1>2. \A k \in Leases : status'[k] \in {"holding", [status EXCEPT ![l] = s][k]}
  BY DEF ScheduleAdmission, AfterRun
<1> QED BY <1>1, <1>2

LEMMA CreateLeaseTypes ==
  ASSUME RestInv, NEW l \in Leases, NEW c \in Captures, CreateLease(l, c)
  PROVE  /\ seq' \in [Leases -> Nat]
         /\ nextSeq' \in Nat
         /\ \A m \in 0..nextSeq : m \in 0..nextSeq'
BY DEF RestInv, CreateLease

THEOREM Inductive ==
  ASSUME IInv, [Next]_vars
  PROVE  IInv'
<1>1. QueueInv /\ RestInv
  BY InvParts
<1>2. ASSUME NEW l \in Leases, NEW c \in Captures, NEW b \in BOOLEAN, Acquire(l, c, b)
      PROVE  IInv'
  <2>1. QueueInv'
    BY <1>1, <1>2, AcquireQueues
  <2>2. CreateLease(l, c) /\ abortQueued' = [abortQueued EXCEPT ![l] = b]
        /\ swapMark' = swapMark /\ contMark' = contMark
    BY <1>2 DEF Acquire, timeVars
  <2>3. \A k \in Leases : status[k] # "none" \/ k = l => status'[k] # "none"
    BY <1>1, <1>2, RequestsStayMade DEF Acquire
  <2>4. AbortsQueuedForRequests'
    BY <1>1, <2>2, <2>3 DEF RestInv, AbortsQueuedForRequests, QueueInv
  <2>5. RestInv'
    BY <1>1, <2>2, <2>4, CreateLeaseTypes DEF RestInv
  <2> QED BY <2>1, <2>5, InvPartsNext
<1>3. ASSUME NEW l \in Leases, NEW c \in Captures, TryAcquireMaintenance(l, c)
      PROVE  IInv'
  <2>1. QueueInv'
    BY <1>1, <1>3, MaintenanceQueues
  <2>2. CreateLease(l, c) /\ abortQueued' = abortQueued
        /\ swapMark' = swapMark /\ contMark' = contMark
        /\ status' = [status EXCEPT ![l] = "holding"]
    BY <1>3 DEF TryAcquireMaintenance, timeVars
  <2>3. AbortsQueuedForRequests'
    BY <1>1, <2>2 DEF RestInv, AbortsQueuedForRequests, QueueInv
  <2>4. RestInv'
    BY <1>1, <2>2, <2>3, CreateLeaseTypes DEF RestInv
  <2> QED BY <2>1, <2>4, InvPartsNext
<1>4. ASSUME NEW l \in Leases, Yield(l)
      PROVE  IInv'
  <2>1. QueueInv'
    BY <1>1, <1>4, YieldQueues
  <2>2. \A k \in Leases : status[k] # "none" => status'[k] # "none"
    BY <1>1, <1>4, RequestsStayMade DEF Yield, QueueInv
  <2>3. AbortsQueuedForRequests'
    BY <1>1, <1>4, <2>2 DEF Yield, RestInv, AbortsQueuedForRequests
  <2>4. RestInv'
    BY <1>1, <1>4, <2>3 DEF RestInv, Yield, requestVars, timeVars
  <2> QED BY <2>1, <2>4, InvPartsNext
<1>5. ASSUME NEW l \in Leases, status[l] # "none", ReleaseLease(l)
      PROVE  \A k \in Leases : status[k] # "none" => status'[k] # "none"
  BY <1>1, <1>5, RequestsStayMade DEF ReleaseLease
<1>6. ASSUME NEW l \in Leases, status[l] # "none", AbortLease(l)
      PROVE  \A k \in Leases : status[k] # "none" => status'[k] # "none"
  BY <1>1, <1>5, <1>6, RequestsStayMade DEF AbortLease
<1>7. ASSUME NEW l \in Leases, Release(l)
      PROVE  IInv'
  <2>1. status[l] # "none" /\ ReleaseLease(l) /\ captured' = captured
    BY <1>7 DEF Release, requestVars
  <2>2. QueueInv'
    BY <1>1, <2>1, ReleaseQueues
  <2>3. AbortsQueuedForRequests'
    BY <1>1, <1>5, <1>7, <2>1 DEF Release, RestInv, AbortsQueuedForRequests
  <2>4. RestInv'
    BY <1>1, <1>7, <2>3 DEF RestInv, Release, requestVars, timeVars
  <2> QED BY <2>2, <2>4, InvPartsNext
<1>8. ASSUME NEW l \in Leases, AbortSignal(l)
      PROVE  IInv'
  <2>1. status[l] # "none" /\ AbortLease(l) /\ captured' = captured
    BY <1>8 DEF AbortSignal, requestVars
  <2>2. QueueInv'
    BY <1>1, <2>1, AbortQueues
  <2>3. AbortsQueuedForRequests'
    BY <1>1, <1>6, <1>8, <2>1 DEF AbortSignal, RestInv, AbortsQueuedForRequests
  <2>4. RestInv'
    BY <1>1, <1>8, <2>3 DEF RestInv, AbortSignal, requestVars, timeVars
  <2> QED BY <2>2, <2>4, InvPartsNext
<1>9. ASSUME NEW l \in Leases, RunQueuedAbort(l)
      PROVE  IInv'
  <2>1. /\ status[l] # "none" /\ captured' = captured
        /\ abortQueued' = [abortQueued EXCEPT ![l] = FALSE]
    BY <1>1, <1>9 DEF RunQueuedAbort, requestVars, RestInv, AbortsQueuedForRequests
  <2>2. CASE status[l] = "settled"
    <3>1. UNCHANGED <<queueVars, requestVars, timeVars>>
      BY <1>9, <2>2 DEF RunQueuedAbort
    <3>2. QueueInv'
      BY <1>1, <3>1
         DEF QueueInv, QueuesAgree, CapturedOnce, MaintenanceAlone, HoldersCompatible,
             NoMissedAdmission, NoMissedPreemption, queueVars, requestVars
    <3>3. RestInv'
      BY <1>1, <2>1, <3>1
         DEF RestInv, AbortsQueuedForRequests, queueVars, requestVars, timeVars
    <3> QED BY <3>2, <3>3, InvPartsNext
  <2>3. CASE status[l] # "settled"
    <3>1. AbortLease(l)
      BY <1>9, <2>3 DEF RunQueuedAbort
    <3>2. QueueInv'
      BY <1>1, <2>1, <3>1, AbortQueues
    <3>3. AbortsQueuedForRequests'
      BY <1>1, <1>6, <2>1, <3>1 DEF RestInv, AbortsQueuedForRequests
    <3>4. RestInv'
      BY <1>1, <1>9, <2>1, <3>3 DEF RunQueuedAbort, RestInv, requestVars, timeVars
    <3> QED BY <3>2, <3>4, InvPartsNext
  <2> QED BY <2>2, <2>3
<1>10. CASE PassSwapWindow \/ PassContinuationWindow \/ UNCHANGED vars
  <2>1. /\ UNCHANGED <<queueVars, requestVars, abortQueued>>
        /\ swapMark' \in 0..nextSeq /\ contMark' \in 0..nextSeq
    BY <1>1, <1>10
       DEF PassSwapWindow, PassContinuationWindow, vars, timeVars, RestInv
  <2>2. QueueInv'
    BY <1>1, <2>1
       DEF QueueInv, QueuesAgree, CapturedOnce, MaintenanceAlone, HoldersCompatible,
           NoMissedAdmission, NoMissedPreemption, queueVars, requestVars
  <2>3. RestInv'
    BY <1>1, <2>1 DEF RestInv, AbortsQueuedForRequests, queueVars, requestVars
  <2> QED BY <2>2, <2>3, InvPartsNext
<1> QED BY <1>2, <1>3, <1>4, <1>7, <1>8, <1>9, <1>10 DEF Next

THEOREM Initial == Init => IInv
BY DEF Init, IInv, TypeOK, QueuesAgree, CapturedOnce, AbortsQueuedForRequests,
       MaintenanceAlone, HoldersCompatible, NoMissedAdmission, NoMissedPreemption

THEOREM Invariance == Spec => []IInv
BY Initial, Inductive, PTL DEF Spec

(* The variables keep their types. *)
THEOREM TypeCorrect == Spec => []TypeOK
<1>1. IInv => TypeOK BY DEF IInv
<1> QED BY <1>1, Invariance, PTL

(* holders, waiters, status and the callers' promises never disagree. *)
THEOREM QueuesAlwaysAgree == Spec => []QueuesAgree
<1>1. IInv => QueuesAgree BY DEF IInv
<1> QED BY <1>1, Invariance, PTL

(* A maintenance lease shares its domains with no other holder.            *)
THEOREM MaintenanceExclusion == Spec => []MaintenanceAlone
<1>1. IInv => MaintenanceAlone BY DEF IInv
<1> QED BY <1>1, Invariance, PTL

(* Two leases whose policies refuse each other never hold overlapping      *)
(* domains together.                                                       *)
THEOREM PolicyExclusion == Spec => []HoldersCompatible
<1>1. IInv => HoldersCompatible BY DEF IInv
<1> QED BY <1>1, Invariance, PTL

(* No lost wakeup: a queued lease is never left admissible.                *)
THEOREM NoLostWakeup == Spec => []NoMissedAdmission
<1>1. IInv => NoMissedAdmission BY DEF IInv
<1> QED BY <1>1, Invariance, PTL

(* No lost preemption request: every holder a queued lease asks to preempt *)
(* has been signalled.                                                     *)
THEOREM NoLostPreemption == Spec => []NoMissedPreemption
<1>1. IInv => NoMissedPreemption BY DEF IInv
<1> QED BY <1>1, Invariance, PTL

-----------------------------------------------------------------------------
(* The action properties. *)

(* The loop touches no lease that is not pending. *)
LEMMA LoopMovesWaiters ==
  ASSUME NEW H, NEW W, NEW st, NEW pr, NEW sq, NEW cap, NEW k \in Leases, k \notin W,
         ScheduleAdmission(H, W, st, pr, sq, cap)
  PROVE  /\ status'[k] = st[k]
         /\ promise'[k] = pr[k]
<1>1. PICK run : run \in Seq(W) /\ AfterRun(run, Promoted(run, Len(run)), H, W, st, pr, sq, cap)
  BY DEF ScheduleAdmission, IsRun
<1>2. Promoted(run, Len(run)) \subseteq W
  BY <1>1, PromotedPending
<1> QED BY <1>1, <1>2 DEF AfterRun

LEMMA SettledKept ==
  ASSUME QueueInv, NEW l \in Leases, status[l] # "settled",
         NEW s, NEW pr, NEW H, NEW W, NEW sq, NEW cap,
         W \subseteq waiters \cup {l}, \A k \in Leases \ {l} : pr[k] = promise[k],
         ScheduleAdmission(H, W, [status EXCEPT ![l] = s], pr, sq, cap)
  PROVE  \A k \in Leases : status[k] = "settled"
           => status'[k] = "settled" /\ promise'[k] = promise[k]
<1> SUFFICES ASSUME NEW k \in Leases, status[k] = "settled"
             PROVE  status'[k] = "settled" /\ promise'[k] = promise[k]
  OBVIOUS
<1>1. k # l /\ k \notin W
  BY DEF QueueInv, QueuesAgree
<1>2. [status EXCEPT ![l] = s][k] = "settled"
  BY <1>1 DEF QueueInv
<1> DEFINE st == [status EXCEPT ![l] = s]
<1>3. ScheduleAdmission(H, W, st, pr, sq, cap)
  OBVIOUS
<1>4. status'[k] = st[k] /\ promise'[k] = pr[k]
  <2> HIDE DEF st
  <2> QED BY <1>1, <1>3, LoopMovesWaiters
<1> QED BY <1>1, <1>2, <1>4

LEMMA AbortSettled ==
  ASSUME QueueInv, NEW l \in Leases, status[l] # "settled",
         ReleaseLease(l) \/ AbortLease(l)
  PROVE  \A k \in Leases : status[k] = "settled"
           => status'[k] = "settled" /\ promise'[k] = promise[k]
<1>1. \A k \in Leases \ {l} : [promise EXCEPT ![l] = "rejected"][k] = promise[k]
  BY DEF QueueInv
<1>2. ASSUME ReleaseLease(l)
      PROVE  \A k \in Leases : status[k] = "settled"
               => status'[k] = "settled" /\ promise'[k] = promise[k]
  BY <1>2, SettledKept DEF ReleaseLease
<1>3. CASE status[l] = "holding"
  BY <1>2, <1>3 DEF AbortLease
<1>4. ASSUME status[l] # "holding", AbortLease(l)
      PROVE  \A k \in Leases : status[k] = "settled"
               => status'[k] = "settled" /\ promise'[k] = promise[k]
  <2> DEFINE pr == [promise EXCEPT ![l] = "rejected"]
  <2>1. ScheduleAdmission(holders, waiters \ {l}, [status EXCEPT ![l] = "settled"],
                          pr, seq, captured)
    BY <1>4 DEF AbortLease
  <2>2. \A k \in Leases \ {l} : pr[k] = promise[k]
    BY <1>1
  <2> HIDE DEF pr
  <2> QED BY <2>1, <2>2, SettledKept
<1> QED BY <1>2, <1>3, <1>4

(* A settled lease is final. *)
THEOREM Settled == Spec => SettledForGood
<1> DEFINE Kept == \A l \in Leases : status[l] = "settled"
                     => status'[l] = "settled" /\ promise'[l] = promise[l]
<1>1. ASSUME IInv, [Next]_vars PROVE Kept
  <2>1. QueueInv
    BY <1>1, InvQueues
  <2>2. ASSUME NEW l \in Leases, NEW c \in Captures, NEW b \in BOOLEAN, Acquire(l, c, b)
        PROVE  Kept
    <3>1. status[l] # "settled"
      BY <2>2 DEF Acquire, CreateLease
    <3>2. \A k \in Leases \ {l} : [promise EXCEPT ![l] = "pending"][k] = promise[k]
      BY <2>1 DEF QueueInv
    <3> QED BY <2>1, <2>2, <3>1, <3>2, SettledKept DEF Acquire
  <2>3. ASSUME NEW l \in Leases, NEW c \in Captures, TryAcquireMaintenance(l, c)
        PROVE  Kept
    BY <2>1, <2>3 DEF TryAcquireMaintenance, CreateLease, QueueInv
  <2>4. ASSUME NEW l \in Leases, Yield(l) PROVE Kept
    <3>1. status[l] # "settled"
      BY <2>1, <2>4 DEF Yield, QueueInv, QueuesAgree
    <3>2. \A k \in Leases \ {l} : [promise EXCEPT ![l] = "pending"][k] = promise[k]
      BY <2>1 DEF QueueInv
    <3> QED BY <2>1, <2>4, <3>1, <3>2, SettledKept DEF Yield
  <2>5. ASSUME NEW l \in Leases, Release(l) \/ AbortSignal(l) \/ RunQueuedAbort(l)
        PROVE  Kept
    <3>1. CASE status[l] = "settled"
      BY <2>5, <3>1 DEF Release, AbortSignal, RunQueuedAbort, queueVars
    <3>2. CASE status[l] # "settled"
      BY <2>1, <2>5, <3>2, AbortSettled DEF Release, AbortSignal, RunQueuedAbort
    <3> QED BY <3>1, <3>2
  <2>6. CASE PassSwapWindow \/ PassContinuationWindow \/ UNCHANGED vars
    BY <2>6 DEF PassSwapWindow, PassContinuationWindow, vars, queueVars
  <2> QED BY <1>1, <2>2, <2>3, <2>4, <2>5, <2>6 DEF Next
<1>2. IInv /\ [Next]_vars => [Kept]_vars
  BY <1>1
<1> QED BY <1>2, Invariance, PTL DEF Spec, SettledForGood

(* A loop run on part of the holders admits nothing that refuses one of    *)
(* them.                                                                   *)
LEMMA BarrierHolds ==
  ASSUME NEW H, NEW W, NEW st, NEW pr, NEW sq, NEW cap,
         Ready(H, W, st, pr, cap), ScheduleAdmission(H, W, st, pr, sq, cap),
         NEW l \in holders', l \notin H, NEW h \in H \cup holders', h \notin W, Overlap(l, h)
  PROVE  <<cap[l], l, h>> \notin Refuses
<1>1. H \in SUBSET Leases /\ W \in SUBSET Leases /\ \A k \in W : cap[k] \in Captures
  BY DEF Ready
<1>2. PICK P : Admission(P, H, W, st, pr, cap)
  BY <1>1, ScheduleAdmits
<1> QED BY <1>2 DEF Admission

(* Nothing is admitted over a holder its policy refuses to run beside      *)
(* until that holder gives way.                                            *)
THEOREM Barrier == Spec => PreemptionBarrier
<1> DEFINE Guarded ==
      \A l \in holders' \ holders : \A h \in holders \cap holders' :
        Overlap(l, h) /\ ~IsMaintenance(l) /\ <<captured'[l], l, h>> \in Refuses
          => Yield(h)
<1>1. ASSUME IInv, [Next]_vars PROVE Guarded
  <2>1. QueueInv
    BY <1>1, InvQueues
  <2>2. holders \cap waiters = {} /\ \A k \in Leases : status[k] = "none" => k \notin holders
    BY <2>1 DEF QueueInv, QueuesAgree
  <2>3. ASSUME NEW l \in Leases, NEW c \in Captures, NEW b \in BOOLEAN, Acquire(l, c, b)
        PROVE  Guarded
    <3> DEFINE W == waiters \cup {l}
               st == [status EXCEPT ![l] = "waiting"]
               pr == [promise EXCEPT ![l] = "pending"]
    <3> SUFFICES ASSUME NEW k \in holders' \ holders, NEW h \in holders \cap holders',
                        Overlap(k, h)
                 PROVE  <<captured'[k], k, h>> \notin Refuses
      OBVIOUS
    <3>1. ScheduleAdmission(holders, W, st, pr, seq', captured')
      BY <2>3 DEF Acquire
    <3>2. status[l] = "none" /\ ~IsMaintenance(l)
          /\ captured' = [captured EXCEPT ![l] = c]
      BY <2>3 DEF Acquire, CreateLease
    <3>3. Ready(holders, W, st, pr, captured')
      BY <2>1, <3>2, AcquireReady
    <3>4. h \notin W
      BY <2>2, <3>2
    <3> HIDE DEF W, st, pr
    <3> QED BY <3>1, <3>3, <3>4, BarrierHolds
  <2>4. ASSUME NEW l \in Leases, NEW c \in Captures, TryAcquireMaintenance(l, c)
        PROVE  Guarded
    BY <2>4 DEF TryAcquireMaintenance
  <2>5. ASSUME NEW l \in Leases, Yield(l) PROVE Guarded
    <3> SUFFICES ASSUME NEW k \in holders' \ holders, NEW h \in holders \cap holders',
                        h # l, Overlap(k, h)
                 PROVE  <<captured'[k], k, h>> \notin Refuses
      BY <2>5
    <3>1. captured' = captured /\ l \in holders /\ ~IsMaintenance(l)
      BY <2>5 DEF Yield, requestVars
    <3> QED BY <2>1, <2>2, <2>5, <3>1, YieldReady, BarrierHolds DEF Yield
  <2>6. ASSUME NEW l \in Leases, status[l] # "none", ReleaseLease(l), captured' = captured
        PROVE  Guarded
    BY <2>1, <2>2, <2>6, ReleaseReady, BarrierHolds DEF ReleaseLease
  <2>7. ASSUME NEW l \in Leases, status[l] # "none", AbortLease(l), captured' = captured
        PROVE  Guarded
    <3>1. CASE status[l] = "holding"
      BY <2>6, <2>7, <3>1 DEF AbortLease
    <3>2. CASE status[l] # "holding"
      BY <2>1, <2>2, <2>7, <3>2, AbortReady, BarrierHolds DEF AbortLease
    <3> QED BY <3>1, <3>2
  <2>8. ASSUME NEW l \in Leases, Release(l) \/ AbortSignal(l) \/ RunQueuedAbort(l)
        PROVE  Guarded
    <3>1. captured' = captured /\ status[l] # "none"
      BY <1>1, <2>8
         DEF Release, AbortSignal, RunQueuedAbort, requestVars, IInv, AbortsQueuedForRequests
    <3>2. CASE UNCHANGED queueVars
      BY <3>2 DEF queueVars
    <3> QED BY <2>6, <2>7, <2>8, <3>1, <3>2 DEF Release, AbortSignal, RunQueuedAbort
  <2>9. CASE PassSwapWindow \/ PassContinuationWindow \/ UNCHANGED vars
    BY <2>9 DEF PassSwapWindow, PassContinuationWindow, vars, queueVars
  <2> QED BY <1>1, <2>3, <2>4, <2>5, <2>8, <2>9 DEF Next
<1> QED BY <1>1, Invariance, PTL DEF Spec, PreemptionBarrier
-----------------------------------------------------------------------------
(* Who goes first, and with what signal. *)

(* A step that starts a stint of a lease, other than a maintenance lease,  *)
(* runs the admission loop: on the holders H that were there, without the  *)
(* one that yields if there is one, and on leases W that were not.         *)
LoopRan(l, H, W, st, pr) ==
  /\ ScheduleAdmission(H, W, st, pr, seq', captured')
  /\ H \in SUBSET Leases /\ W \in SUBSET Leases /\ l \notin H
  /\ \A h \in holders' : ~StartsStint(h) => h \in H
  /\ \A k \in W : k \notin holders \/ Yield(k)
  /\ H \cap W = {}

LEMMA StintByLoop ==
  ASSUME IInv, [Next]_vars, NEW l \in Leases, StartsStint(l), ~IsMaintenance(l)
  PROVE  \E H, W, st, pr : LoopRan(l, H, W, st, pr)
<1>0. /\ holders \in SUBSET Leases /\ waiters \in SUBSET Leases
      /\ holders \cap waiters = {}
      /\ \A k \in Leases : status[k] = "none" => k \notin holders /\ k \notin waiters
      /\ l \in holders'
  BY DEF IInv, TypeOK, QueuesAgree, StartsStint
<1>1. ASSUME NEW k \in Leases, Yield(k), l \in holders => k = l
      PROVE  \E H, W, st, pr : LoopRan(l, H, W, st, pr)
  <2>1. /\ k \in holders
        /\ ScheduleAdmission(holders \ {k}, waiters \cup {k}, [status EXCEPT ![k] = "suspended"],
                             [promise EXCEPT ![k] = "pending"], seq', captured')
    BY <1>1 DEF Yield, requestVars
  <2>2. \A h \in holders' : ~StartsStint(h) => h \in holders \ {k}
    BY <1>1 DEF StartsStint
  <2>3. LoopRan(l, holders \ {k}, waiters \cup {k}, [status EXCEPT ![k] = "suspended"],
                [promise EXCEPT ![k] = "pending"])
    BY <1>0, <1>1, <2>1, <2>2 DEF LoopRan
  <2> QED BY <2>3
<1>2. CASE Yield(l)
  BY <1>1, <1>2
<1>3. CASE l \notin holders
  <2>1. ASSUME NEW k \in Leases, NEW c \in Captures, NEW b \in BOOLEAN, Acquire(k, c, b)
        PROVE  \E H, W, st, pr : LoopRan(l, H, W, st, pr)
    <3>1. /\ status[k] = "none"
          /\ ScheduleAdmission(holders, waiters \cup {k}, [status EXCEPT ![k] = "waiting"],
                               [promise EXCEPT ![k] = "pending"], seq', captured')
      BY <2>1 DEF Acquire, CreateLease
    <3>2. LoopRan(l, holders, waiters \cup {k}, [status EXCEPT ![k] = "waiting"],
                  [promise EXCEPT ![k] = "pending"])
      BY <1>0, <1>3, <3>1 DEF LoopRan, StartsStint
    <3> QED BY <3>2
  <2>2. ASSUME NEW k \in Leases, NEW c \in Captures, TryAcquireMaintenance(k, c)
        PROVE  FALSE
    BY <1>0, <1>3, <2>2 DEF TryAcquireMaintenance
  <2>3. ASSUME NEW k \in Leases, Yield(k)
        PROVE  \E H, W, st, pr : LoopRan(l, H, W, st, pr)
    BY <1>1, <1>3, <2>3
  <2>4. ASSUME NEW k \in Leases, ReleaseLease(k), UNCHANGED requestVars
        PROVE  \E H, W, st, pr : LoopRan(l, H, W, st, pr)
    <3>1. ScheduleAdmission(holders \ {k}, waiters \ {k}, [status EXCEPT ![k] = "settled"],
                            promise, seq', captured')
      BY <2>4 DEF ReleaseLease, requestVars
    <3>2. k \notin holders'
      <4>1. PICK run : /\ run \in Seq(waiters \ {k})
                       /\ holders' = (holders \ {k}) \cup Promoted(run, Len(run))
        BY <3>1 DEF ScheduleAdmission, IsRun, AfterRun
      <4>2. Promoted(run, Len(run)) \subseteq waiters \ {k}
        BY <4>1, PromotedPending
      <4> QED BY <4>1, <4>2
    <3>3. LoopRan(l, holders \ {k}, waiters \ {k}, [status EXCEPT ![k] = "settled"], promise)
      BY <1>0, <1>3, <3>1, <3>2 DEF LoopRan, StartsStint
    <3> QED BY <3>3
  <2>5. ASSUME NEW k \in Leases, AbortLease(k), UNCHANGED requestVars
        PROVE  \E H, W, st, pr : LoopRan(l, H, W, st, pr)
    <3>1. CASE status[k] = "holding"
      BY <2>4, <2>5, <3>1 DEF AbortLease
    <3>2. CASE status[k] # "holding"
      <4>1. ScheduleAdmission(holders, waiters \ {k}, [status EXCEPT ![k] = "settled"],
                              [promise EXCEPT ![k] = "rejected"], seq', captured')
        BY <2>5, <3>2 DEF AbortLease, requestVars
      <4>2. LoopRan(l, holders, waiters \ {k}, [status EXCEPT ![k] = "settled"],
                    [promise EXCEPT ![k] = "rejected"])
        BY <1>0, <1>3, <4>1 DEF LoopRan, StartsStint
      <4> QED BY <4>2
    <3> QED BY <3>1, <3>2
  <2>6. ASSUME NEW k \in Leases, Release(k) \/ AbortSignal(k) \/ RunQueuedAbort(k)
        PROVE  \E H, W, st, pr : LoopRan(l, H, W, st, pr)
    <3>1. UNCHANGED requestVars
      BY <2>6 DEF Release, AbortSignal, RunQueuedAbort
    <3>2. ~UNCHANGED queueVars
      BY <1>0, <1>3 DEF queueVars
    <3> QED BY <2>4, <2>5, <2>6, <3>1, <3>2 DEF Release, AbortSignal, RunQueuedAbort
  <2>7. CASE PassSwapWindow \/ PassContinuationWindow \/ UNCHANGED vars
    BY <1>0, <1>3, <2>7 DEF PassSwapWindow, PassContinuationWindow, vars, queueVars
  <2> QED BY <2>1, <2>2, <2>3, <2>6, <2>7 DEF Next
<1> QED BY <1>2, <1>3 DEF StartsStint

(* A queued lease keeps its place and its policy. *)
LEMMA CapturedKept ==
  ASSUME IInv, [Next]_vars, NEW k \in waiters
  PROVE  captured'[k] = captured[k] /\ seq'[k] = seq[k]
<1>1. k \in Leases /\ status[k] # "none"
  BY DEF IInv, TypeOK, QueuesAgree
<1>2. captured \in [Leases -> Captures \cup {NoCapture}] /\ seq \in [Leases -> Nat]
  BY DEF IInv, TypeOK
<1>3. ASSUME NEW l \in Leases, NEW c \in Captures, CreateLease(l, c)
      PROVE  captured'[k] = captured[k] /\ seq'[k] = seq[k]
  BY <1>1, <1>2, <1>3 DEF CreateLease
<1>4. CASE UNCHANGED requestVars
  BY <1>4 DEF requestVars
<1>5. ASSUME NEW l \in Leases,
             Yield(l) \/ Release(l) \/ AbortSignal(l) \/ RunQueuedAbort(l)
      PROVE  UNCHANGED requestVars
  BY <1>5 DEF Yield, Release, AbortSignal, RunQueuedAbort
<1>6. CASE PassSwapWindow \/ PassContinuationWindow \/ UNCHANGED vars
  BY <1>4, <1>6 DEF PassSwapWindow, PassContinuationWindow, vars
<1> QED BY <1>3, <1>4, <1>5, <1>6 DEF Next, Acquire, TryAcquireMaintenance

(* The lease that starts a stint came before every admissible lease that   *)
(* stays queued, in the pass that promoted it.                             *)
LEMMA PromotedInOrder ==
  ASSUME IInv, [Next]_vars, NEW k \in Leases, NEW l \in Leases, PassedOver(k, l)
  PROVE  \E X \in SUBSET (holders' \ {l}), W \in SUBSET Leases :
           k \in W /\ k # l /\ Before(l, k, X, W, seq')
<1>1. /\ StartsStint(l) /\ ~IsMaintenance(l) /\ l \in holders' /\ k \in waiters'
  BY DEF PassedOver, StartsStint
<1>2. PICK H, W, st, pr : LoopRan(l, H, W, st, pr)
  BY <1>1, StintByLoop
<1>3. PICK run : /\ IsRun(run, H, W, seq', captured')
                 /\ AfterRun(run, Promoted(run, Len(run)), H, W, st, pr, seq', captured')
  BY <1>2 DEF LoopRan, ScheduleAdmission
<1>4. /\ run \in Seq(W)
      /\ holders' = H \cup Promoted(run, Len(run))
      /\ waiters' = W \ Promoted(run, Len(run))
      /\ H \in SUBSET Leases /\ W \in SUBSET Leases /\ l \notin H
      /\ \A i \in 1..Len(run) :
           Wins(run[i], H \cup Promoted(run, i - 1), W \ Promoted(run, i - 1), seq', captured')
  BY <1>2, <1>3 DEF LoopRan, IsRun, AfterRun
<1>5. PICK i \in 1..Len(run) : l = run[i]
  BY <1>1, <1>4 DEF Promoted
<1> DEFINE X == H \cup Promoted(run, i - 1)
           left == W \ Promoted(run, i - 1)
<1>6. Promoted(run, i - 1) \subseteq Promoted(run, Len(run))
  BY <1>4, <1>5 DEF Promoted
<1>7. Wins(l, X, left, seq', captured')
  BY <1>4, <1>5
<1>8. l \in left /\ (\A j \in left \ {l} : Admissible(j, X, captured') => Before(l, j, X, left, seq'))
  BY <1>7 DEF Wins
<1>9. X \in SUBSET (holders' \ {l}) /\ k \in left /\ k # l
  BY <1>1, <1>4, <1>5, <1>6, <1>8 DEF Promoted
<1>10. {h \in holders' : ~StartsStint(h)} \subseteq X
  BY <1>2 DEF LoopRan
<1>11. Admissible(k, X, captured)
  <2> HIDE DEF X
  <2> QED BY <1>9, <1>10 DEF PassedOver
<1>12. captured'[k] = captured[k]
  <2>1. k \in waiters
    BY DEF PassedOver
  <2> QED BY <2>1, CapturedKept
<1>13. Admissible(k, X, captured')
  BY <1>11, <1>12 DEF Admissible
<1>14. Before(l, k, X, left, seq') /\ left \in SUBSET Leases
  BY <1>4, <1>8, <1>9, <1>13
<1> HIDE DEF X, left
<1> QED BY <1>9, <1>14

(* Nothing is admitted in a step while a request of a higher priority that *)
(* could have been is left in the queue.                                   *)
THEOREM PriorityComesFirst == Spec => PriorityFirst
<1> DEFINE Kept == \A k, l \in Leases : PriorityOf[k] > PriorityOf[l] => ~PassedOver(k, l)
<1>1. ASSUME IInv, [Next]_vars PROVE Kept
  <2> SUFFICES ASSUME NEW k \in Leases, NEW l \in Leases, PassedOver(k, l)
               PROVE  ~(PriorityOf[k] > PriorityOf[l])
    OBVIOUS
  <2>1. PICK X \in SUBSET (holders' \ {l}), W \in SUBSET Leases : Before(l, k, X, W, seq')
    BY <1>1, PromotedInOrder
  <2>2. PriorityOf[k] \in Int /\ PriorityOf[l] \in Int
    BY Requests DEF RequestAssumption
  <2>3. PriorityOf[l] > PriorityOf[k] \/ PriorityOf[l] = PriorityOf[k]
    BY <2>1 DEF Before
  <2> QED BY <2>2, <2>3
<1> QED BY <1>1, Invariance, PTL DEF Spec, PriorityFirst

(* A score is a small number. *)
LEMMA ScoreType ==
  ASSUME NEW l, NEW H, NEW W, NEW sq
  PROVE  Score(l, H, W, sq) \in 0..3
BY DEF Score

LEMMA SequenceNumbers ==
  ASSUME IInv, [Next]_vars, NEW l \in Leases
  PROVE  seq'[l] \in Nat /\ seq[l] \in Nat
<1>1. IInv' /\ IInv
  BY Inductive
<1>2. seq' \in [Leases -> Nat] /\ seq \in [Leases -> Nat]
  BY <1>1 DEF IInv, TypeOK
<1> QED BY <1>2

(* Requests of one kind are admitted in the order in which they came, and  *)
(* a preempted one resumes ahead of those that came after it.              *)
THEOREM SameKindComesInTurn == Spec => SameKindInTurn
<1> DEFINE Kept == \A k, l \in Leases :
                     SameKind(k, l) /\ seq'[k] < seq'[l] => ~PassedOver(k, l)
<1>1. ASSUME IInv, [Next]_vars PROVE Kept
  <2> SUFFICES ASSUME NEW k \in Leases, NEW l \in Leases, SameKind(k, l), PassedOver(k, l)
               PROVE  ~(seq'[k] < seq'[l])
    OBVIOUS
  <2>1. PICK X \in SUBSET (holders' \ {l}), W \in SUBSET Leases : Before(l, k, X, W, seq')
    BY <1>1, PromotedInOrder
  <2>2. /\ PriorityOf[k] \in Int /\ PriorityOf[l] = PriorityOf[k]
        /\ TargetOf[k] = TargetOf[l] /\ DomainsOf[k] = DomainsOf[l]
        /\ ContinuationOf[k] = ContinuationOf[l]
    BY Requests DEF RequestAssumption, SameKind
  <2>3. \A h : (Overlap(h, l) <=> Overlap(h, k))
    BY <2>2 DEF Overlap
  <2>4. HoldersOn(l, X) = HoldersOn(k, X)
    BY <2>3 DEF HoldersOn
  <2>5. Affine(l, X) <=> Affine(k, X)
    BY <2>2, <2>4 DEF Affine
  <2>6. AffinityApplies(l, X, W, seq') <=> AffinityApplies(k, X, W, seq')
    BY <2>3, <2>5 DEF AffinityApplies
  <2>7. ContinuationApplies(l, W, seq') <=> ContinuationApplies(k, W, seq')
    BY <2>2, <2>3 DEF ContinuationApplies
  <2>8. Score(l, X, W, seq') = Score(k, X, W, seq')
    BY <2>6, <2>7 DEF Score
  <2>9. seq'[l] < seq'[k]
    BY <2>1, <2>2, <2>8, ScoreType DEF Before
  <2> QED BY <1>1, <2>9, SequenceNumbers
<1> QED BY <1>1, Invariance, PTL DEF Spec, SameKindInTurn

(* A request that no preference favours and that is past both fairness     *)
(* windows is not overtaken by a later one of its priority.                *)
THEOREM StarvedComesInTurn == Spec => StarvedKeepsTurn
<1> DEFINE Kept == \A k, l \in Leases :
             /\ PriorityOf[k] = PriorityOf[l] /\ Overlap(k, l)
             /\ seq'[k] < seq'[l] /\ seq[k] < swapMark /\ seq[k] < contMark
             /\ ~ContinuationOf[k] /\ ~Affine(k, holders \cup holders')
             => ~PassedOver(k, l)
<1>1. ASSUME IInv, [Next]_vars PROVE Kept
  <2> SUFFICES ASSUME NEW k \in Leases, NEW l \in Leases,
                      PriorityOf[k] = PriorityOf[l], Overlap(k, l),
                      seq[k] < swapMark, seq[k] < contMark,
                      ~ContinuationOf[k], ~Affine(k, holders \cup holders'),
                      PassedOver(k, l)
               PROVE  ~(seq'[k] < seq'[l])
    OBVIOUS
  <2>1. PICK X \in SUBSET (holders' \ {l}), W \in SUBSET Leases :
          k \in W /\ Before(l, k, X, W, seq')
    BY <1>1, PromotedInOrder
  <2>2. seq'[k] = seq[k]
    <3>1. k \in waiters
      BY DEF PassedOver
    <3> QED BY <1>1, <3>1, CapturedKept
  <2>3. ~Affine(k, X)
    BY <2>1 DEF Affine, HoldersOn
  <2>4. ~AffinityApplies(l, X, W, seq')
    BY <2>1, <2>2, <2>3 DEF AffinityApplies
  <2>5. ~ContinuationApplies(l, W, seq')
    BY <2>1, <2>2 DEF ContinuationApplies
  <2>6. Score(l, X, W, seq') = 0
    BY <2>4, <2>5 DEF Score
  <2>7. Score(k, X, W, seq') \in 0..3 /\ PriorityOf[k] \in Int
    BY Requests, ScoreType DEF RequestAssumption
  <2>8. seq'[l] < seq'[k]
    BY <2>1, <2>6, <2>7 DEF Before
  <2> QED BY <1>1, <2>8, SequenceNumbers
<1> QED BY <1>1, Invariance, PTL DEF Spec, StarvedKeepsTurn

(* A maintenance lease is never signalled. *)
MaintenanceUnsignalled == \A l \in Leases : preemptFired[l] => ~IsMaintenance(l)

(* What the loop signals, it found named by a lease that was pending: one  *)
(* still queued, or one that the loop went on to promote.                  *)
LEMMA SignalsAskedFor ==
  ASSUME NEW H, NEW W, NEW st, NEW pr, NEW sq, NEW cap,
         ScheduleAdmission(H, W, st, pr, sq, cap), NEW h \in Leases, preemptFired'[h],
         ~preemptFired[h] \/ (h \in holders' /\ h \notin H)
  PROVE  \E k \in W, X \in SUBSET holders' :
           (k \in waiters' \/ k \in holders') /\ h \in Named(k, X, cap)
<1>1. PICK run : /\ run \in Seq(W)
                 /\ AfterRun(run, Promoted(run, Len(run)), H, W, st, pr, sq, cap)
  BY DEF ScheduleAdmission, IsRun
<1> DEFINE won == Promoted(run, Len(run))
           stint(l) == IF l \in won THEN CHOOSE i \in 1..Len(run) : run[i] = l ELSE 0
<1>2. /\ holders' = H \cup won /\ waiters' = W \ won
      /\ preemptFired'[h] = (\/ h \notin won /\ preemptFired[h]
                            \/ \E i \in stint(h)..Len(run) : h \in FiredInPass(run, i, H, W, sq, cap))
  BY <1>1 DEF AfterRun
<1>3. stint(h) \in 0..Len(run) /\ Len(run) \in Nat
  BY <1>1 DEF Promoted
<1>4. PICK i \in stint(h)..Len(run) : h \in FiredInPass(run, i, H, W, sq, cap)
  BY <1>2
<1>5. i \in 0..Len(run)
  <2> HIDE DEF stint
  <2> QED BY <1>3, <1>4
<1>6. PICK k \in W \ Promoted(run, i) : h \in Named(k, H \cup Promoted(run, i), cap)
  BY <1>4 DEF FiredInPass
<1>7. Promoted(run, i) \subseteq won
  BY <1>3, <1>5 DEF Promoted
<1>8. H \cup Promoted(run, i) \in SUBSET holders' /\ (k \in waiters' \/ k \in holders')
  BY <1>2, <1>6, <1>7
<1> QED BY <1>6, <1>8

LEMMA NamedIsRequest ==
  ASSUME NEW k, NEW X, NEW cap, NEW h \in Named(k, X, cap)
  PROVE  ~IsMaintenance(h)
BY DEF Named

LEMMA LoopSignals ==
  ASSUME MaintenanceUnsignalled,
         \E H, W, st, pr, sq, cap : ScheduleAdmission(H, W, st, pr, sq, cap)
  PROVE  MaintenanceUnsignalled'
<1>1. PICK H, W, st, pr, sq, cap : ScheduleAdmission(H, W, st, pr, sq, cap)
  OBVIOUS
<1> SUFFICES ASSUME NEW h \in Leases, preemptFired'[h] PROVE ~IsMaintenance(h)
  BY DEF MaintenanceUnsignalled, IsMaintenance
<1>2. CASE preemptFired[h]
  BY <1>2 DEF MaintenanceUnsignalled
<1>3. CASE ~preemptFired[h]
  <2>1. PICK k \in W, X \in SUBSET holders' : h \in Named(k, X, cap)
    BY <1>1, <1>3, SignalsAskedFor
  <2> QED BY <2>1, NamedIsRequest
<1> QED BY <1>2, <1>3

LEMMA SignalsStep ==
  ASSUME MaintenanceUnsignalled, [Next]_vars
  PROVE  MaintenanceUnsignalled'
<1>1. CASE UNCHANGED preemptFired
  BY <1>1 DEF MaintenanceUnsignalled, IsMaintenance
<1>2. ASSUME NEW l \in Leases, NEW c \in Captures, NEW b \in BOOLEAN, Acquire(l, c, b)
      PROVE  MaintenanceUnsignalled'
  BY <1>2, LoopSignals DEF Acquire
<1>3. ASSUME NEW l \in Leases, Yield(l) PROVE MaintenanceUnsignalled'
  BY <1>3, LoopSignals DEF Yield
<1>4. ASSUME NEW l \in Leases, ReleaseLease(l) PROVE MaintenanceUnsignalled'
  BY <1>4, LoopSignals DEF ReleaseLease
<1>5. ASSUME NEW l \in Leases, AbortLease(l) PROVE MaintenanceUnsignalled'
  BY <1>4, <1>5, LoopSignals DEF AbortLease
<1>6. ASSUME NEW l \in Leases, Release(l) \/ AbortSignal(l) \/ RunQueuedAbort(l)
      PROVE  MaintenanceUnsignalled'
  BY <1>1, <1>4, <1>5, <1>6 DEF Release, AbortSignal, RunQueuedAbort, queueVars
<1>7. ASSUME NEW l \in Leases, NEW c \in Captures, TryAcquireMaintenance(l, c)
      PROVE  MaintenanceUnsignalled'
  BY <1>1, <1>7 DEF TryAcquireMaintenance
<1>8. CASE PassSwapWindow \/ PassContinuationWindow \/ UNCHANGED vars
  BY <1>1, <1>8 DEF PassSwapWindow, PassContinuationWindow, vars, queueVars
<1> QED BY <1>2, <1>3, <1>6, <1>7, <1>8 DEF Next

(* A lease starts every stint with a signal of its own: what fires it is   *)
(* asked for in the loop that admits the lease.                            *)
THEOREM StintsStartFresh == Spec => FreshStint
<1> DEFINE Kept == \A h \in Leases : StartsStint(h) /\ preemptFired'[h] =>
                     \E k \in Leases : /\ k \in waiters' \/ StartsStint(k)
                                      /\ \E X \in SUBSET holders' : h \in Named(k, X, captured')
<1>1. Init => MaintenanceUnsignalled
  BY DEF Init, MaintenanceUnsignalled
<1>2. ASSUME IInv, MaintenanceUnsignalled, [Next]_vars PROVE Kept
  <2> SUFFICES ASSUME NEW h \in Leases, StartsStint(h), preemptFired'[h]
               PROVE  \E k \in Leases : /\ k \in waiters' \/ StartsStint(k)
                                       /\ \E X \in SUBSET holders' : h \in Named(k, X, captured')
    OBVIOUS
  <2>1. ~IsMaintenance(h)
    BY <1>2, SignalsStep DEF MaintenanceUnsignalled, IsMaintenance
  <2>2. PICK H, W, st, pr : LoopRan(h, H, W, st, pr)
    BY <1>2, <2>1, StintByLoop
  <2>3. /\ ScheduleAdmission(H, W, st, pr, seq', captured') /\ h \notin H
        /\ W \in SUBSET Leases /\ \A k \in W : k \notin holders \/ Yield(k)
    BY <2>2 DEF LoopRan
  <2>4. PICK k \in W, X \in SUBSET holders' :
          (k \in waiters' \/ k \in holders') /\ h \in Named(k, X, captured')
    BY <2>3, SignalsAskedFor DEF StartsStint
  <2>5. k \in Leases /\ (k \in waiters' \/ StartsStint(k))
    BY <2>3, <2>4 DEF StartsStint
  <2> QED BY <2>4, <2>5
<1>3. MaintenanceUnsignalled /\ [Next]_vars => MaintenanceUnsignalled'
  BY SignalsStep
<1> QED BY <1>1, <1>2, <1>3, Invariance, PTL DEF Spec, FreshStint
=============================================================================
