-------------------------- MODULE DomainCoordinator --------------------------
(***************************************************************************)
(* The compute-domain coordinator of the API proxy                         *)
(* (apps/api/src/proxy/domain-coordinator.ts): a gate in front of the      *)
(* memory pools ("domains") that requests draw on.  Several leases may     *)
(* hold a domain at once; whether one more may join is the verdict of a    *)
(* policy callback supplied with the request.  A policy may instead name   *)
(* holders to preempt: they are signalled once and keep holding until they *)
(* yield or release.                                                       *)
(*                                                                         *)
(* The coordinator is single-threaded JavaScript: every method runs to     *)
(* completion, including the admission loop at its end, so each method is  *)
(* one action.  Promise continuations run later; `promise' records what    *)
(* the caller of acquire()/yield() will observe.                           *)
(***************************************************************************)
EXTENDS Integers, Sequences, FiniteSets, Functions

CONSTANTS
  Leases,          \* lease requests, each made at most once
  Domains,         \* memory pools
  Targets,         \* proxy targets
  Maintenance,     \* MAINTENANCE_TARGET
  TargetOf,        \* the DomainLeaseRequest of each lease, field by field
  DomainsOf,
  PriorityOf,
  PreemptibleOf,
  ContinuationOf,
  Captures,        \* what the `decide' closure of a request captured
  NoCapture,       \* the capture of a request not made yet
  Admits(_, _, _), \* decide answers "admit": (capture, lease, overlapping holders)
  Preempts(_, _, _)\* the leaseIds of its "preempt" answer; empty for "wait"

RequestAssumption ==
  /\ Maintenance \notin Targets
  /\ TargetOf \in [Leases -> Targets \cup {Maintenance}]
  /\ DomainsOf \in [Leases -> SUBSET Domains]
  /\ PriorityOf \in [Leases -> Int]
  /\ PreemptibleOf \in [Leases -> BOOLEAN]
  /\ ContinuationOf \in [Leases -> BOOLEAN]

PolicyAssumption ==
  \A c \in Captures, l \in Leases, H \in SUBSET Leases :
    /\ Admits(c, l, H) \in BOOLEAN
    /\ Preempts(c, l, H) \subseteq Leases

ASSUME Requests == RequestAssumption
ASSUME Policies == PolicyAssumption

VARIABLES
  holders,       \* leases admitted to their domains
  waiters,       \* leases queued, for the first time or after a yield
  status,        \* DomainLeaseStatus; "none" before the request is made
  seq,           \* enqueue number of each lease, kept across yields
  nextSeq,
  captured,      \* the environment of each lease's decide closure
  preemptFired,  \* the preempt signal of the current stint has fired
  promise,       \* outcome of the last acquire()/yield() of each lease
  abortQueued,   \* the signal had fired before acquire(): onAbort is a microtask
  swapMark,      \* leases with seq < swapMark are past swapFairnessMs
  contMark       \* leases with seq < contMark are past continuationFairnessMs

queueVars == <<holders, waiters, status, preemptFired, promise>>
requestVars == <<seq, nextSeq, captured>>
timeVars == <<swapMark, contMark>>
vars == <<queueVars, requestVars, abortQueued, timeVars>>

TypeOK ==
  /\ holders \subseteq Leases
  /\ waiters \subseteq Leases
  /\ status \in [Leases -> {"none", "waiting", "holding", "suspended", "settled"}]
  /\ seq \in [Leases -> Nat]
  /\ nextSeq \in Nat
  /\ captured \in [Leases -> Captures \cup {NoCapture}]
  /\ preemptFired \in [Leases -> BOOLEAN]
  /\ promise \in [Leases -> {"none", "pending", "resolved", "rejected"}]
  /\ abortQueued \in [Leases -> BOOLEAN]
  /\ swapMark \in 0..nextSeq
  /\ contMark \in 0..nextSeq

-----------------------------------------------------------------------------
(* Overlap, the policy's verdict and the ranking of the waiters.  H is the *)
(* current set of holders, W the leases pending admission.                 *)

IsMaintenance(l) == TargetOf[l] = Maintenance

Overlap(l, k) == DomainsOf[l] \cap DomainsOf[k] # {}

(* Faulty forms (named Bad...), each a plausible slip in the definition     *)
(* that follows it, are what the properties below are tested against.      *)
BadHoldersInclusion(l, H) == {h \in H : DomainsOf[l] \subseteq DomainsOf[h]}
BadHoldersUnsignalled(l, H) == {h \in H : Overlap(h, l) /\ ~preemptFired[h]}

HoldersOn(l, H) == {h \in H : Overlap(h, l)}

UnderMaintenance(l, H) == \E h \in HoldersOn(l, H) : IsMaintenance(h)

BadAdmissibleUnderMaintenance(l, H, cap) ==
  ~IsMaintenance(l) /\ Admits(cap[l], l, HoldersOn(l, H))

Admissible(l, H, cap) ==
  /\ ~IsMaintenance(l)       \* a maintenance lease's decide answers "wait"
  /\ ~UnderMaintenance(l, H)
  /\ Admits(cap[l], l, HoldersOn(l, H))

(* The holders a refused candidate asks to preempt, as firePreemptions     *)
(* filters them.                                                           *)
Named(l, H, cap) ==
  IF IsMaintenance(l) \/ UnderMaintenance(l, H)
  THEN {}
  ELSE {h \in HoldersOn(l, H) \cap Preempts(cap[l], l, HoldersOn(l, H)) :
          PreemptibleOf[h] /\ ~IsMaintenance(h)}

Affine(l, H) ==
  \E h \in HoldersOn(l, H) : ~IsMaintenance(h) /\ TargetOf[h] = TargetOf[l]

(* A preference applies unless a lease without it, on an overlapping       *)
(* domain, has waited past the fairness window.                            *)
BadAffinityUnbounded(l, H, W, sq) == Affine(l, H)

AffinityApplies(l, H, W, sq) ==
  /\ Affine(l, H)
  /\ ~\E k \in W : ~Affine(k, H) /\ sq[k] < swapMark /\ Overlap(k, l)

ContinuationApplies(l, W, sq) ==
  /\ ContinuationOf[l]
  /\ ~\E k \in W : ~ContinuationOf[k] /\ sq[k] < contMark /\ Overlap(k, l)

Score(l, H, W, sq) ==
  (IF AffinityApplies(l, H, W, sq) THEN 2 ELSE 0)
    + (IF ContinuationApplies(l, W, sq) THEN 1 ELSE 0)

BadBeforeIgnoresPriority(l, k, H, W, sq) ==
  \/ Score(l, H, W, sq) > Score(k, H, W, sq)
  \/ Score(l, H, W, sq) = Score(k, H, W, sq) /\ sq[l] < sq[k]
BadBeforeNewestFirst(l, k, H, W, sq) ==
  \/ PriorityOf[l] > PriorityOf[k]
  \/ /\ PriorityOf[l] = PriorityOf[k]
     /\ \/ Score(l, H, W, sq) > Score(k, H, W, sq)
        \/ Score(l, H, W, sq) = Score(k, H, W, sq) /\ sq[l] > sq[k]

(* The order of the sorted candidates. *)
Before(l, k, H, W, sq) ==
  \/ PriorityOf[l] > PriorityOf[k]
  \/ /\ PriorityOf[l] = PriorityOf[k]
     /\ \/ Score(l, H, W, sq) > Score(k, H, W, sq)
        \/ Score(l, H, W, sq) = Score(k, H, W, sq) /\ sq[l] < sq[k]

-----------------------------------------------------------------------------
(* scheduleAdmission.  One pass walks the candidates in order and promotes *)
(* the first admissible one; passes repeat until one promotes nothing.  A  *)
(* run is the sequence of leases the passes promote.                       *)

Wins(l, H, W, sq, cap) ==
  /\ l \in W
  /\ Admissible(l, H, cap)
  /\ \A k \in W \ {l} : Admissible(k, H, cap) => Before(l, k, H, W, sq)

Promoted(run, i) == {run[j] : j \in 1..i}

IsRun(run, H, W, sq, cap) ==
  /\ run \in Seq(W)
  /\ \A i \in 1..Len(run) :
       Wins(run[i], H \cup Promoted(run, i - 1), W \ Promoted(run, i - 1), sq, cap)
  /\ \A l \in W \ Promoted(run, Len(run)) :
       ~Admissible(l, H \cup Promoted(run, Len(run)), cap)

(* The run, computed; IsRun says what it is, and is all the proofs use.    *)
RunOf(H, W, sq, cap) ==
  LET passes[left \in SUBSET W] ==
        LET winner == {l \in left : Wins(l, H \cup (W \ left), left, sq, cap)}
        IN  IF winner = {} THEN << >>
            ELSE LET w == CHOOSE w \in winner : TRUE
                 IN  <<w>> \o passes[left \ {w}]
  IN passes[W]

BadFiredBeforePromotionOnly(run, i, H, W, sq, cap) ==
  LET held == H \cup Promoted(run, i)
      left == W \ Promoted(run, i)
  IN IF i = Len(run) THEN {}
     ELSE UNION {Named(k, held, cap) :
                   k \in {j \in left : Before(j, run[i + 1], held, left, sq)}}

(* The holders signalled by the pass that follows the i-th promotion: it   *)
(* asks every candidate that comes before the one it promotes.             *)
FiredInPass(run, i, H, W, sq, cap) ==
  LET held == H \cup Promoted(run, i)
      left == W \ Promoted(run, i)
      asked == IF i < Len(run)
               THEN {k \in left : Before(k, run[i + 1], held, left, sq)}
               ELSE left
  IN UNION {Named(k, held, cap) : k \in asked}

BadAfterRunKeepsSignal(run, won, H, W, st, pr, sq, cap) ==
  /\ holders' = H \cup won
  /\ waiters' = W \ won
  /\ status' = [l \in Leases |-> IF l \in won THEN "holding" ELSE st[l]]
  /\ promise' = [l \in Leases |-> IF l \in won THEN "resolved" ELSE pr[l]]
  /\ preemptFired' = [l \in Leases |->
       \/ preemptFired[l]
       \/ \E i \in 0..Len(run) : l \in FiredInPass(run, i, H, W, sq, cap)]

(* The queues after a run that promoted the leases of won: each starts a   *)
(* stint, with a signal that has not fired, at the pass that promoted it.  *)
AfterRun(run, won, H, W, st, pr, sq, cap) ==
  LET stint(l) == IF l \in won THEN CHOOSE i \in 1..Len(run) : run[i] = l ELSE 0
  IN /\ holders' = H \cup won
     /\ waiters' = W \ won
     /\ status' = [l \in Leases |-> IF l \in won THEN "holding" ELSE st[l]]
     /\ promise' = [l \in Leases |-> IF l \in won THEN "resolved" ELSE pr[l]]
     /\ preemptFired' = [l \in Leases |->
          \/ l \notin won /\ preemptFired[l]
          \/ \E i \in stint(l)..Len(run) : l \in FiredInPass(run, i, H, W, sq, cap)]

ScheduleAdmission(H, W, st, pr, sq, cap) ==
  \E run \in {RunOf(H, W, sq, cap)} :
    /\ IsRun(run, H, W, sq, cap)
    /\ \E won \in {Promoted(run, Len(run))} : AfterRun(run, won, H, W, st, pr, sq, cap)

-----------------------------------------------------------------------------
(* The coordinator's methods. *)

Init ==
  /\ holders = {}
  /\ waiters = {}
  /\ status = [l \in Leases |-> "none"]
  /\ seq = [l \in Leases |-> 0]
  /\ nextSeq = 0
  /\ captured = [l \in Leases |-> NoCapture]
  /\ preemptFired = [l \in Leases |-> FALSE]
  /\ promise = [l \in Leases |-> "none"]
  /\ abortQueued = [l \in Leases |-> FALSE]
  /\ swapMark = 0
  /\ contMark = 0

BadCreateLease(l, c) ==
  /\ status[l] = "none"
  /\ seq' = [seq EXCEPT ![l] = nextSeq - 1]
  /\ nextSeq' = nextSeq + 1
  /\ captured' = [captured EXCEPT ![l] = c]

(* createLease *)
CreateLease(l, c) ==
  /\ status[l] = "none"
  /\ seq' = [seq EXCEPT ![l] = nextSeq]
  /\ nextSeq' = nextSeq + 1
  /\ captured' = [captured EXCEPT ![l] = c]

(* acquire: enqueue, wire the abort signal (an already aborted signal      *)
(* queues onAbort as a microtask), run the admission loop.                 *)
Acquire(l, c, alreadyAborted) ==
  /\ ~IsMaintenance(l)
  /\ CreateLease(l, c)
  /\ abortQueued' = [abortQueued EXCEPT ![l] = alreadyAborted]
  /\ ScheduleAdmission(holders, waiters \cup {l},
                       [status EXCEPT ![l] = "waiting"],
                       [promise EXCEPT ![l] = "pending"], seq', captured')
  /\ UNCHANGED timeVars

(* tryAcquireMaintenance: only when no lease, held or queued, overlaps.    *)
TryAcquireMaintenance(l, c) ==
  /\ IsMaintenance(l)
  /\ \A k \in holders \cup waiters : ~Overlap(k, l)
  /\ CreateLease(l, c)
  /\ status' = [status EXCEPT ![l] = "holding"]
  /\ holders' = holders \cup {l}
  /\ UNCHANGED <<waiters, preemptFired, promise, abortQueued, timeVars>>

BadYieldWithoutLoop(l) ==
  /\ l \in holders
  /\ ~IsMaintenance(l)
  /\ holders' = holders \ {l}
  /\ waiters' = waiters \cup {l}
  /\ status' = [status EXCEPT ![l] = "suspended"]
  /\ promise' = [promise EXCEPT ![l] = "pending"]
  /\ UNCHANGED <<preemptFired, requestVars, abortQueued, timeVars>>

(* yieldLease: no caller yields a maintenance lease.                       *)
Yield(l) ==
  /\ l \in holders
  /\ ~IsMaintenance(l)
  /\ ScheduleAdmission(holders \ {l}, waiters \cup {l},
                       [status EXCEPT ![l] = "suspended"],
                       [promise EXCEPT ![l] = "pending"], seq, captured)
  /\ UNCHANGED <<requestVars, abortQueued, timeVars>>

BadReleaseWithoutLoop(l) ==
  /\ holders' = holders \ {l}
  /\ waiters' = waiters \ {l}
  /\ status' = [status EXCEPT ![l] = "settled"]
  /\ UNCHANGED <<promise, preemptFired>>

(* releaseLease: it never settles a pending yield() promise.               *)
ReleaseLease(l) ==
  ScheduleAdmission(holders \ {l}, waiters \ {l},
                    [status EXCEPT ![l] = "settled"], promise, seq, captured)

(* The caller has the lease object once its first admission resolved, so   *)
(* a release finds the lease holding or suspended.                         *)
Release(l) ==
  /\ status[l] \in {"holding", "suspended"}
  /\ ReleaseLease(l)
  /\ UNCHANGED <<requestVars, abortQueued, timeVars>>

BadAbortKeepsWaiter(l) ==
  IF status[l] = "holding"
  THEN ReleaseLease(l)
  ELSE ScheduleAdmission(holders, waiters,
                         [status EXCEPT ![l] = "settled"],
                         [promise EXCEPT ![l] = "rejected"], seq, captured)

(* abortLease, for a lease that is not settled.                            *)
AbortLease(l) ==
  IF status[l] = "holding"
  THEN ReleaseLease(l)
  ELSE ScheduleAdmission(holders, waiters \ {l},
                         [status EXCEPT ![l] = "settled"],
                         [promise EXCEPT ![l] = "rejected"], seq, captured)

(* The request's signal fires while the listener is attached.              *)
AbortSignal(l) ==
  /\ status[l] \in {"waiting", "holding", "suspended"}
  /\ ~IsMaintenance(l)
  /\ ~abortQueued[l]
  /\ AbortLease(l)
  /\ UNCHANGED <<requestVars, abortQueued, timeVars>>

BadQueuedAbortUnchecked(l) ==
  /\ abortQueued[l]
  /\ abortQueued' = [abortQueued EXCEPT ![l] = FALSE]
  /\ AbortLease(l)
  /\ UNCHANGED <<requestVars, timeVars>>

(* The queued microtask runs; it does nothing on a settled lease.          *)
RunQueuedAbort(l) ==
  /\ abortQueued[l]
  /\ abortQueued' = [abortQueued EXCEPT ![l] = FALSE]
  /\ IF status[l] = "settled" THEN UNCHANGED queueVars ELSE AbortLease(l)
  /\ UNCHANGED <<requestVars, timeVars>>

(* Time passes: the oldest leases cross a fairness window.  Nothing runs   *)
(* at that moment; the next admission loop reads the clock.                *)
PassSwapWindow ==
  /\ swapMark' \in (swapMark + 1)..nextSeq
  /\ UNCHANGED <<queueVars, requestVars, abortQueued, contMark>>

PassContinuationWindow ==
  /\ contMark' \in (contMark + 1)..nextSeq
  /\ UNCHANGED <<queueVars, requestVars, abortQueued, swapMark>>

Next ==
  \/ \E l \in Leases, c \in Captures, b \in BOOLEAN : Acquire(l, c, b)
  \/ \E l \in Leases, c \in Captures : TryAcquireMaintenance(l, c)
  \/ \E l \in Leases : Yield(l)
  \/ \E l \in Leases : Release(l)
  \/ \E l \in Leases : AbortSignal(l)
  \/ \E l \in Leases : RunQueuedAbort(l)
  \/ PassSwapWindow
  \/ PassContinuationWindow

Spec == Init /\ [][Next]_vars

(* busyTargetIds and wantedTargetIds, read by the planner.                 *)
BusyTargets == {TargetOf[h] : h \in {k \in holders : ~IsMaintenance(k)}}
WantedTargets == {TargetOf[h] : h \in {k \in holders \cup waiters : ~IsMaintenance(k)}}

-----------------------------------------------------------------------------
(* Safety. *)

(* holders, waiters and status are three records of the same fact, kept by *)
(* hand in promote, yieldLease, releaseLease and abortLease: they never    *)
(* disagree, a queued lease's caller is still waiting for its promise, and *)
(* a holding lease's caller has been told.                                 *)
QueuesAgree ==
  /\ holders = {l \in Leases : status[l] = "holding"}
  /\ waiters = {l \in Leases : status[l] \in {"waiting", "suspended"}}
  /\ \A l \in waiters : ~IsMaintenance(l) /\ promise[l] = "pending"
  /\ \A l \in holders : ~IsMaintenance(l) => promise[l] = "resolved"

(* A maintenance lease (idle unload, benchmark reservation) shares none of *)
(* its domains with any other holder, whoever came first.                  *)
MaintenanceAlone ==
  \A m, h \in holders : IsMaintenance(m) /\ m # h => ~Overlap(m, h)

(* The policies <<c, l, h>> under which l is never admitted beside h.      *)
Refuses ==
  {r \in Captures \X Leases \X Leases :
     \A H \in SUBSET Leases : r[3] \in H => ~Admits(r[1], r[2], H)}

(* Two leases whose policies each refuse the other never hold overlapping  *)
(* domains together, however many leases one admission loop promotes: each *)
(* verdict is taken against the holders at that moment.                    *)
HoldersCompatible ==
  \A l, h \in holders :
    l # h /\ Overlap(l, h) =>
      \/ <<captured[l], l, h>> \notin Refuses
      \/ <<captured[h], h, l>> \notin Refuses

(* No missed wakeup: after every method, no queued lease could be admitted *)
(* as things stand.  (tryAcquireMaintenance changes the holders without    *)
(* running the loop.)                                                      *)
NoMissedAdmission ==
  \A l \in waiters : ~Admissible(l, holders, captured)

(* Nor is there a holder a queued lease asks to preempt that has not been  *)
(* signalled in its current stint.                                         *)
NoMissedPreemption ==
  \A l \in waiters : \A h \in Named(l, holders, captured) : preemptFired[h]

(* A stint begins: the lease is admitted, after a yield perhaps by the     *)
(* loop of that same call.                                                 *)
StartsStint(l) == l \in holders' /\ (l \in holders => Yield(l))

(* A lease promoted again after a preemption starts with a fresh signal:   *)
(* it is signalled at once only if a lease that is queued, or starts its   *)
(* own stint in the same loop, asks for it beside the holders of that      *)
(* moment, and never for what was asked of an earlier stint.               *)
FreshStint ==
  [][\A h \in Leases :
       StartsStint(h) /\ preemptFired'[h] =>
         \E k \in Leases : /\ k \in waiters' \/ StartsStint(k)
                          /\ \E X \in SUBSET holders' : h \in Named(k, X, captured')]_vars

(* The barrier: a lease is never admitted over a holder its policy refuses *)
(* to run beside, signalled or not, unless that holder itself gives way.   *)
PreemptionBarrier ==
  [][\A l \in holders' \ holders : \A h \in holders \cap holders' :
       Overlap(l, h) /\ ~IsMaintenance(l) /\ <<captured'[l], l, h>> \in Refuses
         => Yield(h)]_vars

(* A settled lease stays settled and its caller's promise keeps its        *)
(* outcome, whatever arrives late: a queued abort, a second release.       *)
SettledForGood ==
  [][\A l \in Leases : status[l] = "settled"
       => status'[l] = "settled" /\ promise'[l] = promise[l]]_vars

-----------------------------------------------------------------------------
(* Order of admission.  k is passed over by l when l is admitted in a step *)
(* throughout which k stays queued and could have been admitted, whichever *)
(* of the others that the step admits came first.                          *)

PassedOver(k, l) ==
  /\ k \in waiters \cap waiters'
  /\ StartsStint(l)
  /\ ~IsMaintenance(l)
  /\ \A X \in SUBSET (holders' \ {l}) :
       {h \in holders' : ~StartsStint(h)} \subseteq X => Admissible(k, X, captured)

(* Neither preference nor age outranks priority. *)
PriorityFirst ==
  [][\A k, l \in Leases :
       PriorityOf[k] > PriorityOf[l] => ~PassedOver(k, l)]_vars

(* Requests that differ only in when they came are admitted in that order, *)
(* a preempted one resuming ahead of those that came after it.             *)
SameKind(k, l) ==
  /\ TargetOf[k] = TargetOf[l] /\ DomainsOf[k] = DomainsOf[l]
  /\ PriorityOf[k] = PriorityOf[l] /\ ContinuationOf[k] = ContinuationOf[l]

SameKindInTurn ==
  [][\A k, l \in Leases :
       SameKind(k, l) /\ seq'[k] < seq'[l] => ~PassedOver(k, l)]_vars

(* A lease no preference favours, once past both fairness windows, is not  *)
(* overtaken by a later one of its priority on an overlapping domain.      *)
StarvedKeepsTurn ==
  [][\A k, l \in Leases :
       /\ PriorityOf[k] = PriorityOf[l] /\ Overlap(k, l)
       /\ seq'[k] < seq'[l] /\ seq[k] < swapMark /\ seq[k] < contMark
       /\ ~ContinuationOf[k] /\ ~Affine(k, holders \cup holders')
       => ~PassedOver(k, l)]_vars

-----------------------------------------------------------------------------
(* Liveness. *)

(* A queued microtask runs.  A holder that holds again and again completes *)
(* in the end: streams finish, and a resumable request gives up after      *)
(* maxAttempts preemptions.                                                *)
Fairness ==
  \A l \in Leases :
    /\ WF_vars(RunQueuedAbort(l))
    /\ SF_vars(l \in holders /\ Release(l))

FairSpec == Spec /\ Fairness

(* Every queued request, first-time or preempted, is admitted or settled.  *)
EveryWaiterServed ==
  \A l \in Leases : l \in waiters ~> l \notin waiters

=============================================================================
