-------------------------- MODULE TargetReadiness --------------------------
(***************************************************************************)
(* How admitted requests make their targets ready: the swap lock and the   *)
(* preview under it (proxy/target-lifecycle.ts), the executor that carries *)
(* out one planned action per pass (proxy/public-executor.ts), the health  *)
(* probes that the previews are built from (proxy/instance-health-cache.ts,*)
(* proxy/runtime-snapshot.ts) and the engines underneath.                  *)
(*                                                                         *)
(* The planner is MemoryPlan's.  An executor never acts on what it         *)
(* remembers: it awaits a preview, and between the end of that preview and *)
(* the start of the next action only microtasks run, so both are one step. *)
(***************************************************************************)
EXTENDS MemoryPlan

CONSTANTS
  Requests,
  TargetFor,      \* the target each request is routed to
  FirstLive,      \* branches of a fusion: they preview only once admitted
  MaxPasses,      \* maxPasses
  Fragile,        \* instances that may exit on their own
  Reconciled,     \* instances the reconcile loop probes while requests run
  Strict,         \* instances of engines with strict memory admission
  Up              \* instances running when the first request arrives

ASSUME ReadinessInputs ==
  /\ TargetFor \in [Requests -> Targets]
  /\ \A t \in Targets : IsManaged(t)
  /\ \A r \in Requests : \E p \in DOMAIN Room : Draw[InstanceOf[TargetFor[r]]][p] > 0
  /\ MaxPasses \in Nat \ {0}

VARIABLES
  engine,    \* the process of each instance, as the supervisor drives it
  model,     \* the models of routers
  saved,     \* savedSlotIds
  pending,   \* the health probe under way: the process status it began with
  answer,    \* what the engine's endpoints answered that probe
  cache,     \* residency cache: the last state probed for each target
  seen,      \* what the preview a request awaits has gathered so far
  phase,     \* where each request is
  swaps,     \* requests whose first preview had readiness actions
  mode,      \* which loop of the executor awaits the preview
  doing,     \* the action an engine was asked for
  pass,
  tried,     \* startedInstanceIds holds the target's instance
  inside,    \* requests holding the swap lock
  outcome

engineVars == <<engine, model, saved>>
probeVars == <<pending, answer, cache>>
requestVars == <<seen, phase, swaps, mode, doing, pass, tried, inside, outcome>>
vars == <<engineVars, probeVars, requestVars>>

InstanceFor(r) == InstanceOf[TargetFor[r]]
On(i) == {t \in Targets : InstanceOf[t] = i}
Domains(r) == {p \in DOMAIN Room : Draw[InstanceFor(r)][p] > 0}

TypeOK ==
  /\ engine \in [Instances -> {"stopped", "starting", "loading", "ready", "stopping", "failed"}]
  /\ model \in [Targets -> {"unloaded", "loading", "ready", "failed"}]
  /\ \A t \in Targets : saved[t] \subseteq Range(SlotIds[t])
  /\ pending \in [Instances -> {"none", "stopped", "starting", "running", "stopping"}]
  /\ answer \in [Targets -> States \cup {"awaited"}]
  /\ cache \in [Targets -> States]
  /\ seen \in [Requests -> [Targets -> States \cup {"awaited"}]]
  /\ swaps \subseteq Requests
  /\ phase \in [Requests -> {"new", "queued", "lock", "preview", "sleep", "starting", "asking",
                             "serving", "ended"}]
  /\ mode \in [Requests -> {"initial", "pass", "blocked", "wait"}]
  /\ pass \in [Requests -> 0..MaxPasses]
  /\ tried \in [Requests -> BOOLEAN]
  /\ inside \subseteq Requests
  /\ outcome \in [Requests -> {"none", "ok", "blocked", "timedOut", "startFailed",
                               "upstream", "passes"}]

-----------------------------------------------------------------------------
(* Health probes.  The process status is read when a probe begins; the     *)
(* engine's endpoints answer, and the rest of the summary follows.         *)

BadRuntimeStatus(e) == IF e = "failed" THEN "stopped" ELSE e

RuntimeStatus(e) ==
  CASE e \in {"loading", "ready"} -> "running"
    [] e = "failed" -> "stopped"      \* "error", but startable
    [] OTHER -> e

BadProcessStates(status, e) ==
  CASE status = "stopped" -> {"stopped"}
    [] status = "stopping" -> {"unknown"}
    [] status = "starting" -> {"loading"}
    [] OTHER -> {"ready"}

(* processRuntimeState of deriveStatus, for a target without a model; a    *)
(* process that was running and no longer answers looks as if loading, or  *)
(* in error when its log has errors.                                       *)
ProcessStates(status, e) ==
  CASE status = "stopped" -> {"stopped"}
    [] status = "stopping" -> {"unknown"}
    [] status = "starting" -> {"loading"}
    [] OTHER -> CASE e = "ready" -> {"ready"}
                  [] e = "failed" -> {"loading", "error"}
                  [] OTHER -> {"loading"}

(* A target with a model is what /v1/models says of it (in error if it     *)
(* failed to load, ready if it is listed without a status), and unknown    *)
(* when nothing answers.                                                   *)
StatesRead(t, status, e) ==
  CASE ~HasModel[t] -> ProcessStates(status, e)
    [] HasModel[t] /\ ~(status \in {"starting", "running"} /\ e = "ready") -> {"unknown"}
    [] OTHER -> {CASE ~ModelLoadUnload[t] -> "ready"
                   [] ModelLoadUnload[t] /\ model[t] = "failed" -> "error"
                   [] OTHER -> model[t]}

(* computeAndStore: a probe under way is joined, a new one begins with the *)
(* status of now.                                                          *)
PendingAfterProbes(e) ==
  [i \in Instances |-> IF pending[i] # "none" THEN pending[i] ELSE RuntimeStatus(e[i])]

(* A live preview awaits a probe of every instance. *)
AwaitPreview(r, m, e) ==
  /\ phase' = [phase EXCEPT ![r] = "preview"]
  /\ mode' = [mode EXCEPT ![r] = m]
  /\ seen' = [seen EXCEPT ![r] = [t \in Targets |-> "awaited"]]
  /\ pending' = PendingAfterProbes(e)
  /\ UNCHANGED <<answer, cache, swaps>>

ProbeAnswered(i) ==
  /\ pending[i] # "none"
  /\ \E read \in [On(i) -> States] :
       /\ \A t \in On(i) : answer[t] = "awaited" /\ read[t] \in StatesRead(t, pending[i], engine[i])
       /\ answer' = [t \in Targets |-> IF t \in On(i) THEN read[t] ELSE answer[t]]
  /\ UNCHANGED <<engineVars, pending, cache, requestVars>>

(* The summary is stored, and every preview that joined the probe has it.  *)
ProbeDone(i) ==
  /\ pending[i] # "none"
  /\ \A t \in On(i) : answer[t] # "awaited"
  /\ cache' = [t \in Targets |-> IF t \in On(i) THEN answer[t] ELSE cache[t]]
  /\ seen' = [r \in Requests |-> [t \in Targets |->
       IF t \in On(i) /\ phase[r] = "preview" /\ seen[r][t] = "awaited"
       THEN answer[t] ELSE seen[r][t]]]
  /\ answer' = [t \in Targets |-> IF t \in On(i) THEN "awaited" ELSE answer[t]]
  /\ pending' = [pending EXCEPT ![i] = "none"]
  /\ UNCHANGED <<engineVars, phase, swaps, mode, doing, pass, tried, inside, outcome>>

(* reconcileRuntimeState, and the previews of other requests. *)
Reconcile(i) ==
  /\ i \in Reconciled
  /\ pending[i] = "none"
  /\ \E r \in Requests : phase[r] \notin {"new", "ended"}
  /\ pending' = [pending EXCEPT ![i] = RuntimeStatus(engine[i])]
  /\ UNCHANGED <<engineVars, answer, cache, requestVars>>

-----------------------------------------------------------------------------
(* Previews. *)

BadInFlight == {TargetFor[r] : r \in {q \in Requests : phase[q] = "serving"}}

(* Targets of the requests in flight: each is marked from the time it is   *)
(* routed until its response ends, also while it waits.                    *)
InFlight == {TargetFor[r] : r \in {q \in Requests : phase[q] \notin {"new", "ended"}}}

ViewOf(states) ==
  [state |-> states, active |-> InFlight, wanted |-> InFlight, pinned |-> {},
   idle |-> [t \in Targets |-> 0], saved |-> saved]

PreviewFor(r, states) == PlanRequest(ViewOf(states), TargetFor[r], FALSE)

NeedsSwap(plan) == plan.ok /\ ReadinessActions(plan) # << >>

BadFinish(r, result) ==
  /\ phase' = [phase EXCEPT ![r] = IF result = "ok" THEN "serving" ELSE "ended"]
  /\ outcome' = [outcome EXCEPT ![r] = result]
  /\ inside' = IF result = "ok" THEN inside \ {r} ELSE inside
  /\ UNCHANGED <<seen, swaps, mode, doing, pass, tried>>

(* The executor returns: the swap lock is released either way. *)
Finish(r, result) ==
  /\ phase' = [phase EXCEPT ![r] = IF result = "ok" THEN "serving" ELSE "ended"]
  /\ outcome' = [outcome EXCEPT ![r] = result]
  /\ inside' = inside \ {r}
  /\ UNCHANGED <<seen, swaps, mode, doing, pass, tried>>

Await(r) ==
  /\ phase' = [phase EXCEPT ![r] = "sleep"]
  /\ UNCHANGED <<seen, swaps, mode, doing, pass, tried, inside, outcome>>

WaitForLock(r) ==
  /\ phase' = [phase EXCEPT ![r] = "lock"]
  /\ UNCHANGED <<seen, swaps, mode, doing, pass, tried, inside, outcome>>

(* executeApiProxyTargetReadiness: only a plan that is not blocked and has *)
(* readiness actions takes the lock.                                       *)
EnterReadiness(r, plan) ==
  CASE NeedsSwap(plan) -> WaitForLock(r)
    [] ~NeedsSwap(plan) /\ plan.ok -> Finish(r, "ok")
    [] OTHER -> /\ phase' = [phase EXCEPT ![r] = "sleep"]
                /\ mode' = [mode EXCEPT ![r] = "blocked"]
                /\ UNCHANGED <<seen, swaps, doing, pass, tried, inside, outcome>>

(* The request is routed and marked, and queues for its lease.  The        *)
(* gateway refuses it outright when the cached preview is blocked.         *)
Begin(r) ==
  /\ phase[r] = "new"
  /\ \/ /\ r \in FirstLive
        /\ AwaitPreview(r, "initial", engine)
        /\ UNCHANGED <<doing, pass, tried, inside, outcome>>
     \/ /\ r \notin FirstLive
        /\ \E plan \in {PreviewFor(r, cache)} :
             \/ ~plan.ok /\ Finish(r, "blocked")
             \/ /\ plan.ok
                /\ phase' = [phase EXCEPT ![r] = "queued"]
                /\ swaps' = IF NeedsSwap(plan) THEN swaps \cup {r} ELSE swaps
                /\ UNCHANGED <<seen, mode, doing, pass, tried, inside, outcome>>
        /\ UNCHANGED probeVars
  /\ UNCHANGED engineVars

(* The lease is granted.  The preview that decides on the lock is still    *)
(* the one from before the queue.                                          *)
Admitted(r) ==
  /\ phase[r] = "queued"
  /\ IF r \in swaps THEN WaitForLock(r) ELSE Finish(r, "ok")
  /\ UNCHANGED <<engineVars, probeVars>>

BadTakeLockShared(r) ==
  /\ phase[r] = "lock"
  /\ inside' = inside \cup {r}
  /\ AwaitPreview(r, "pass", engine)
  /\ UNCHANGED <<engineVars, doing, pass, tried, outcome>>

(* domainSwapCoordinator.run: the promise ExclusiveAccess states, which    *)
(* DomainSwap keeps; the fresh preview follows.                            *)
TakeLock(r) ==
  /\ phase[r] = "lock"
  /\ \A q \in inside : Domains(q) \cap Domains(r) = {}
  /\ inside' = inside \cup {r}
  /\ AwaitPreview(r, "pass", engine)
  /\ UNCHANGED <<engineVars, doing, pass, tried, outcome>>

-----------------------------------------------------------------------------
(* The executor's passes. *)

(* supervisor.stop: nothing to do for a process that is gone or going. *)
RequestStop(i) ==
  engine' = [engine EXCEPT
    ![i] = IF @ \in {"starting", "loading", "ready"} THEN "stopping" ELSE @]

NextPass(r) == pass' = [pass EXCEPT ![r] = @ + 1]

(* A slot or a model action is a request to the engine; its answer comes   *)
(* later.                                                                  *)
AskEngine(r, a) ==
  /\ a.type \in {"save-slot", "restore-slot", "load-model", "unload-model"}
  /\ phase' = [phase EXCEPT ![r] = "asking"]
  /\ doing' = [doing EXCEPT ![r] = a]
  /\ NextPass(r)
  /\ UNCHANGED <<engineVars, probeVars, seen, swaps, mode, tried, inside, outcome>>

StopInstance(r, a) ==
  /\ a.type = "stop-instance"
  /\ RequestStop(InstanceOf[a.target])
  /\ AwaitPreview(r, "pass", engine')
  /\ NextPass(r)
  /\ UNCHANGED <<model, saved, doing, tried, inside, outcome>>

StartInstance(r, a) ==
  /\ a.type = "start-instance"
  /\ IF tried[r] THEN Finish(r, "startFailed")
     ELSE /\ phase' = [phase EXCEPT ![r] = "starting"]
          /\ tried' = [tried EXCEPT ![r] = TRUE]
          /\ UNCHANGED <<seen, swaps, mode, doing, pass, inside, outcome>>
  /\ UNCHANGED <<engineVars, probeVars>>

WaitReady(r, a) ==
  /\ a.type \in {"wait-instance-ready", "wait-model-ready"}
  /\ AwaitPreview(r, "wait", engine)
  /\ NextPass(r)
  /\ UNCHANGED <<engineVars, doing, tried, inside, outcome>>

(* One pass: the first readiness action of the plan, if there is one. *)
RunPass(r, plan) ==
  LET actions == ReadinessActions(plan)
  IN CASE pass[r] = MaxPasses -> Finish(r, "passes") /\ UNCHANGED <<engineVars, probeVars>>
       [] pass[r] < MaxPasses /\ actions = << >> ->
            Finish(r, "ok") /\ UNCHANGED <<engineVars, probeVars>>
       [] OTHER -> \E a \in {Head(actions)} :
            \/ AskEngine(r, a)
            \/ StopInstance(r, a)
            \/ StartInstance(r, a)
            \/ WaitReady(r, a)

(* waitForPlanChange: it polls until the first action is no longer a wait. *)
RunWait(r, plan) ==
  LET actions == ReadinessActions(plan)
      waiting == actions # << >> /\ Head(actions).type \in {"wait-instance-ready",
                                                            "wait-model-ready"}
  IN CASE ~plan.ok -> Finish(r, "blocked") /\ UNCHANGED <<engineVars, probeVars>>
       [] plan.ok /\ waiting -> Await(r) /\ UNCHANGED <<engineVars, probeVars>>
       [] OTHER -> RunPass(r, plan)

(* A blocked plan is previewed again until it is not, but not after the    *)
(* last pass.                                                              *)
RunUnblock(r, plan) ==
  IF plan.ok \/ pass[r] = MaxPasses THEN RunPass(r, plan)
  ELSE /\ phase' = [phase EXCEPT ![r] = "sleep"]
       /\ mode' = [mode EXCEPT ![r] = "blocked"]
       /\ UNCHANGED <<engineVars, probeVars, seen, swaps, doing, pass, tried, inside, outcome>>

(* The preview a request awaits is complete. *)
Decide(r) ==
  /\ phase[r] = "preview"
  /\ \A t \in Targets : seen[r][t] # "awaited"
  /\ \E plan \in {PreviewFor(r, seen[r])} :
       \/ /\ mode[r] = "initial"
          /\ EnterReadiness(r, plan)
          /\ UNCHANGED <<engineVars, probeVars>>
       \/ mode[r] \in {"pass", "blocked"} /\ RunUnblock(r, plan)
       \/ mode[r] = "wait" /\ RunWait(r, plan)

(* The poll interval is over. *)
Poll(r) ==
  /\ phase[r] = "sleep"
  /\ AwaitPreview(r, mode[r], engine)
  /\ UNCHANGED <<engineVars, doing, pass, tried, inside, outcome>>

(* The timeout of a wait, or (blocked plans only) the client's abort. *)
GiveUp(r) ==
  /\ phase[r] = "sleep"
  /\ Finish(r, IF mode[r] = "blocked" THEN "blocked" ELSE "timedOut")
  /\ UNCHANGED <<engineVars, probeVars>>

(* checkDrawAdmission: the processes that are starting or running count.  *)
Overdrawn(i) ==
  \E p \in Pools :
    /\ Draw[i][p] > 0
    /\ Draw[i][p] > Free(p, {j \in Instances \ {i} : engine[j] \in {"starting", "loading", "ready"}})

(* startOrRecoverManagedInstance.  The start preflight refuses a port that *)
(* is in use, and a strict engine that is over budget; supervisor.start    *)
(* leaves a process that is up as it is.                                   *)
CompleteStart(r) ==
  LET i == InstanceFor(r)
      refused == i \in Strict /\ Overdrawn(i)
  IN /\ phase[r] = "starting"
     /\ \/ /\ engine[i] \in {"stopped", "failed"} /\ ~refused
           /\ engine' = [engine EXCEPT ![i] = "starting"]
           /\ AwaitPreview(r, "pass", engine')
           /\ NextPass(r)
           /\ UNCHANGED <<doing, tried, inside, outcome>>
        \/ /\ engine[i] \in {"starting", "loading", "stopping"} /\ ~refused
           /\ AwaitPreview(r, "pass", engine)
           /\ NextPass(r)
           /\ UNCHANGED <<engine, doing, tried, inside, outcome>>
        \/ /\ engine[i] \in {"loading", "ready", "stopping"} \/ refused
           /\ Finish(r, "upstream")
           /\ UNCHANGED <<engine, probeVars>>
     /\ UNCHANGED <<model, saved>>

(* The engine answers the slot request.  A failed restore only drops the   *)
(* slot; a failed save fails the request.                                  *)
AnswerSlot(r, ok) ==
  LET a == doing[r]
      done == ok /\ engine[InstanceOf[a.target]] = "ready"
  IN /\ phase[r] = "asking" /\ a.type \in {"save-slot", "restore-slot"}
     /\ IF a.type = "save-slot" /\ ~done
        THEN Finish(r, "upstream") /\ UNCHANGED <<probeVars, saved>>
        ELSE /\ saved' = [saved EXCEPT
                  ![a.target] = IF a.type = "save-slot" THEN @ \cup {a.slot} ELSE @ \ {a.slot}]
             /\ AwaitPreview(r, "pass", engine)
             /\ UNCHANGED <<doing, pass, tried, inside, outcome>>
     /\ UNCHANGED <<engine, model>>

(* The router answers the model request, which it may have carried out     *)
(* even if the answer is an error or is lost.                              *)
AnswerModel(r, ok) ==
  LET a == doing[r]
      up == engine[InstanceOf[a.target]] = "ready"
  IN /\ phase[r] = "asking" /\ a.type \in {"load-model", "unload-model"}
     /\ \/ /\ up
           /\ model' = [model EXCEPT
                ![a.target] = CASE a.type = "unload-model" -> "unloaded"
                                [] a.type = "load-model" /\ @ \in {"unloaded", "failed"} -> "loading"
                                [] OTHER -> @]
        \/ ~(up /\ ok) /\ UNCHANGED model
     /\ IF up /\ ok
        THEN AwaitPreview(r, "pass", engine) /\ UNCHANGED <<doing, pass, tried, inside, outcome>>
        ELSE Finish(r, "upstream") /\ UNCHANGED probeVars
     /\ UNCHANGED <<engine, saved>>

EndRequest(r) ==
  /\ phase[r] = "serving"
  /\ phase' = [phase EXCEPT ![r] = "ended"]
  /\ UNCHANGED <<engineVars, probeVars, seen, swaps, mode, doing, pass, tried, inside, outcome>>

-----------------------------------------------------------------------------
(* The engines. *)

EngineStep(i, from, to) ==
  /\ engine[i] \in from
  /\ engine' = [engine EXCEPT ![i] = to]
  /\ model' = [t \in Targets |-> IF t \in On(i) THEN "unloaded" ELSE model[t]]
  /\ UNCHANGED <<saved, probeVars, requestVars>>

Spawned(i) == EngineStep(i, {"starting"}, "loading")
Loaded(i) == EngineStep(i, {"loading"}, "ready")
Exited(i) == EngineStep(i, {"stopping"}, "stopped")
Crash(i) == i \in Fragile /\ EngineStep(i, {"starting", "loading", "ready"}, "failed")

ModelStep(t, to) ==
  /\ model[t] = "loading"
  /\ model' = [model EXCEPT ![t] = to]
  /\ UNCHANGED <<engine, saved, probeVars, requestVars>>

ModelLoaded(t) == ModelStep(t, "ready")
ModelFails(t) == ModelStep(t, "failed")

Init ==
  /\ engine = [i \in Instances |-> IF i \in Up THEN "ready" ELSE "stopped"]
  /\ model = [t \in Targets |-> "unloaded"]
  /\ saved = [t \in Targets |-> {}]
  /\ pending = [i \in Instances |-> "none"]
  /\ answer = [t \in Targets |-> "awaited"]
  /\ cache = [t \in Targets |->
       IF InstanceOf[t] \in Up THEN IF HasModel[t] /\ ModelLoadUnload[t] THEN "unloaded" ELSE "ready"
       ELSE IF HasModel[t] THEN "unknown" ELSE "stopped"]
  /\ seen = [r \in Requests |-> cache]
  /\ phase = [r \in Requests |-> "new"]
  /\ swaps = {}
  /\ mode = [r \in Requests |-> "initial"]
  /\ doing = [r \in Requests |-> Act("route-request", TargetFor[r])]
  /\ pass = [r \in Requests |-> 0]
  /\ tried = [r \in Requests |-> FALSE]
  /\ inside = {}
  /\ outcome = [r \in Requests |-> "none"]

(* What a request does unless it gives up. *)
Proceeds(r) ==
  \/ Admitted(r)
  \/ TakeLock(r)
  \/ Decide(r)
  \/ Poll(r)
  \/ CompleteStart(r)
  \/ \E ok \in BOOLEAN : AnswerSlot(r, ok) \/ AnswerModel(r, ok)
  \/ EndRequest(r)

RequestNext(r) == Begin(r) \/ Proceeds(r) \/ GiveUp(r)

EngineNext(i) == Spawned(i) \/ Loaded(i) \/ Exited(i) \/ Crash(i)

Next ==
  \/ \E r \in Requests : RequestNext(r)
  \/ \E i \in Instances : ProbeAnswered(i) \/ ProbeDone(i) \/ Reconcile(i) \/ EngineNext(i)
  \/ \E t \in Targets : ModelLoaded(t) \/ ModelFails(t)

Spec == Init /\ [][Next]_vars

-----------------------------------------------------------------------------
(* Safety. *)

(* An engine is told to stop, or a router to unload a model. *)
TakesDown(t) ==
  \/ engine[InstanceOf[t]] = "ready" /\ engine'[InstanceOf[t]] = "stopping"
  \/ \E q \in Requests : /\ phase[q] # "asking" /\ phase'[q] = "asking"
                         /\ doing'[q].type = "unload-model" /\ doing'[q].target = t

(* An executor never tells an engine to stop, or a router to unload a      *)
(* model, when a request in flight counts on it: one that is generating,   *)
(* but also one that was only routed there while the executor was saving   *)
(* slots or awaiting a preview.  (A request routed while the router's      *)
(* answer is awaited is not spared.)                                       *)
SparesInFlight ==
  [][\A r \in Requests : TakesDown(TargetFor[r]) => phase[r] \in {"new", "ended"}]_vars

(* An engine is stopped only once the slots its targets keep are on disk.  *)
SavedBeforeStop ==
  [][\A i \in Instances : engine[i] = "ready" /\ engine'[i] = "stopping" =>
       \A t \in On(i) : SavesSlots[t] /\ SlotSave[t] => Range(SlotIds[t]) \subseteq saved[t]]_vars

(* A request that went through the swap lock is dispatched to an engine    *)
(* that is up: whatever the previews it awaited had joined, no other       *)
(* executor has taken its engine down again.                               *)
SwappedMeansReady ==
  [][\A r \in inside : outcome'[r] = "ok" =>
       engine[InstanceFor(r)] = "ready" \/ InstanceFor(r) \in Fragile]_vars

Occupied(i) == engine[i] \in {"starting", "loading", "ready"}
Fit(S) == \A p \in DOMAIN Room : Used(p, S) <= Room[p]

(* What exceeds a pool is only ever engines that were told to stop and     *)
(* have not gone yet (NeverOversubscribed says that there are such         *)
(* moments): the others fit together.  A plan counts only the ready ones   *)
(* as resident; the lock is held until the engine is ready.  An executor   *)
(* that gave up left its engine loading.                                   *)
OnlyVictimsExceed ==
  (\A r \in Requests : outcome[r] \in {"none", "ok", "blocked"}) =>
    Fit({i \in Instances : Occupied(i)})

-----------------------------------------------------------------------------
(* Liveness: engines come up and go down, models load or fail, probes and  *)
(* requests to engines are answered, responses end, and who keeps polling  *)
(* comes to its timeout (an executor that holds the lock may poll for a    *)
(* victim that a request behind the lock keeps in flight).                 *)
Fairness ==
  /\ \A i \in Instances :
       /\ WF_vars(ProbeAnswered(i) \/ ProbeDone(i))
       /\ WF_vars(Spawned(i) \/ Loaded(i) \/ Exited(i))
  /\ \A t \in Targets : WF_vars(ModelLoaded(t) \/ ModelFails(t))
  /\ \A r \in Requests : WF_vars(Proceeds(r)) /\ SF_vars(GiveUp(r))

FairSpec == Spec /\ Fairness

(* No request waits for ever for its lease, the swap lock or its engine:   *)
(* each is dispatched and answered, or fails, if need be by its timeout.   *)
EveryReadinessEnds ==
  \A r \in Requests : phase[r] # "new" ~> phase[r] = "ended"

-----------------------------------------------------------------------------
(* What the documents say, and the code does not keep.                     *)

(* A start is reported as failed ("it exited immediately after starting")  *)
(* only when the engine did exit.                                          *)
StartFailureIsReal ==
  [][\A r \in Requests : outcome[r] = "none" /\ outcome'[r] = "startFailed" =>
       engine[InstanceFor(r)] = "failed"]_vars

(* Only an executor that holds the swap lock of its domains starts engines *)
(* and touches slots and models.                                           *)
MutatesUnderLock == \A r \in Requests : phase[r] \in {"starting", "asking"} => r \in inside

(* Swaps under the lock never over-subscribe a pool, not even for a        *)
(* moment: an engine is loaded when the one it replaces is gone.           *)
NeverOversubscribed == Fit({i \in Instances : Occupied(i) \/ engine[i] = "stopping"})

=============================================================================
