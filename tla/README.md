# Arriero: models and proofs

Arriero is a manager for local inference engines: it supervises engine processes
(llama.cpp, vLLM, SGLang and others), keeps their configuration, and puts an API
proxy in front of them that loads, evicts and preempts models so that requests fit
the memory of the machine. This directory holds TLA+ models of that program, the
TLC configurations that check them on small instances, and proofs, checked by
TLAPS, of what the coordinators promise for every instance.

All paths below are relative to `src/apps/api/src/` unless they begin with `docs/`.

## 1. The system

### Components, their state and their operations

| Component | State | Operations | What is hard |
|---|---|---|---|
| Compute-domain coordinator `proxy/domain-coordinator.ts` | holders, waiters, per-lease status, promise, preempt signal | `acquire`, `tryAcquireMaintenance`, `yield`, `release`, abort; the admission loop after each | one loop promotes several leases by a callback's verdicts; late aborts; a signal per stint; preferences against starvation |
| Swap coordinator `proxy/domain-swap-coordinator.ts` | the tail of a promise chain per pool | `run(domains, fn)` | several locks taken with awaits in between; release on failure |
| Memory scheduler `proxy/scheduler.ts` | none (pure) | `planApiProxyRequest`, `planApiProxyIdleMaintenance` | greedy eviction over several pools, shared instances, two tiers and five sort keys |
| Admission decider `proxy/domain-admission.ts` | the snapshot it captured | `decide` | an old snapshot overlaid with the current holders |
| Readiness executor `proxy/public-executor.ts`, `proxy/target-lifecycle.ts` | the pass counter, the instances started, the swap lock | one planned action per pass, waits, blocked waits | acts on previews that were awaited; stops are not awaited |
| Residency health `proxy/instance-health-cache.ts`, `proxy/runtime-snapshot.ts`, `proxy/runtime.ts` | cached health, pending probes, in-flight marks | live and cached snapshots, the reconcile loop | a probe under way is joined by later previews |
| Idle maintenance `proxy/idle-maintenance.ts` | none | the periodic pass under a maintenance lease | one plan, several awaited actions |
| Request path `proxy/protocol-endpoint.ts`, `proxy/gateway.ts`, `proxy/fusion.ts` | in-flight registry, lease | serve, preempt and resume, fuse | composition of everything above; cancellation at every await |
| Resumable forward `proxy/resumable-forward.ts`, `proxy/resume-replay.ts`, `proxy/pending-resume.ts`, `proxy/stream-session.ts` | partial output, sessions that wait for their client | yield and resume, park, claim, sweep | a client that comes back while the generation is swept or cancelled |
| Run reservation `proxy/run-reservation.ts` | reservations by run | reserve, drain, release | requests that passed the check before the reservation |
| Process supervision `process/supervised-child.ts`, `process/supervisor.ts`, `process/managed-lifecycle.ts` | one child per instance: pid, status, kill timer; launches in flight | start, stop, restart, shutdown; exit events and polls | engines outlive the manager; every check before a launch is followed by an await; pids are reused |
| Run records and recovery `process/runs-repository.ts`, `process/reconcile.ts`, `process/stale.ts` | the rows of past runs | adopt, flag as stale, defer or close after a restart; stop what is stale | the manager dies between any two steps |
| Downloads `hf/download-queue.ts`, `hf/transfer-engine.ts`, `hf/queue-store.ts` | jobs, queue, the run, the queue file | enqueue, cancel, pause, resume, remove, reorder, skip; the pump | cancel, pause, shutdown and failures arrive at the same moment; restart with a persisted queue |
| Background jobs `jobs/` | registry of active jobs | register, cancel at shutdown | cancellation against completion |
| Response cache, coalescing, broadcast `proxy/response-*.ts` | entries, leaders and followers | lookup, join, publish | a leader that fails after followers joined |
| Config store `config-store/` | files and their parsed form | read, write, reload | external edits during a write |

The remaining parts (routes, schemas, translation of message formats, builds,
environments, federation, database, web interface, and more) are listed in
`PROJECT.json` with the reason they are not modelled: they are I/O, data conversion or
records around the components above.

### How they interact

A request is routed, marked in flight, and planned on a **cached** snapshot. It
acquires a lease from the compute-domain coordinator; the coordinator asks the
request's `decide` callback, which runs the scheduler on the snapshot taken earlier,
overlaid with the current holders. Once admitted, a request whose plan has readiness
actions takes the swap lock of its pools, takes a **live** preview, and lets the
executor carry out the plan one action at a time, with a new preview after each. The
request is then forwarded; a preempted generation yields its lease and is replayed when it
is admitted again. Idle maintenance takes a maintenance lease without queueing.
Everything runs in one JavaScript thread: code between two awaits is atomic, and
every await is a point where any other task may run.

The executor starts and stops engines through the process supervision, and so do
operators, through routes that share no lock with it. The supervision keeps a
child per instance in memory and a row per run on disk; the engines are detached
processes, so a manager that comes back finds rows and processes and has to put them
together again. The download queue stands alone: it shares only the shutdown
sequence with the others.

### What makes each component correct

- **Coordinator**: leases that refuse each other never hold a pool together; maintenance is
  alone; no wake-up and no preemption is missed; signals belong to one stint; settled is
  final; order of admission; every waiter is served.
- **Swap coordinator**: exclusion per pool, first come first served, no deadlock.
- **Scheduler**: a plan makes room; it is blocked only when nothing lawful would; it evicts
  only what may be evicted, in the documented order; gateway and admission agree.
- **Executor and health**: nothing in flight is taken down; slots are saved before
  a stop; loads never overlap beyond the budget; requests go to engines that are up; every
  readiness run ends.
- **Supervision and run records**: memory, disk and processes agree; a run recorded as over is
  over; no second engine beside the first; no engine is forgotten by a restart; a stop cannot
  hang; no other process is signalled because it has an engine's old pid.
- **Downloads**: a restart loses nothing that was finished or answered; only the user
  cancels; every queued job gets its turn.
- **Planned components**: see the hazards in `PROJECT.json` that have a note and no property.

## 2. Modules

| Module | Models | Notes |
|---|---|---|
| `DomainCoordinator` | `proxy/domain-coordinator.ts` | every method with its admission loop is one action |
| `DomainCoordinator_proofs` | | its safety, for all constants |
| `ExclusiveAccess` | | what a per-pool lock promises, its liveness included |
| `DomainSwap` | `proxy/domain-swap-coordinator.ts` | one action per stretch between two awaits; implements `ExclusiveAccess` |
| `DomainSwap_proofs` | | its safety, and the safety part of the refinement |
| `Lists` | | two forms in which the code builds lists: what is pushed under a condition, and what a filter leaves |
| `Lists_proofs` | | lemmas on data: least elements, finite sets by their subsets, sums over sets, sequences that are concatenated, flattened and filtered |
| `MemoryPlan` | `proxy/scheduler.ts` | operators over a view of the snapshot |
| `MemoryPlan_proofs` | | lemmas: peers, draws on a pool, the order of victims, the loop of evictions, the shape of a plan |
| `MemoryPlanning` | the planner at work (`proxy/public-executor.ts`, `proxy/idle-maintenance.ts`) | a plan is carried out one action at a time and made again after each, while responses end and idle maintenance unloads; states the properties of the planner |
| `MemoryPlanning_proofs` | | its six properties, for all constants |
| `TargetReadiness` | `proxy/public-executor.ts`, `proxy/target-lifecycle.ts`, health probes and engines | extends `MemoryPlan`; uses the promise of `ExclusiveAccess` for the lock |
| `TargetReadiness_proofs` | | its invariants and the three action properties, for all constants its theorems admit; its use of the lock |
| `Supervision` | `process/supervised-child.ts`, `process/supervisor.ts`, `process/managed-lifecycle.ts`, `process/stale.ts`, `process/reconcile.ts`, the rows, the DELETE route | one action per stretch between two awaits or per event; crashes and restarts of the manager |
| `Supervision_proofs` | | its invariants and `SparesOthers`, for all constants |
| `DownloadQueue` | `hf/download-queue.ts`, outcomes of `hf/transfer-engine.ts`, `hf/queue-store.ts` | one action per handler or callback; the queue file is a variable |
| `DownloadQueue_proofs` | | `TypeOK`, `NothingLost` and `CanceledByUser`, for all constants |
| `MC…` | | small instances for TLC |

Operators whose name begins with `Bad` are faulty forms of the definition that
follows them (a dropped guard, a forgotten reset, a wrong order). They are not part of
any specification; each shows that some property would notice that fault.

### State and code

- `DomainCoordinator`: `holders`, `waiters`, `status`, `seq` are the fields of the
  class and of a lease. `promise` is what the caller of `acquire` or `yield` observes.
  `captured` is the environment of the request's `decide` closure, and
  `Admits`, `Preempts` are its answers: any function of that environment and of the
  overlapping holders. `Date.now()` appears only as a comparison of a waiter's age with two
  windows, so it is two watermarks over `seq` (`swapMark`, `contMark`); this assumes
  a clock that does not run backwards. `ScheduleAdmission` relates the state
  before the loop to the state after it through the sequence of promotions (`IsRun`);
  TLC computes that sequence with `RunOf`, and the proofs use the relation.
- `DomainSwap`: `chain[k]` is the chain of promises under key `k`, `released` the
  promises that have resolved, `passed` the locks a call holds.
- `MemoryPlan`: a view `v` has the fields of the plan request that change; what is
  configured is a constant. `Rounds` is the `while` loop of `planMemoryEvictions`, a function of the instances it
  still keeps (`kept`); TLC is given small integers for priorities, draws and budgets.
- `MemoryPlanning`: one request after the other is planned twice on the same view, with and without busy evictions
  (the admission policy and the gateway do so). `Pass` is a pass of the executor: the first action has its effect on
  what the snapshots show (`After`), and the plan is made again. An unloaded model of a router leaves its siblings ready.
  Between the passes responses end, and idle maintenance unloads targets outside the domains that are leased. Other
  executors, awaited previews and engines that are still going down are left to `TargetReadiness`.
- `TargetReadiness`: `phase`, `mode`, `pass` and `tried` are the program counter and the
  locals of `executeApiProxyPublicMvpPlan`; `pending`, `answer` and `cache` are the
  probe under way, what it has been answered, and the residency cache; `seen` is the preview that a
  request is awaiting; `engine`, `model`, `saved` are the processes, router models and saved
  slots. From the end of a preview to the next await is one step, as in the code.
  A queued request keeps the preview it had before the queue (`swaps`).
- `Supervision`: `child[i]` is the `SupervisedChild` of an instance (`timer` its
  `forceKillTimer`), `starting[i]` an entry of `startingInstances`, `rows` the table
  `process_runs`, `proc[p]` what the system runs under a pid and the strongest signal it has been sent.
  `op[c]` is where a request stands: in its preflight, waiting for a launch, for the exit
  of a child, or for a stale process. `defined` and `broken` are the definition files that are
  valid and quarantined. What runs under a pid is the engine of a run, a `Stranger`, or a `Lookalike`: a process that has
  the path of the engines' binary among its arguments, which is all that `processCommandMatchesBinary` looks
  at. `deferred` and `passedOver` record which runs `reconcileProcessRuns` has ever left alone (their definition was
  quarantined) and passed over (it adopted a later run of the instance); only properties read them.
- `DownloadQueue`: `jobs`, `queue` and `store` are `state` and the queue file; a job in the history
  is one with a final status. `run` is `currentRun` with what the transfer engine has left to do:
  the planned files that are not settled, the one being opened, and the flags `finalizeJob` looks at.

## 3. Runs

| Run | Instance | Shows |
|---|---|---|
| `coordinator_safety` | four leases, two pools, an exclusive and a shared policy, one maintenance lease; no clock; fairness | records agree, exclusion, maintenance alone, nothing missed, fresh signals, barrier, settled for good; every waiter is admitted or settled |
| `coordinator_order` | four leases on one pool with room for two, both windows | priority first, arrival order within a kind, no overtaking past the windows |
| `swap` | four swaps over three pools in a cycle of demands | exclusion, lock order, turn order, refinement with liveness |
| `plan` | every view of four instances (a router with two models among them) on two pools, every plan carried out | the six properties of the planner |
| `readiness` | a request and a fusion branch for two engines that do not fit together; a slot; a crash; joined probes; timeouts | nothing in flight is taken down, slots first, only what is stopping exceeds the pool, dispatched when ready |
| `router` | two requests for a router's model and one for an engine that does not fit beside it, models that fail to load, fairness | every readiness run ends, if need be by its timeout |
| `supervision` | one instance, two pids, two requests, three launches, two ends of the manager | records and processes agree, one engine, nothing forgotten but what a reconcile passed over, stops end, strangers spared |
| `downloads` | a job of two files and one of one, two requests of the user, one end of the manager, fairness | nothing lost, canceled by the user only, every job served |
| `start_joined`, `fusion_lock`, `oversubscribed` | one to two engines | divergences 1 to 3 of section 6 |
| `retried` | the instance of `downloads` | divergence 4 of section 6 |

**Bounds.** Three pools, or two with an overlapping request, suffice for cycles and partial overlap.
Four leases give every pair of roles (holder, waiter, suspended, maintenance) with a third
party and one more. Each request is made once, so the state spaces are finite without state
constraints, and `CHECK_DEADLOCK FALSE` is needed: the system stops when all
requests are over. `OrderNext` leaves out aborts (the safety run has them) and lets a window
pass for all leases made so far; passing it earlier gives the other marks.
`readiness` has a pass limit of 4 instead of 16, so that the limit is reached with one slot.
In `plan`, views are of residents that are up in any combination, as operators may start any of
them by hand. At most one target is pinned, and at most one wanted beside the busy ones; each may be the second model of
the router, which does not speak for it (see section 5). In `router`, the second request for the model queues behind the
swap lock while an executor that holds it may want to unload that model.
In `supervision`, `MaxRuns` bounds the launches and `MaxCrashes` the ends of the manager: three
launches give an engine that is adopted or stale, one that replaces it, and one more; two
ends let a restarted manager find what an earlier one adopted or had begun to stop. Instances do not
interact except through pids, and the proofs cover any number of them; two pids let one
engine run while another starts or while a stranger takes the old pid, and two requests give every race
of a start, stop, restart or deletion with another. Pids and requests are symmetric.
`downloads` bounds the requests about enqueued jobs (`MaxAsks`) and the ends of the manager
(`MaxEnds`). `CHECK_DEADLOCK FALSE` is needed in both: with the bounds used up and nothing left
to do they stop.

**Fairness.** Coordinator: a microtask runs, and a holder that holds again and again ends at
last (strong fairness: streams finish, and the number of resumptions is bounded).
Swap: awaits of resolved promises return and `fn` settles, as every wait
of the executor has a timeout. `TargetReadiness`: engines start, load and exit, probes
and slot requests are answered (they have HTTP timeouts), responses end, the event loop
gets to every task; a lease is granted, which is what the coordinator promises. Weak fairness
of what a request does (`Proceeds`) suffices for the lock: each request is made once, so the lock stays free in the
end. The timeouts (`GiveUp`) have strong fairness: a poll loop runs only until its deadline
(`proxy/public-executor.ts:177`, `:212`). Without them `EveryReadinessEnds` fails: the executor that holds the
lock polls until a victim is idle, and the victim may be kept in flight by a request that waits for that lock.
`DownloadQueue`: files get somewhere, as attempts and rate-limit waits are bounded and an engine without progress
declares a stall; callbacks run; an orderly shutdown is completed and a manager that is down is
started again (it is a service). Requests of the user, stalls, crashes and slow links are not fair.
`Supervision` has no liveness property and states no fairness: an engine may ignore every signal but SIGKILL, and
what the code itself can promise of a stop is the invariant `StopCannotHang`.

## 4. Proofs

TLAPS proves, for every set of leases, pools and policies (`RequestAssumption`,
`PolicyAssumption`): type correctness, `QueuesAgree`, `MaintenanceAlone`,
`HoldersCompatible`, `NoMissedAdmission`, `NoMissedPreemption`, `SettledForGood` and
`PreemptionBarrier`. The inductive invariant `IInv` is the conjunction of the invariants
with two facts that make it inductive: a lease that was requested has a
captured closure, and a queued abort belongs to a lease that was requested. The
argument: every handler first changes a few leases and then runs the admission loop.
`Admission` states what the loop establishes whatever came before it (a run
promotes only queued leases, each admissible beside the holders of that moment, and
ends when none is left), and the lemmas about it are used for every handler. `NoMissedAdmission` holds after
`TryAcquireMaintenance`, which skips the loop, because adding a maintenance holder can
only block further.

Also proved are the order of admission (`PriorityFirst`, `SameKindInTurn`, `StarvedKeepsTurn`) and `FreshStint`. Only
the loop starts a stint (`StintByLoop`), and the lease that a pass of it promotes came before every other lease that
was admissible in that pass (`PromotedInOrder`). One that stays queued and is admissible beside whatever the
loop has admitted so far was among them, so it is not of a higher priority. If the two are of one kind their
scores are equal, and if the other has starved there is no preference, so the sequence number decides. The loop signals a lease that
is admitted only when a pending one names it (`SignalsAskedFor`); its signal is reset when it yields, and a maintenance lease is never
signalled. All four are stated for any policy, also one that refuses beside some holders what it would admit beside more of them.

For the swap coordinator, for every set of calls and pools: `SwapsExclude`,
`ChainInTurn`, `LocksInOrder` and the safety part of `KeepsPromise`. `IInv` there says
that each call appears once in a chain, that the chains, the locks held and the phase
of a call match, and that a call that left has released everything.

For the supervision, for every set of instances, pids and requests and all bounds
(`SupervisionAssumption`): `TypeOK`, `RowsAgree`, `OverMeansDead`, `OneEngine`, `NobodyForgotten`,
`StopCannotHang` and `SparesOthers`. None of them is inductive by itself, and
`IInv` adds what they lean on. A manager that is down remembers nothing (`DownIdle`). A run has one process at most and nothing is
known of it before its launch (`OneProcess`, `NothingAhead`); the row of a live engine has its pid (`RowHasPid`). A child
has a run of its own, recorded for its instance (`ChildOwnsRun`); the pid it watches runs its engine, a process that an adoption took for it, or nothing
(`WatchesEngine`), and no engine outlives its child (`ChildOutlives`). A request that stops a stale process has that run
to itself, and the process has been told (`StopOwnsRun`, `ToldToStop`). Call an engine *undisturbed* when it has a
row, nobody has told it to stop, and no reconcile has left it alone: it belongs to the newest run of its
instance (`Newest`), there is none while the instance is being launched (`LaunchesAlone`), and a request that is past the
test for stale processes finds none later (`NoneStale`). Requests wait for what fits their goal (`CallsFit`), and a
kill timer is set only for a child that was asked to stop (`TimerAfterStop`).

The steps are of a few kinds (a request that moves on, a signal, a launch, the end of a child, the end of the
manager, a boot), and most lemmas say what one kind leaves alone. `OneEngine` follows from `Newest`: two undisturbed
engines of one instance would both be its newest run. `Newest` holds after a launch because of `LaunchesAlone`, which in turn holds
because a launch begins when the child is over, so its engine is gone (`ChildOutlives`), and any other undisturbed engine
would be stale (`Minded`), which the request has ruled out (`NoneStale`). At a boot only the latest
matching run is adopted, and by `Newest` that is the undisturbed one, if there is one.

`NobodyForgotten` does not accept a signal as an excuse: an engine that ignored SIGTERM must be watched, stale, or in the
hands of a call. A stale run becomes `stopping` only by a call that has it (`StaleIsStopped`) and that keeps it until it is gone or
is flagged again (`StopGoesOn`); a child watches its engine until that is gone (`KeepsWatching`); and a boot adopts,
flags or defers every live run but one: an earlier run of an instance whose latest run it adopts. Such a run is in
`passedOver`, and has been told to stop, as it would be the newest otherwise (`Minded`, `Newest`). Section 6 says what
becomes of it. `SparesOthers` is about processes without the engines' binary: one with it is adopted, and stopped, like an engine.

For the download queue, for every set of jobs and files and all bounds (`QueueAssumption`): `TypeOK`, `NothingLost` and
`CanceledByUser`. `TypeOK` says that the queue holds exactly the jobs that are not in the history, each once: what is
appended was in the history, what a filter leaves has no repetition if there was none (`OnlyInjective`), a new order is one
of the queued jobs placed after what is not queued, and a boot reopens no finished job. `IInv` adds to `NothingLost` what the steps that are not written to the file rely on. A manager that is
down runs nothing and knows what the file holds (`DownIdle`). The job of the run is running (`RunIsRunning`), so no
request about another job touches it. What the engine has not settled is pending or being downloaded, and a file being
opened is pending, unless the user took it out (`PlanAgrees`): when its download starts, which the file does not show,
a restart still finds it pending. An aborted run has a reason (`AbortHasReason`): the user canceled or paused it, the link is
slow, or the manager is closing; every reason but the first leads `finalizeJob` back to the queue or to a pause, which is
`CanceledByUser`. Every other step writes the file, and nothing can be lost after it (`SavedIsKept`).

For the planner, for every set of targets, instances, pools, draws, budgets, priorities and policies
(`PlanInputs`) and every view a snapshot can give (`PlanningInputs`): `PlanFits`, `BlockedOnlyIfHopeless`, `VictimsLawful`,
`LastResort`, `GateAgrees` and `NeverStranded`. The invariant `Planned` says only that the plans are those of the
view; five of the properties are facts about the plan of any view, and the last one relates two views. The loop is a function of the set of instances it
keeps, and what it computes is proved from one round of it. `RoundsEnd` shows that it ends, and that what it has kept
then (`kept`) either leaves no pool short, with a plan that unloads exactly the others, or leaves a pool short and
nothing eligible. It takes the smallest set of instances for which this fails (`SubsetInduction`, from the library's facts
on finite sets) and unfolds one round. From there: an eligible victim is one that `MayEvict`
allows (`VictimIsLawful`), so victims are lawful; if the loop stops short, nothing that draws on a short pool may be evicted, so
unloading all that may be unloaded frees nothing there (`DeficitIsTooMuch`), which is
`BlockedOnlyIfHopeless`; when a busy or a wanted victim is chosen, every instance left that draws on a short pool is
busy or wanted, or may not be evicted, so the rest would not have fitted (`RoundIsNeeded`), which is `LastResort`. If the
loop is content without busy victims, the loop that may take them never comes to choose one
(`RoundsAgree`), which is `GateAgrees`.

A plan counts a router as gone when its first model is unloaded, and the router is not. What is
proved is that this does no harm. Actions that load come last, so when the executor comes to one of them, the plan it has
just made unloads nobody, and the target fits beside every instance that is up, each in full (`FirstOfPlan`, `NoDeficitFits`): `PlanFits`.
Until then what is left to evict stays evictable: unloading one target, responses that end and idle maintenance take
residents away and never make one busy or protected (`StillEvictable`), so the plan after each pass is not blocked (`StillUnblocked`),
which is `NeverStranded`. It supposes that no pin is on a model that another model of its router speaks
for. Sums of bytes are compared as sums over a set and a subset of it.

For the readiness executor, for every set of requests and engines and whatever the engines do: `TypeOK`,
`SparesInFlight`, `SavedBeforeStop`, `SwappedMeansReady`, `OnlyVictimsExceed` and `UsesLockAsPromised`. `TypeOK` needs two facts (`Typed`): a slot being saved
is one of its target's, and a start is attempted within a pass, so the pass counter stays in range. The next two are about
previews whose parts are of different ages: `FirstAction` says what a planned first action can be, namely the
first step of loading the request's target or of unloading a target that the *preview* shows ready and idle.
`UnloadsSeen` and `SeenTogether` say what a preview may contain, of a probe that is under way, cached or seen: only models of routers are
ever `unloaded`, so nothing else is restarted by the plan that loads it, and the targets of one instance are read by
one probe, so they agree on whether the engine is up. A request is marked in flight before its first await, and the
marks are read when the preview is complete and not while its probes are under way, so a victim is none of them. That is
so when the engine is told to stop or the router is asked to unload; a request that is routed to the model while the
router's answer is awaited is not spared.

The last three are about the swap lock. Those inside share no pool (`OnePerPool`), and a step of a request under the
lock leaves, goes on without a preview, or looks again (`Leaves`, `Stays`, `Looks`; `StepKinds`). Only one that looks
again stops an engine, always one that shares a pool with its own, so never that of another request inside.
`SwappedMeansReady` needs that a request inside which has seen its target ready is right (`ReadySeen`). The danger is a
probe that read the engine as ready and reports it after the stop. Whoever stopped the engine awaits that very probe
before its next step, so it is still inside when the report comes (`StaleAwaited`), and nobody else who shares the pool is. A plan with nothing
left to do is one for a target that was seen ready (`NothingToDo`).

`OnlyVictimsExceed` needs the same of what a preview does *not* show, as a plan counts only engines seen ready. The
invariant (`Guarded`) holds until an executor has failed or given up. An engine that is up and may still be taken for
down is one that a request inside is starting (`Owned`), so every preview inside sees all other engines on its pools that are
up (`Complete`). An engine that is to be started is down and is reported as nothing else (`StartsCold`). What a request
starts fits beside every other engine that is up or may be taken for it, from the plan until it is ready (`FitsBeside`),
so it is never blocked by its own plan and does not leave the lock before its engine is seen ready (`Warm`, `LaunchedUnblocked`).
Engines that are stopping are not counted, and cannot be: that they exceed the pool for a while is divergence 3 of section 6.

`UsesLockAsPromised` is a refinement: the executors use the lock as callers of `ExclusiveAccess`, which `DomainSwap` implements.
`Place` says where a request stands: it asks when its first preview has it swap and its lease is granted, is inside while it is in `inside`, and has
left when it serves or ended. A step of a request outside enters only when nobody inside shares a pool and otherwise
changes nothing the lock could see but the asking (`OutsideSteps`); one inside stays or leaves for good (`InsideSteps`).

The theorems state what they suppose of the configuration:

- `Unmixed` (for `SparesInFlight`): the targets of one instance all name a model or none does, and they share
  `modelLoadUnload`, which belongs to the engine. A target without a model is `ready` when the process is, and one with a model when
  `/v1/models` lists it; with both kinds on one instance an engine can be stopped through the idle one of them while a
  request waits for the other, of which the planner knows only that it is not ready.
- `SaversAlone` (for `SavedBeforeStop`): a target that saves its slots has its instance to itself. The plan saves the
  slots of the one target that speaks for the instance and stops the engine, whatever other targets keep there.
- `FirstLive = {}` (for `SwappedMeansReady`, `OnlyVictimsExceed` and `UsesLockAsPromised`): every request is admitted before it previews, that is, there are no branches of
  a fusion. A branch that is blocked at first goes on without the lock when it no longer is (`MutatesUnderLock` in
  `fusion_lock`). In the run `readiness` one of the two requests is such a branch and the properties still hold; with two
  requests for the resident engine and a branch for the other one, TLC finds `OnlyVictimsExceed` violated.
- No target is a model that a router loads and unloads, and what is up at first fits (for `OnlyVictimsExceed`): a router with
  nothing loaded is no resident to the planner although its process is up, and TLC finds an engine started
  beside it that does not fit in the instance of `router`.

**Only model-checked**: liveness (`EveryWaiterServed`, `EveryReadinessEnds`, `EveryJobServed`, the fair part of
`KeepsPromise`), which is out of the prover's reach. `SwappedMeansReady` and `OnlyVictimsExceed` in the presence of a fusion
branch are checked on the instance of `readiness` only. Every other invariant and action property of a passing run is a theorem.

## 5. Abstractions and what is left out

- `TargetReadiness` has no coordinator: any routed request may be admitted at any time, so its
  safety covers every admission order. Its two counterexamples use orders that the
  coordinator allows.
- The swap lock in `TargetReadiness` is `ExclusiveAccess`: who waits is let in when nobody
  inside shares a pool. `DomainSwap` implements it, and `UsesLockAsPromised` shows that the
  executors are callers of it.
- A health probe is three steps: the process status is read, the endpoints answer, the summary is
  stored and handed to every preview that joined it. What the endpoints answer is what the
  engine is at that moment.
- Remote nodes, external targets (always ready) and targets without memory draws (no lease and
  no lock) are left out of `TargetReadiness`; its assumptions say so.
- `wait-instance-ready` is never the first readiness action of a plan the scheduler makes, so
  the executor's two waits, which differ only in that, are one.
- No caller yields a maintenance lease, and a caller releases only a lease it was handed;
  `DomainCoordinator` has those guards.
- The planner keeps the code's imprecision: a shared instance is represented by one of its targets, its pin and its
  being wanted are that one's, and unloading it counts as freeing the instance. In `MemoryPlanning` it frees nothing
  while a sibling is ready, and the executor, which plans again after each action, comes to the next model; `PlanFits` and
  `NeverStranded` say that this ends well, unless the next one is pinned.
- The warm-up branch of `planApiProxyIdleMaintenance` (a `preferredTargetId`) has no caller and is left out; the idle pass
  drops every action that is not a save, an unload or a stop.
- `GateAgrees` compares two plans on one view. `decide` plans on a snapshot overlaid with the current holders, which may
  be older; that is planned with `ServeRequest`.
- A router answers a model request after it has carried it out or not, in a step of its own (`AnswerModel`); an error or a
  lost answer tells nothing. A model may fail to load, and is then in error. `router` has no crashes of the router: a
  target with a model is `unknown` while nothing answers.
- `Supervision` merges `spawn`, `createRun` and the `spawn` event, which Node delivers before any
  other work; the crash between the first two is `CrashInLaunch`. Durations are left out: a wait with a timeout may end
  either way at any time. A pid is not taken by another process within the second between two polls of an adopted
  child, nor while a request waits for it (`Available`); it may be at any other time, and it goes to a process that looks like the engine or
  does not. All instances run one binary, so any engine passes for that of any other instance. Left out: references between RPC workers, renaming (refused while a run
  is open), stop reasons, the history limit, logs and cgroups. Every waiting request is bounded
  by a timeout in the code and may be overtaken by anything in the model.
- `DownloadQueue` leaves out bytes, chunks, connections and retries: a file being downloaded may succeed, fail, be
  canceled, stall or bring the transfer down; the last step of a file that is complete may throw (`FinalizeThrows`). Enqueueing begins when the plan has been fetched. The
  override of the slow-link check and the limit of the history are left out; a removed job may be asked for again. A
  file that is on disk counts as fetched.

## 6. Where code and documents disagree

1. `start_joined`: a live preview joins a probe that began before the start it should observe
   (`proxy/instance-health-cache.ts:17`), and the start is reported as failed.
   `docs/API_PROXY_FOUNDATION.md:324` says live previews observe the executor's own actions.
2. `fusion_lock`: a blocked first preview is carried out without the swap lock
   (`proxy/target-lifecycle.ts:47`), against `docs/RESOURCE_MANAGEMENT.md:173`.
3. `oversubscribed`: an eviction asks the engine to stop and does not wait (`proxy/public-executor.ts:318`), and an engine that
   is stopping is no resident to the next preview, so the next engine is started beside it.
   `docs/RESOURCE_MANAGEMENT.md:174` says there is no transient over-subscription. The planner's room is that
   of declared draws, so what exceeds it may or may not fit the device.
4. `retried`: a job with a failed file that is paused or interrupted later on ends as `succeeded`, because the next run
   plans only pending files and counts failures from zero (`hf/download-queue.ts:269`); without the
   interruption it ends as `failed`.

Also noticed, not run:

- the DELETE route asks the child to stop and does not wait (`routes/instances.routes.ts:353`), so the
  definition and its rows are removed while the engine runs, and a crash at that moment leaves it unknown;
  `docs/INSTANCES.md:40` says the record is removed only once nothing runs under the name. A start that was in its
  preflight is launched after the deletion;
- a run that was told to stop by a manager that ended before the engine did is passed over when the next manager adopts a
  later run of the instance (`process/reconcile.ts`, `process/supervisor.ts:206`): its row stays open, nobody watches it, and an engine that ignores
  SIGTERM runs on until the manager is started again;
- `README.md:120` speaks of a command line that no longer matches the launch snapshot; `process/pid.ts:18` looks for the path of
  the binary among the arguments, so another engine on a pid that came round again is adopted as the one that is gone;
- a pin on a model that another one of its router speaks for is seen only when that one has been unloaded: the
  request is then refused halfway (`NeverStranded` excludes it);
- a request that is routed to a model while its router is carrying out the unload finds it gone;
- a file whose last step throws (hash, rename, manifest) stays `downloading` and ends as `canceled` in a job that succeeded
  (`hf/transfer-engine.ts:594`, `:851`, `hf/download-queue.ts:485`);
- a target with a model is `unknown` until its engine answers, and `unknown` plans `start-instance`
  again (`proxy/scheduler.ts:108`), which the executor takes for a crash;
- a stop is not awaited, so reloading the engine that was just evicted fails while it stops, although
  `docs/RESOURCE_MANAGEMENT.md:183` says this happens transparently;
- loading engines are not residents, so an engine left loading by an executor that timed out is not counted;
  the pass limit; marks of suspended requests that block the request that preempted them;
- a restart that waits longer than 7 seconds returns the child that is still stopping as if it had been started
  (`process/supervisor.ts:261`); a child that is over hides a stale process of its instance from `stop`
  (`process/supervisor.ts:237`); while one request stops a stale process, a second start is not refused and runs beside the dying
  engine (`OneEngine` counts engines that have not been told to stop);
- a run deferred because its definition is quarantined is adopted only at the next start of the manager, and
  `docs/INSTANCES.md:98` speaks of fixing the file and reloading;
- an engine whose launch was in its preflight when `ARRIERO_STOP_MANAGED_ON_EXIT` stopped the others is started and survives;
- a file skipped while it is being opened is downloaded all the same, and `cancelRequested` is not honoured when the
  queue file is loaded after a crash.

## 7. Plan

Done: the coordinator with its proofs, the swap coordinator with its proofs and refinement,
the planner with its proofs, the executor with its proofs, the process supervision with its proofs, the download queue with the proofs of its safety. In this order:

1. **`ServeRequest`**: composes `DomainCoordinator` (its `decide` instantiated with the planner on
   a captured snapshot), the executor, the in-flight marks, idle maintenance and fusion. Aim: no
   engine is stopped under a lease holder; a preempting request and the one it suspended do
   not wait for each other; maintenance never stops what became active. Instance: two engines, three
   requests, one maintenance pass.
2. **`AdmissionGate`**: an abstract specification of what a client of the coordinator sees (who may hold
   together, exactly one outcome per request), with `DomainCoordinator` shown to implement it,
   by TLC and then by TLAPS.
3. **`RunReservation`**: reservation against queued requests and maintenance leases.
4. **`ResumeSession`**: pending resumes, stream sessions, claims and sweeps.
5. **`Coalesce`**, **`ChunkedTransfer`** (chunks, sidecar and part file of one download), **`ConfigStore`**, **`SlotTracker`**.
6. Proofs: the safety of the modules above as they are written, `AdmissionGate` first; `SwappedMeansReady` beside a
   fusion branch, for which the requests that act without the lock must be counted too.
