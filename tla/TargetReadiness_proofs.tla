------------------------ MODULE TargetReadiness_proofs ------------------------
(***************************************************************************)
(* Type correctness of the readiness executor; that it spares the targets  *)
(* of requests in flight, and saves slots before it stops engines; and     *)
(* what the swap lock is for: whoever leaves it finds its engine up, and   *)
(* what is loaded together fits.  The lock itself is used as the callers   *)
(* of ExclusiveAccess use it.                                              *)
(***************************************************************************)
EXTENDS TargetReadiness, MemoryPlan_proofs

EngineStates == {"stopped", "starting", "loading", "ready", "stopping", "failed"}
ProcessStatuses == {"none", "stopped", "starting", "running", "stopping"}
Phases == {"new", "queued", "lock", "preview", "sleep", "starting", "asking", "serving", "ended"}
Modes == {"initial", "pass", "blocked", "wait"}
Outcomes == {"none", "ok", "blocked", "timedOut", "startFailed", "upstream", "passes"}

(* What is saved are slots; a slot in progress is one of its target's.     *)
SlotsListed ==
  /\ saved \in [Targets -> SUBSET Nat]
  /\ doing \in [Requests -> ActionRec]
  /\ \A r \in Requests : phase[r] = "asking" /\ doing[r].type = "save-slot" =>
       doing[r].slot \in Range(SlotIds[doing[r].target])

(* A start is attempted within the pass that asked for it. *)
StartsInPass == \A r \in Requests : phase[r] = "starting" => pass[r] < MaxPasses

Typed == TypeOK /\ SlotsListed /\ StartsInPass

(* What the planner is asked about is a view. *)
LEMMA ViewsOfStates ==
  ASSUME Typed, NEW states \in [Targets -> States]
  PROVE  ViewOf(states) \in Views
<1>1. saved \in [Targets -> {slots \in SUBSET Nat : IsFiniteSet(slots)}]
  <2>1. \A t \in Targets : saved[t] \in SUBSET Nat /\ saved[t] \subseteq Range(SlotIds[t])
    BY DEF Typed, TypeOK, SlotsListed
  <2>2. \A t \in Targets : IsFiniteSet(Range(SlotIds[t]))
    BY PlanInputs, FiniteRange
  <2>3. \A t \in Targets : IsFiniteSet(saved[t])
    BY <2>1, <2>2, FS_Subset
  <2> QED BY <2>1, <2>3 DEF Typed, SlotsListed
<1>2. InFlight \in SUBSET Targets
  BY ReadinessInputs DEF InFlight
<1>3. [t \in Targets |-> 0] \in [Targets -> Nat]
  OBVIOUS
<1> QED BY <1>1, <1>2, <1>3 DEF ViewOf, Views

(* The action a request's executor takes on the preview it has.            *)
Todo(r) == ReadinessActions(PreviewFor(r, seen[r]))

LEMMA SeenStates ==
  ASSUME Typed, NEW r \in Requests, \A t \in Targets : seen[r][t] # "awaited"
  PROVE  seen[r] \in [Targets -> States]
  BY DEF Typed, TypeOK

LEMMA TodoFacts ==
  ASSUME Typed, NEW r \in Requests, \A t \in Targets : seen[r][t] # "awaited",
         Len(Todo(r)) # 0
  PROVE  LET v == ViewOf(seen[r])
             a == Head(Todo(r))
         IN /\ v \in Views
            /\ a \in ActionRec
            /\ a.type # "route-request"
            /\ \/ a \in Loads(v, TargetFor[r])
               \/ \E u \in Targets : /\ IdleVictim(v, TargetFor[r], u)
                                     /\ Len(UnloadActions(v, u)) # 0
                                     /\ a = Head(UnloadActions(v, u))
<1> DEFINE v == ViewOf(seen[r])
           t == TargetFor[r]
<1>1. v \in Views
  BY SeenStates, ViewsOfStates
<1>2. t \in Targets
  BY ReadinessInputs
<1>3. Todo(r) = ReadinessActions(PlanRequest(v, t, FALSE))
  BY DEF Todo, PreviewFor
<1> HIDE DEF v, t
<1>4. Len(ReadinessActions(PlanRequest(v, t, FALSE))) # 0
  BY <1>3
<1> QED BY <1>1, <1>2, <1>3, <1>4, FirstAction DEF v, t

(* A slot that is saved is one of its target's. *)
LEMMA SavesListed ==
  ASSUME Typed, NEW r \in Requests, \A t \in Targets : seen[r][t] # "awaited",
         Len(Todo(r)) # 0, Head(Todo(r)).type = "save-slot"
  PROVE  Head(Todo(r)).slot \in Range(SlotIds[Head(Todo(r)).target])
<1> DEFINE v == ViewOf(seen[r])
           a == Head(Todo(r))
<1>1. v \in Views /\ a \notin Loads(v, TargetFor[r])
  BY TodoFacts DEF Loads
<1>2. PICK u \in Targets : Len(UnloadActions(v, u)) # 0 /\ a = Head(UnloadActions(v, u))
  BY <1>1, TodoFacts
<1> HIDE DEF v, a
<1>3. a.slot \in Range(SlotIds[u])
  <2>1. a.type = "save-slot"
    BY DEF a
  <2> QED BY <1>1, <1>2, <2>1, UnloadStarts
<1>4. a.target = u
  <2>1. UnloadActions(v, u) \in Seq(ActionRec) /\ UnloadActions(v, u) # << >>
        /\ \A x \in Range(UnloadActions(v, u)) : x.target = u
    BY <1>1, <1>2, UnloadActionsFacts
  <2> QED BY <1>2, <2>1, RangeHead
<1> QED BY <1>3, <1>4 DEF a

-----------------------------------------------------------------------------
(* What a step of an executor can be. *)

(* A step that only moves the request on. *)
Quiet(r) ==
  /\ UNCHANGED <<engineVars, probeVars>>
  /\ \/ \E result \in Outcomes : Finish(r, result)
     \/ WaitForLock(r)
     \/ Await(r)
     \/ /\ phase' = [phase EXCEPT ![r] = "sleep"]
        /\ mode' = [mode EXCEPT ![r] = "blocked"]
        /\ UNCHANGED <<seen, swaps, doing, pass, tried, inside, outcome>>

(* One that takes the first readiness action of its preview. *)
Acts(r) ==
  LET a == Head(Todo(r))
  IN /\ phase[r] = "preview"
     /\ \A t \in Targets : seen[r][t] # "awaited"
     /\ Len(Todo(r)) # 0
     /\ pass[r] < MaxPasses
     /\ \/ AskEngine(r, a)
        \/ StopInstance(r, a)
       
        \/ StartInstance(r, a)
        \/ WaitReady(r, a)

LEMMA PassSteps ==
  ASSUME Typed, NEW r \in Requests, phase[r] = "preview",
         \A t \in Targets : seen[r][t] # "awaited",
         RunPass(r, PreviewFor(r, seen[r]))
  PROVE  \/ Finish(r, "passes") /\ UNCHANGED <<engineVars, probeVars>>
         \/ Todo(r) = << >> /\ Finish(r, "ok") /\ UNCHANGED <<engineVars, probeVars>>
         \/ Acts(r)
<1> DEFINE todo == Todo(r)
<1>1. todo = ReadinessActions(PreviewFor(r, seen[r]))
  BY DEF Todo
<1>2. pass[r] \in 0..MaxPasses /\ MaxPasses \in Nat
  BY ReadinessInputs DEF Typed, TypeOK
<1>3. CASE pass[r] = MaxPasses
  BY <1>2, <1>3 DEF RunPass
<1>4. CASE pass[r] < MaxPasses /\ todo = << >>
  BY <1>1, <1>2, <1>4 DEF RunPass
<1>5. CASE pass[r] # MaxPasses /\ todo # << >>
  <2>1. \E a \in {Head(todo)} :
          \/ AskEngine(r, a)
          \/ StopInstance(r, a)
         
          \/ StartInstance(r, a)
          \/ WaitReady(r, a)
    BY <1>1, <1>5 DEF RunPass
  <2>2. todo \in Seq(ActionRec)
    <3>1. ViewOf(seen[r]) \in Views /\ TargetFor[r] \in Targets /\ FALSE \in BOOLEAN
      BY SeenStates, ViewsOfStates, ReadinessInputs
    <3>2. PreviewFor(r, seen[r]).actions \in Seq(ActionRec)
      BY <3>1, PlanShape DEF PreviewFor
    <3> HIDE DEF todo
    <3> QED BY <1>1, <3>2, OnlyKeeps DEF ReadinessActions
  <2>3. Len(todo) # 0
    <3> HIDE DEF todo
    <3> QED BY <1>5, <2>2
  <2>4. pass[r] < MaxPasses
    BY <1>2, <1>5
  <2> QED BY <2>1, <2>3, <2>4 DEF Acts
<1> QED BY <1>2, <1>3, <1>4, <1>5

LEMMA DecideSteps ==
  ASSUME Typed, NEW r \in Requests, Decide(r)
  PROVE  Quiet(r) \/ Acts(r)
<1> DEFINE plan == PreviewFor(r, seen[r])
<1>1. /\ phase[r] = "preview"
      /\ \A t \in Targets : seen[r][t] # "awaited"
      /\ \/ EnterReadiness(r, plan) /\ UNCHANGED <<engineVars, probeVars>>
         \/ RunUnblock(r, plan)
         \/ RunWait(r, plan)
  BY DEF Decide
<1>2. RunPass(r, plan) => Quiet(r) \/ Acts(r)
  BY <1>1, PassSteps DEF Quiet, Outcomes
<1> HIDE DEF plan
<1>3. CASE EnterReadiness(r, plan) /\ UNCHANGED <<engineVars, probeVars>>
  <2>1. \/ WaitForLock(r)
        \/ Finish(r, "ok")
        \/ /\ phase' = [phase EXCEPT ![r] = "sleep"]
           /\ mode' = [mode EXCEPT ![r] = "blocked"]
           /\ UNCHANGED <<seen, swaps, doing, pass, tried, inside, outcome>>
    BY <1>3 DEF EnterReadiness
  <2> QED BY <1>3, <2>1 DEF Quiet, Outcomes
<1>4. CASE RunUnblock(r, plan)
  <2>1. \/ RunPass(r, plan)
        \/ /\ phase' = [phase EXCEPT ![r] = "sleep"]
           /\ mode' = [mode EXCEPT ![r] = "blocked"]
           /\ UNCHANGED <<engineVars, probeVars, seen, swaps, doing, pass, tried, inside, outcome>>
    BY <1>4 DEF RunUnblock
  <2> QED BY <1>2, <2>1 DEF Quiet, engineVars, probeVars
<1>5. CASE RunWait(r, plan)
  <2>1. \/ Finish(r, "blocked") /\ UNCHANGED <<engineVars, probeVars>>
        \/ Await(r) /\ UNCHANGED <<engineVars, probeVars>>
        \/ RunPass(r, plan)
    BY <1>5 DEF RunWait
  <2> QED BY <1>2, <2>1 DEF Quiet, Outcomes
<1> QED BY <1>1, <1>3, <1>4, <1>5

-----------------------------------------------------------------------------
(* Type correctness. *)

LEMMA StatusType ==
  ASSUME NEW e \in EngineStates
  PROVE  RuntimeStatus(e) \in {"stopped", "starting", "running", "stopping"}
  BY DEF EngineStates, RuntimeStatus

LEMMA ReadTypes ==
  ASSUME NEW t \in Targets, NEW status \in ProcessStatuses, NEW e \in EngineStates, Typed,
         NEW s \in StatesRead(t, status, e)
  PROVE  s \in States
<1>1. model[t] \in {"unloaded", "loading", "ready", "failed"}
  BY DEF Typed, TypeOK
<1>2. CASE ~HasModel[t]
  <2>1. s \in ProcessStates(status, e)
    BY <1>2 DEF StatesRead
  <2> QED BY <2>1 DEF ProcessStates, ProcessStatuses, EngineStates, States
<1>3. CASE HasModel[t]
  BY <1>1, <1>3 DEF StatesRead, States
<1> QED BY <1>2, <1>3

(* What awaiting a preview does to the state. *)
LEMMA AwaitTypes ==
  ASSUME Typed, NEW r \in Requests, NEW m \in Modes, NEW e \in [Instances -> EngineStates],
         AwaitPreview(r, m, e)
  PROVE  /\ phase' \in [Requests -> Phases] /\ mode' \in [Requests -> Modes]
         /\ phase' = [phase EXCEPT ![r] = "preview"]
         /\ seen' \in [Requests -> [Targets -> States \cup {"awaited"}]]
         /\ pending' \in [Instances -> ProcessStatuses]
         /\ UNCHANGED <<answer, cache, swaps>>
<1>1. phase \in [Requests -> Phases] /\ mode \in [Requests -> Modes]
      /\ seen \in [Requests -> [Targets -> States \cup {"awaited"}]]
      /\ pending \in [Instances -> ProcessStatuses]
  BY DEF Typed, TypeOK, Phases, Modes, ProcessStatuses
<1>2. "preview" \in Phases
  BY DEF Phases
<1>3. phase' \in [Requests -> Phases] /\ mode' \in [Requests -> Modes]
  BY <1>1, <1>2 DEF AwaitPreview
<1>4. [t \in Targets |-> "awaited"] \in [Targets -> States \cup {"awaited"}]
  OBVIOUS
<1>5. seen' \in [Requests -> [Targets -> States \cup {"awaited"}]]
  BY <1>1, <1>4 DEF AwaitPreview
<1>6. \A i \in Instances : RuntimeStatus(e[i]) \in ProcessStatuses
  BY StatusType DEF ProcessStatuses
<1>7. pending' \in [Instances -> ProcessStatuses]
  BY <1>1, <1>6 DEF AwaitPreview, PendingAfterProbes
<1> QED BY <1>3, <1>5, <1>7 DEF AwaitPreview

(* The conjuncts of Typed, by what disturbs them together. *)
EngineTyped ==
  /\ engine \in [Instances -> EngineStates]
  /\ model \in [Targets -> {"unloaded", "loading", "ready", "failed"}]
SavedTyped ==
  /\ saved \in [Targets -> SUBSET Nat]
  /\ \A t \in Targets : saved[t] \subseteq Range(SlotIds[t])
ProbesTyped ==
  /\ pending \in [Instances -> ProcessStatuses]
  /\ answer \in [Targets -> States \cup {"awaited"}]
  /\ cache \in [Targets -> States]
PreviewsTyped ==
  /\ seen \in [Requests -> [Targets -> States \cup {"awaited"}]]
  /\ swaps \subseteq Requests
  /\ mode \in [Requests -> Modes]
PassesTyped ==
  /\ phase \in [Requests -> Phases]
  /\ pass \in [Requests -> 0..MaxPasses]
  /\ \A r \in Requests : phase[r] = "starting" => pass[r] < MaxPasses
DoingTyped ==
  /\ doing \in [Requests -> ActionRec]
  /\ \A r \in Requests : phase[r] = "asking" /\ doing[r].type = "save-slot" =>
       doing[r].slot \in Range(SlotIds[doing[r].target])
ResultsTyped ==
  /\ tried \in [Requests -> BOOLEAN]
  /\ inside \subseteq Requests
  /\ outcome \in [Requests -> Outcomes]

LEMMA TypedParts ==
  Typed <=> /\ EngineTyped /\ SavedTyped /\ ProbesTyped /\ PreviewsTyped
            /\ PassesTyped /\ DoingTyped /\ ResultsTyped
<1>1. Typed => /\ EngineTyped /\ SavedTyped /\ ProbesTyped /\ PreviewsTyped
               /\ PassesTyped /\ DoingTyped /\ ResultsTyped
  BY DEF Typed, TypeOK, SlotsListed, StartsInPass, EngineTyped, SavedTyped, ProbesTyped,
         PreviewsTyped, PassesTyped, DoingTyped, ResultsTyped, EngineStates, ProcessStatuses,
         Phases, Modes, Outcomes
<1>2. ASSUME EngineTyped, SavedTyped, ProbesTyped, PreviewsTyped, PassesTyped, DoingTyped,
             ResultsTyped
      PROVE  Typed
  <2>1. TypeOK
    BY <1>2 DEF TypeOK, EngineTyped, SavedTyped, ProbesTyped, PreviewsTyped, PassesTyped,
                ResultsTyped, EngineStates, ProcessStatuses, Phases, Modes, Outcomes
  <2> QED BY <1>2, <2>1 DEF Typed, SlotsListed, StartsInPass, SavedTyped, PassesTyped, DoingTyped
<1> QED BY <1>1, <1>2

LEMMA TypedPartsNext ==
  ASSUME EngineTyped', SavedTyped', ProbesTyped', PreviewsTyped', PassesTyped', DoingTyped',
         ResultsTyped'
  PROVE  Typed'
<1>1. TypeOK'
  BY DEF TypeOK, EngineTyped, SavedTyped, ProbesTyped, PreviewsTyped, PassesTyped,
         ResultsTyped, EngineStates, ProcessStatuses, Phases, Modes, Outcomes
<1> QED BY <1>1 DEF Typed, SlotsListed, StartsInPass, SavedTyped, PassesTyped, DoingTyped

(* A move of one request to a phase in which nothing is in progress.       *)
LEMMA MoveTypes ==
  ASSUME Typed, NEW r \in Requests, NEW to \in Phases \ {"starting", "asking"},
         phase' = [phase EXCEPT ![r] = to],
         UNCHANGED <<doing>>,
         pass' \in [Requests -> 0..MaxPasses],
         \A q \in Requests \ {r} : pass'[q] = pass[q]
  PROVE  PassesTyped' /\ DoingTyped'
<1>1. PassesTyped /\ DoingTyped
  BY TypedParts
<1>2. phase' \in [Requests -> Phases]
  BY <1>1 DEF PassesTyped
<1>3. \A q \in Requests : phase'[q] = IF q = r THEN to ELSE phase[q]
  BY <1>1 DEF PassesTyped
<1>4. \A q \in Requests : phase'[q] = "starting" => pass'[q] < MaxPasses
  BY <1>1, <1>3 DEF PassesTyped
<1>5. DoingTyped'
  BY <1>1, <1>3 DEF DoingTyped
<1> QED BY <1>2, <1>4, <1>5 DEF PassesTyped

LEMMA SamePasses ==
  ASSUME Typed, UNCHANGED pass
  PROVE  pass' \in [Requests -> 0..MaxPasses] /\ \A q \in Requests : pass'[q] = pass[q]
  BY DEF Typed, TypeOK

LEMMA MorePasses ==
  ASSUME Typed, NEW r \in Requests, pass[r] < MaxPasses, NextPass(r)
  PROVE  pass' \in [Requests -> 0..MaxPasses] /\ \A q \in Requests \ {r} : pass'[q] = pass[q]
<1>1. pass \in [Requests -> 0..MaxPasses] /\ MaxPasses \in Nat
  BY ReadinessInputs DEF Typed, TypeOK
<1>2. pass[r] + 1 \in 0..MaxPasses
  BY <1>1
<1> QED BY <1>1, <1>2 DEF NextPass

(* Steps that only move the request on. *)
LEMMA QuietTypes ==
  ASSUME Typed, NEW r \in Requests, Quiet(r)
  PROVE  Typed'
<1>1. EngineTyped /\ SavedTyped /\ ProbesTyped /\ PreviewsTyped /\ ResultsTyped
  BY TypedParts
<1>2. EngineTyped' /\ SavedTyped' /\ ProbesTyped'
  BY <1>1 DEF Quiet, engineVars, probeVars, EngineTyped, SavedTyped, ProbesTyped
<1>3. UNCHANGED <<seen, swaps, doing, pass, tried>>
  BY DEF Quiet, Finish, WaitForLock, Await
<1>4. mode' = mode \/ mode' = [mode EXCEPT ![r] = "blocked"]
  BY DEF Quiet, Finish, WaitForLock, Await
<1>5. PreviewsTyped'
  BY <1>1, <1>3, <1>4 DEF PreviewsTyped, Modes
<1>6. \/ UNCHANGED <<inside, outcome>>
      \/ \E result \in Outcomes :
           outcome' = [outcome EXCEPT ![r] = result] /\ inside' = inside \ {r}
  BY DEF Quiet, Finish, WaitForLock, Await
<1>7. ResultsTyped'
  BY <1>1, <1>3, <1>6 DEF ResultsTyped
<1>8. \E to \in Phases \ {"starting", "asking"} : phase' = [phase EXCEPT ![r] = to]
  BY DEF Quiet, Finish, WaitForLock, Await, Phases
<1>9. PassesTyped' /\ DoingTyped'
  BY <1>3, <1>8, SamePasses, MoveTypes
<1> QED BY <1>2, <1>5, <1>7, <1>9, TypedPartsNext

LEMMA AwaitSteps ==
  ASSUME Typed, NEW r \in Requests, NEW m \in Modes, NEW e \in [Instances -> EngineStates],
         AwaitPreview(r, m, e), UNCHANGED doing,
         pass' \in [Requests -> 0..MaxPasses],
         \A q \in Requests \ {r} : pass'[q] = pass[q]
  PROVE  ProbesTyped' /\ PreviewsTyped' /\ PassesTyped' /\ DoingTyped'
<1>1. ProbesTyped /\ PreviewsTyped
  BY TypedParts
<1>2. /\ phase' = [phase EXCEPT ![r] = "preview"]
      /\ mode' \in [Requests -> Modes]
      /\ seen' \in [Requests -> [Targets -> States \cup {"awaited"}]]
      /\ pending' \in [Instances -> ProcessStatuses]
      /\ UNCHANGED <<answer, cache, swaps>>
  BY AwaitTypes
<1>3. ProbesTyped' /\ PreviewsTyped'
  BY <1>1, <1>2 DEF ProbesTyped, PreviewsTyped
<1>4. "preview" \in Phases \ {"starting", "asking"}
  BY DEF Phases
<1>5. PassesTyped' /\ DoingTyped'
  BY <1>2, <1>4, MoveTypes
<1> QED BY <1>3, <1>5

(* The actions of a pass. *)
LEMMA ActsTypes ==
  ASSUME Typed, NEW r \in Requests, Acts(r)
  PROVE  Typed'
<1> DEFINE a == Head(Todo(r))
<1>1. /\ EngineTyped /\ SavedTyped /\ ProbesTyped /\ PreviewsTyped
      /\ PassesTyped /\ DoingTyped /\ ResultsTyped
  BY TypedParts
<1>2. /\ pass[r] < MaxPasses
      /\ Len(Todo(r)) # 0
      /\ \A t \in Targets : seen[r][t] # "awaited"
  BY DEF Acts
<1>3. a \in ActionRec /\ (a.type = "save-slot" => a.slot \in Range(SlotIds[a.target]))
  BY <1>2, TodoFacts, SavesListed
<1>4. engine \in [Instances -> EngineStates] /\ a.target \in Targets
  BY <1>1, <1>3 DEF EngineTyped, ActionRec
<1>5. "pass" \in Modes /\ "wait" \in Modes
  BY DEF Modes
<1>6. Acts(r) => \/ AskEngine(r, a) \/ StopInstance(r, a)
                 \/ StartInstance(r, a) \/ WaitReady(r, a)
  BY DEF Acts
<1> HIDE DEF a
<1>7. CASE AskEngine(r, a)
  <2>1. /\ phase' = [phase EXCEPT ![r] = "asking"] /\ doing' = [doing EXCEPT ![r] = a]
        /\ NextPass(r)
        /\ UNCHANGED <<engine, model, saved, pending, answer, cache, seen, swaps, mode, tried,
                       inside, outcome>>
    BY <1>7 DEF AskEngine, engineVars, probeVars
  <2>2. EngineTyped' /\ SavedTyped' /\ ProbesTyped' /\ PreviewsTyped' /\ ResultsTyped'
    BY <1>1, <2>1 DEF EngineTyped, SavedTyped, ProbesTyped, PreviewsTyped, ResultsTyped
  <2>3. pass' \in [Requests -> 0..MaxPasses] /\ \A q \in Requests \ {r} : pass'[q] = pass[q]
    BY <1>2, <2>1, MorePasses
  <2>4. PassesTyped'
    <3>1. phase' \in [Requests -> Phases]
      BY <1>1, <2>1 DEF PassesTyped, Phases
    <3>2. \A q \in Requests : phase'[q] = IF q = r THEN "asking" ELSE phase[q]
      BY <1>1, <2>1 DEF PassesTyped
    <3> QED BY <1>1, <2>3, <3>1, <3>2 DEF PassesTyped
  <2>5. DoingTyped'
    <3>1. doing' \in [Requests -> ActionRec]
      BY <1>1, <1>3, <2>1 DEF DoingTyped
    <3>2. \A q \in Requests : /\ phase'[q] = IF q = r THEN "asking" ELSE phase[q]
                              /\ doing'[q] = IF q = r THEN a ELSE doing[q]
      BY <1>1, <2>1 DEF PassesTyped, DoingTyped
    <3> QED BY <1>1, <1>3, <3>1, <3>2 DEF DoingTyped
  <2> QED BY <2>2, <2>4, <2>5, TypedPartsNext
<1>8. CASE StopInstance(r, a)
  <2>1. engine' \in [Instances -> EngineStates]
    BY <1>4, <1>8 DEF StopInstance, RequestStop, EngineStates
  <2>2. AwaitPreview(r, "pass", engine') /\ NextPass(r)
        /\ UNCHANGED <<model, saved, doing, tried, inside, outcome>>
    BY <1>8 DEF StopInstance
  <2>3. EngineTyped' /\ SavedTyped' /\ ResultsTyped'
    BY <1>1, <2>1, <2>2 DEF EngineTyped, SavedTyped, ResultsTyped
  <2>4. ProbesTyped' /\ PreviewsTyped' /\ PassesTyped' /\ DoingTyped'
    BY <1>2, <1>5, <2>1, <2>2, MorePasses, AwaitSteps
  <2> QED BY <2>3, <2>4, TypedPartsNext
<1>10. CASE StartInstance(r, a)
  <2>1. CASE tried[r]
    <3>1. Finish(r, "startFailed") /\ UNCHANGED <<engineVars, probeVars>>
      BY <1>10, <2>1 DEF StartInstance
    <3>2. Quiet(r)
      BY <3>1 DEF Quiet, Outcomes
    <3> QED BY <3>2, QuietTypes
  <2>2. CASE ~tried[r]
    <3>1. /\ phase' = [phase EXCEPT ![r] = "starting"] /\ tried' = [tried EXCEPT ![r] = TRUE]
          /\ UNCHANGED <<engine, model, saved, pending, answer, cache, seen, swaps, mode, doing,
                         pass, inside, outcome>>
      BY <1>10, <2>2 DEF StartInstance, engineVars, probeVars
    <3>2. EngineTyped' /\ SavedTyped' /\ ProbesTyped' /\ PreviewsTyped' /\ ResultsTyped'
      BY <1>1, <3>1 DEF EngineTyped, SavedTyped, ProbesTyped, PreviewsTyped, ResultsTyped
    <3>3. \A q \in Requests : phase'[q] = IF q = r THEN "starting" ELSE phase[q]
      BY <1>1, <3>1 DEF PassesTyped
    <3>4. PassesTyped'
      <4>1. phase' \in [Requests -> Phases]
        BY <1>1, <3>1 DEF PassesTyped, Phases
      <4> QED BY <1>1, <1>2, <3>1, <3>3, <4>1 DEF PassesTyped
    <3>5. DoingTyped'
      BY <1>1, <3>1, <3>3 DEF DoingTyped
    <3> QED BY <3>2, <3>4, <3>5, TypedPartsNext
  <2> QED BY <2>1, <2>2
<1>11. CASE WaitReady(r, a)
  <2>1. AwaitPreview(r, "wait", engine) /\ NextPass(r)
        /\ UNCHANGED <<engine, model, saved, doing, tried, inside, outcome>>
    BY <1>11 DEF WaitReady, engineVars
  <2>2. EngineTyped' /\ SavedTyped' /\ ResultsTyped'
    BY <1>1, <2>1 DEF EngineTyped, SavedTyped, ResultsTyped
  <2>3. ProbesTyped' /\ PreviewsTyped' /\ PassesTyped' /\ DoingTyped'
    BY <1>2, <1>4, <1>5, <2>1, MorePasses, AwaitSteps
  <2> QED BY <2>2, <2>3, TypedPartsNext
<1> QED BY <1>6, <1>7, <1>8, <1>10, <1>11

(* What the answer of a router does. *)
LEMMA ModelAnswered ==
  ASSUME Typed, NEW r \in Requests, NEW ok \in BOOLEAN, AnswerModel(r, ok)
  PROVE  /\ phase[r] = "asking"
         /\ EngineTyped'
         /\ UNCHANGED <<engine, saved>>
         /\ \/ AwaitPreview(r, "pass", engine) /\ UNCHANGED <<doing, pass, tried, inside, outcome>>
            \/ Finish(r, "upstream") /\ UNCHANGED probeVars
<1> DEFINE t == doing[r].target
           m == CASE doing[r].type = "unload-model" -> "unloaded"
                  [] doing[r].type = "load-model" /\ model[t] \in {"unloaded", "failed"} -> "loading"
                  [] OTHER -> model[t]
<1>1. EngineTyped /\ t \in Targets
  BY TypedParts DEF DoingTyped, ActionRec
<1>2. UNCHANGED model \/ model' = [model EXCEPT ![t] = m]
  BY DEF AnswerModel
<1>3. m \in {"unloaded", "loading", "ready", "failed"}
  BY <1>1 DEF EngineTyped
<1> HIDE DEF m, t
<1>4. UNCHANGED <<engine, saved>>
  BY DEF AnswerModel
<1>5. EngineTyped'
  BY <1>1, <1>2, <1>3, <1>4 DEF EngineTyped
<1> QED BY <1>4, <1>5 DEF AnswerModel

(* The other steps of a request. *)
LEMMA RequestTypes ==
  ASSUME Typed, NEW r \in Requests, RequestNext(r)
  PROVE  Typed'
<1>1. /\ EngineTyped /\ SavedTyped /\ ProbesTyped /\ PreviewsTyped
      /\ PassesTyped /\ DoingTyped /\ ResultsTyped
  BY TypedParts
<1>2. engine \in [Instances -> EngineStates]
  BY <1>1 DEF EngineTyped
<1>3. "pass" \in Modes /\ "initial" \in Modes /\ mode[r] \in Modes
  BY <1>1 DEF Modes, PreviewsTyped
<1>4. CASE Begin(r)
  <2>1. CASE AwaitPreview(r, "initial", engine) /\ UNCHANGED <<doing, pass, tried, inside, outcome>>
             /\ UNCHANGED engineVars
    <3>1. EngineTyped' /\ SavedTyped' /\ ResultsTyped'
      BY <1>1, <2>1 DEF EngineTyped, SavedTyped, ResultsTyped, engineVars
    <3>2. ProbesTyped' /\ PreviewsTyped' /\ PassesTyped' /\ DoingTyped'
      BY <1>2, <1>3, <2>1, SamePasses, AwaitSteps
    <3> QED BY <3>1, <3>2, TypedPartsNext
  <2>2. CASE Finish(r, "blocked") /\ UNCHANGED probeVars /\ UNCHANGED engineVars
    <3>1. Quiet(r)
      BY <2>2 DEF Quiet, Outcomes
    <3> QED BY <3>1, QuietTypes
  <2>3. CASE /\ phase' = [phase EXCEPT ![r] = "queued"]
             /\ (swaps' = swaps \cup {r} \/ swaps' = swaps)
             /\ UNCHANGED <<seen, mode, doing, pass, tried, inside, outcome>>
             /\ UNCHANGED probeVars /\ UNCHANGED engineVars
    <3>1. EngineTyped' /\ SavedTyped' /\ ProbesTyped' /\ PreviewsTyped' /\ ResultsTyped'
      BY <1>1, <2>3 DEF EngineTyped, SavedTyped, ProbesTyped, PreviewsTyped, ResultsTyped,
                        engineVars, probeVars
    <3>2. "queued" \in Phases \ {"starting", "asking"}
      BY DEF Phases
    <3>3. PassesTyped' /\ DoingTyped'
      BY <2>3, <3>2, SamePasses, MoveTypes
    <3> QED BY <3>1, <3>3, TypedPartsNext
  <2>4. \/ AwaitPreview(r, "initial", engine) /\ UNCHANGED <<doing, pass, tried, inside, outcome>>
        \/ Finish(r, "blocked") /\ UNCHANGED probeVars
        \/ /\ phase' = [phase EXCEPT ![r] = "queued"]
           /\ (swaps' = swaps \cup {r} \/ swaps' = swaps)
           /\ UNCHANGED <<seen, mode, doing, pass, tried, inside, outcome>>
           /\ UNCHANGED probeVars
    BY <1>4 DEF Begin
  <2>5. UNCHANGED engineVars
    BY <1>4 DEF Begin
  <2> QED BY <2>1, <2>2, <2>3, <2>4, <2>5
<1>5. CASE Admitted(r)
  <2>1. Quiet(r)
    BY <1>5 DEF Admitted, Quiet, Outcomes
  <2> QED BY <2>1, QuietTypes
<1>6. CASE TakeLock(r)
  <2>1. inside' = inside \cup {r} /\ AwaitPreview(r, "pass", engine)
        /\ UNCHANGED <<engine, model, saved, doing, pass, tried, outcome>>
    BY <1>6 DEF TakeLock, engineVars
  <2>2. EngineTyped' /\ SavedTyped' /\ ResultsTyped'
    BY <1>1, <2>1 DEF EngineTyped, SavedTyped, ResultsTyped
  <2>3. ProbesTyped' /\ PreviewsTyped' /\ PassesTyped' /\ DoingTyped'
    BY <1>2, <1>3, <2>1, SamePasses, AwaitSteps
  <2> QED BY <2>2, <2>3, TypedPartsNext
<1>7. CASE Decide(r)
  BY <1>7, DecideSteps, QuietTypes, ActsTypes
<1>8. CASE Poll(r)
  <2>1. AwaitPreview(r, mode[r], engine)
        /\ UNCHANGED <<engine, model, saved, doing, pass, tried, inside, outcome>>
    BY <1>8 DEF Poll, engineVars
  <2>2. EngineTyped' /\ SavedTyped' /\ ResultsTyped'
    BY <1>1, <2>1 DEF EngineTyped, SavedTyped, ResultsTyped
  <2>3. ProbesTyped' /\ PreviewsTyped' /\ PassesTyped' /\ DoingTyped'
    BY <1>2, <1>3, <2>1, SamePasses, AwaitSteps
  <2> QED BY <2>2, <2>3, TypedPartsNext
<1>9. CASE GiveUp(r)
  <2>1. Finish(r, "blocked") \/ Finish(r, "timedOut")
    BY <1>9 DEF GiveUp
  <2>2. Quiet(r)
    BY <1>9, <2>1 DEF GiveUp, Quiet, Outcomes
  <2> QED BY <2>2, QuietTypes
<1>10. CASE CompleteStart(r)
  <2> DEFINE i == InstanceFor(r)
  <2>1. UNCHANGED <<model, saved>> /\ phase[r] = "starting"
    BY <1>10 DEF CompleteStart
  <2>2. pass[r] < MaxPasses
    BY <1>1, <2>1 DEF PassesTyped
  <2>3. CASE Finish(r, "upstream") /\ UNCHANGED <<engine, probeVars>>
    <3>1. Quiet(r)
      BY <2>1, <2>3 DEF Quiet, Outcomes, engineVars
    <3> QED BY <3>1, QuietTypes
  <2>4. CASE /\ engine' = [engine EXCEPT ![i] = "starting"] \/ engine' = engine
             /\ AwaitPreview(r, "pass", engine') /\ NextPass(r)
             /\ UNCHANGED <<doing, tried, inside, outcome>>
    <3>1. engine' \in [Instances -> EngineStates]
      BY <1>2, <2>4 DEF EngineStates
    <3>2. EngineTyped' /\ SavedTyped' /\ ResultsTyped'
      BY <1>1, <2>1, <2>4, <3>1 DEF EngineTyped, SavedTyped, ResultsTyped
    <3>3. ProbesTyped' /\ PreviewsTyped' /\ PassesTyped' /\ DoingTyped'
      BY <1>3, <2>2, <2>4, <3>1, MorePasses, AwaitSteps
    <3> QED BY <3>2, <3>3, TypedPartsNext
  <2>5. \/ Finish(r, "upstream") /\ UNCHANGED <<engine, probeVars>>
        \/ /\ engine' = [engine EXCEPT ![i] = "starting"] \/ engine' = engine
           /\ AwaitPreview(r, "pass", engine') /\ NextPass(r)
           /\ UNCHANGED <<doing, tried, inside, outcome>>
    <3>1. \/ /\ engine' = [engine EXCEPT ![i] = "starting"]
             /\ AwaitPreview(r, "pass", engine') /\ NextPass(r)
             /\ UNCHANGED <<doing, tried, inside, outcome>>
          \/ /\ AwaitPreview(r, "pass", engine) /\ NextPass(r)
             /\ UNCHANGED <<engine, doing, tried, inside, outcome>>
          \/ Finish(r, "upstream") /\ UNCHANGED <<engine, probeVars>>
      BY <1>10 DEF CompleteStart
    <3>2. engine' = engine /\ AwaitPreview(r, "pass", engine) => AwaitPreview(r, "pass", engine')
      OBVIOUS
    <3> QED BY <3>1, <3>2
  <2> QED BY <2>3, <2>4, <2>5
<1>11. CASE \E ok \in BOOLEAN : AnswerSlot(r, ok)
  <2> DEFINE a == doing[r]
  <2>1. PICK ok \in BOOLEAN : AnswerSlot(r, ok)
    BY <1>11
  <2>2. phase[r] = "asking" /\ UNCHANGED <<engine, model>>
    BY <2>1 DEF AnswerSlot
  <2>3. a \in ActionRec /\ (a.type = "save-slot" => a.slot \in Range(SlotIds[a.target]))
    BY <1>1, <2>2 DEF DoingTyped
  <2>4. CASE Finish(r, "upstream") /\ UNCHANGED <<probeVars, saved>>
    <3>1. Quiet(r)
      BY <2>2, <2>4 DEF Quiet, Outcomes, engineVars
    <3> QED BY <3>1, QuietTypes
  <2>5. CASE /\ saved' = [saved EXCEPT ![a.target] =
                            IF a.type = "save-slot" THEN @ \cup {a.slot} ELSE @ \ {a.slot}]
             /\ AwaitPreview(r, "pass", engine)
             /\ UNCHANGED <<doing, pass, tried, inside, outcome>>
    <3>1. EngineTyped' /\ ResultsTyped'
      BY <1>1, <2>2, <2>5 DEF EngineTyped, ResultsTyped
    <3>2. ProbesTyped' /\ PreviewsTyped' /\ PassesTyped' /\ DoingTyped'
      BY <1>2, <1>3, <2>5, SamePasses, AwaitSteps
    <3>3. SavedTyped'
      <4>1. a.target \in Targets
        BY <2>3 DEF ActionRec
      <4>2. \A t \in Targets : Range(SlotIds[t]) \subseteq Nat
        BY PlanInputs, RangeType
      <4> HIDE DEF a
      <4>3. \A t \in Targets :
              saved'[t] = IF t = a.target
                          THEN IF a.type = "save-slot" THEN saved[t] \cup {a.slot}
                               ELSE saved[t] \ {a.slot}
                          ELSE saved[t]
        BY <1>1, <2>5, <4>1 DEF SavedTyped, a
      <4>4. DOMAIN saved' = Targets /\ saved' = [t \in Targets |-> saved'[t]]
        BY <1>1, <2>5 DEF SavedTyped
      <4>5. \A t \in Targets : saved'[t] \subseteq Range(SlotIds[t])
        BY <1>1, <2>3, <4>3 DEF SavedTyped, a
      <4>6. \A t \in Targets : saved'[t] \in SUBSET Nat
        BY <4>2, <4>5
      <4>7. saved' \in [Targets -> SUBSET Nat]
        BY <4>4, <4>6
      <4> QED BY <4>5, <4>7 DEF SavedTyped
    <3> QED BY <3>1, <3>2, <3>3, TypedPartsNext
  <2>6. \/ Finish(r, "upstream") /\ UNCHANGED <<probeVars, saved>>
        \/ /\ saved' = [saved EXCEPT ![a.target] =
                          IF a.type = "save-slot" THEN @ \cup {a.slot} ELSE @ \ {a.slot}]
           /\ AwaitPreview(r, "pass", engine)
           /\ UNCHANGED <<doing, pass, tried, inside, outcome>>
    BY <2>1 DEF AnswerSlot
  <2> QED BY <2>4, <2>5, <2>6
<1>13. ASSUME NEW ok \in BOOLEAN, AnswerModel(r, ok) PROVE Typed'
  <2>1. /\ EngineTyped'
        /\ UNCHANGED <<engine, saved>>
        /\ \/ AwaitPreview(r, "pass", engine) /\ UNCHANGED <<doing, pass, tried, inside, outcome>>
           \/ Finish(r, "upstream") /\ UNCHANGED probeVars
    BY <1>13, ModelAnswered
  <2>2. SavedTyped'
    BY <1>1, <2>1 DEF SavedTyped
  <2>3. CASE AwaitPreview(r, "pass", engine) /\ UNCHANGED <<doing, pass, tried, inside, outcome>>
    <3>1. ProbesTyped' /\ PreviewsTyped' /\ PassesTyped' /\ DoingTyped'
      BY <1>2, <1>3, <2>3, SamePasses, AwaitSteps
    <3>2. ResultsTyped'
      BY <1>1, <2>3 DEF ResultsTyped
    <3> QED BY <2>1, <2>2, <3>1, <3>2, TypedPartsNext
  <2>4. CASE Finish(r, "upstream") /\ UNCHANGED probeVars
    <3>1. /\ phase' = [phase EXCEPT ![r] = "ended"]
          /\ UNCHANGED <<seen, swaps, mode, doing, pass, tried>>
          /\ inside' = inside \ {r} /\ outcome' = [outcome EXCEPT ![r] = "upstream"]
      BY <2>4 DEF Finish
    <3>2. ProbesTyped' /\ PreviewsTyped' /\ ResultsTyped'
      BY <1>1, <2>4, <3>1 DEF probeVars, ProbesTyped, PreviewsTyped, ResultsTyped, Outcomes
    <3>3. "ended" \in Phases \ {"starting", "asking"}
      BY DEF Phases
    <3>4. PassesTyped' /\ DoingTyped'
      BY <3>1, <3>3, SamePasses, MoveTypes
    <3> QED BY <2>1, <2>2, <3>2, <3>4, TypedPartsNext
  <2> QED BY <2>1, <2>3, <2>4
<1>12. CASE EndRequest(r)
  <2>1. /\ phase' = [phase EXCEPT ![r] = "ended"]
        /\ UNCHANGED <<engine, model, saved, pending, answer, cache, seen, swaps, mode, doing,
                       pass, tried, inside, outcome>>
    BY <1>12 DEF EndRequest, engineVars, probeVars
  <2>2. EngineTyped' /\ SavedTyped' /\ ProbesTyped' /\ PreviewsTyped' /\ ResultsTyped'
    BY <1>1, <2>1 DEF EngineTyped, SavedTyped, ProbesTyped, PreviewsTyped, ResultsTyped
  <2>3. "ended" \in Phases \ {"starting", "asking"}
    BY DEF Phases
  <2>4. PassesTyped' /\ DoingTyped'
    BY <2>1, <2>3, SamePasses, MoveTypes
  <2> QED BY <2>2, <2>4, TypedPartsNext
<1> QED BY <1>4, <1>5, <1>6, <1>7, <1>8, <1>9, <1>10, <1>11, <1>12, <1>13 DEF RequestNext, Proceeds

(* The steps of the probes and the engines. *)
LEMMA SystemTypes ==
  ASSUME Typed, NEW i \in Instances,
         ProbeAnswered(i) \/ ProbeDone(i) \/ Reconcile(i) \/ EngineNext(i)
  PROVE  Typed'
<1>1. /\ EngineTyped /\ SavedTyped /\ ProbesTyped /\ PreviewsTyped
      /\ PassesTyped /\ DoingTyped /\ ResultsTyped
  BY TypedParts
<1>2. ASSUME UNCHANGED requestVars
      PROVE  PreviewsTyped' /\ PassesTyped' /\ DoingTyped' /\ ResultsTyped'
  BY <1>1, <1>2 DEF requestVars, PreviewsTyped, PassesTyped, DoingTyped, ResultsTyped
<1>3. ASSUME UNCHANGED engineVars
      PROVE  EngineTyped' /\ SavedTyped'
  BY <1>1, <1>3 DEF engineVars, EngineTyped, SavedTyped
<1>4. \A t \in On(i) : t \in Targets /\ pending[i] \in ProcessStatuses /\ engine[i] \in EngineStates
  BY <1>1 DEF On, ProbesTyped, EngineTyped
<1>5. CASE ProbeAnswered(i)
  <2>1. PICK read \in [On(i) -> States] :
          answer' = [t \in Targets |-> IF t \in On(i) THEN read[t] ELSE answer[t]]
    BY <1>5 DEF ProbeAnswered
  <2>2. answer' \in [Targets -> States \cup {"awaited"}]
    BY <1>1, <2>1 DEF ProbesTyped
  <2>3. UNCHANGED <<engineVars, pending, cache, requestVars>>
    BY <1>5 DEF ProbeAnswered
  <2>4. ProbesTyped'
    BY <1>1, <2>2, <2>3 DEF ProbesTyped
  <2> QED BY <1>2, <1>3, <2>3, <2>4, TypedPartsNext
<1>6. CASE ProbeDone(i)
  <2>1. /\ \A t \in On(i) : answer[t] # "awaited"
        /\ cache' = [t \in Targets |-> IF t \in On(i) THEN answer[t] ELSE cache[t]]
        /\ seen' = [r \in Requests |-> [t \in Targets |->
             IF t \in On(i) /\ phase[r] = "preview" /\ seen[r][t] = "awaited"
             THEN answer[t] ELSE seen[r][t]]]
        /\ answer' = [t \in Targets |-> IF t \in On(i) THEN "awaited" ELSE answer[t]]
        /\ pending' = [pending EXCEPT ![i] = "none"]
        /\ UNCHANGED <<engineVars, phase, swaps, mode, doing, pass, tried, inside, outcome>>
    BY <1>6 DEF ProbeDone
  <2>2. \A t \in On(i) : answer[t] \in States
    BY <1>1, <1>4, <2>1 DEF ProbesTyped
  <2>3. cache' \in [Targets -> States]
    BY <1>1, <2>1, <2>2 DEF ProbesTyped
  <2>4. pending' \in [Instances -> ProcessStatuses] /\ answer' \in [Targets -> States \cup {"awaited"}]
    BY <1>1, <2>1 DEF ProbesTyped, ProcessStatuses
  <2>5. seen' \in [Requests -> [Targets -> States \cup {"awaited"}]]
    <3>1. ASSUME NEW r \in Requests, NEW t \in Targets
          PROVE  (IF t \in On(i) /\ phase[r] = "preview" /\ seen[r][t] = "awaited"
                  THEN answer[t] ELSE seen[r][t]) \in States \cup {"awaited"}
      BY <1>1, <2>2 DEF PreviewsTyped
    <3> QED BY <2>1, <3>1
  <2>6. PreviewsTyped' /\ PassesTyped' /\ DoingTyped' /\ ResultsTyped'
    BY <1>1, <2>1, <2>5 DEF PreviewsTyped, PassesTyped, DoingTyped, ResultsTyped
  <2>7. ProbesTyped'
    BY <2>3, <2>4 DEF ProbesTyped
  <2> QED BY <1>3, <2>1, <2>6, <2>7, TypedPartsNext
<1>7. CASE Reconcile(i)
  <2>1. RuntimeStatus(engine[i]) \in ProcessStatuses
    BY <1>1, StatusType DEF EngineTyped, ProcessStatuses
  <2>2. pending' = [pending EXCEPT ![i] = RuntimeStatus(engine[i])]
        /\ UNCHANGED <<engineVars, answer, cache, requestVars>>
    BY <1>7 DEF Reconcile
  <2>3. ProbesTyped'
    BY <1>1, <2>1, <2>2 DEF ProbesTyped
  <2> QED BY <1>2, <1>3, <2>2, <2>3, TypedPartsNext
<1>8. CASE EngineNext(i)
  <2>1. PICK to \in EngineStates :
          /\ engine' = [engine EXCEPT ![i] = to]
          /\ model' = [t \in Targets |-> IF t \in On(i) THEN "unloaded" ELSE model[t]]
          /\ UNCHANGED <<saved, probeVars, requestVars>>
    BY <1>8 DEF EngineNext, Spawned, Loaded, Exited, Crash, EngineStep, EngineStates
  <2>2. EngineTyped' /\ SavedTyped' /\ ProbesTyped'
    BY <1>1, <2>1 DEF EngineTyped, SavedTyped, ProbesTyped, probeVars
  <2> QED BY <1>2, <2>1, <2>2, TypedPartsNext
<1> QED BY <1>5, <1>6, <1>7, <1>8

LEMMA StutterTypes ==
  ASSUME Typed, UNCHANGED <<engine, saved, probeVars, requestVars>>,
         model' \in [Targets -> {"unloaded", "loading", "ready", "failed"}]
  PROVE  Typed'
<1>1. /\ EngineTyped /\ SavedTyped /\ ProbesTyped /\ PreviewsTyped
      /\ PassesTyped /\ DoingTyped /\ ResultsTyped
  BY TypedParts
<1>2. EngineTyped' /\ SavedTyped' /\ ProbesTyped'
  BY <1>1 DEF EngineTyped, SavedTyped, ProbesTyped, probeVars
<1>3. PreviewsTyped' /\ PassesTyped' /\ DoingTyped' /\ ResultsTyped'
  BY <1>1 DEF requestVars, PreviewsTyped, PassesTyped, DoingTyped, ResultsTyped
<1> QED BY <1>2, <1>3, TypedPartsNext

LEMMA InitTypes == Init => Typed
<1> SUFFICES ASSUME Init PROVE Typed
  OBVIOUS
<1>1. EngineTyped
  BY DEF Init, EngineTyped, EngineStates
<1>2. SavedTyped
  BY DEF Init, SavedTyped
<1>3. cache \in [Targets -> States]
  BY DEF Init, States
<1>4. ProbesTyped
  BY <1>3 DEF Init, ProbesTyped, ProcessStatuses
<1>5. PreviewsTyped
  BY <1>3 DEF Init, PreviewsTyped, Modes
<1>6. PassesTyped
  BY ReadinessInputs DEF Init, PassesTyped, Phases
<1>7. \A r \in Requests : Act("route-request", TargetFor[r]) \in ActionRec
  BY ReadinessInputs DEF Act, ActionRec, ActionTypes
<1>8. DoingTyped
  BY <1>7 DEF Init, DoingTyped
<1>9. ResultsTyped
  BY DEF Init, ResultsTyped, Outcomes
<1> QED BY <1>1, <1>2, <1>4, <1>5, <1>6, <1>8, <1>9, TypedParts

(* Every step keeps the types. *)
LEMMA TypedStep == Typed /\ [Next]_vars => Typed'
<1>1. ASSUME Typed, NEW r \in Requests, RequestNext(r) PROVE Typed'
  BY <1>1, RequestTypes
<1>2. ASSUME Typed, NEW i \in Instances,
             ProbeAnswered(i) \/ ProbeDone(i) \/ Reconcile(i) \/ EngineNext(i)
      PROVE  Typed'
  BY <1>2, SystemTypes
<1>3. ASSUME Typed, NEW t \in Targets, (ModelLoaded(t) \/ ModelFails(t)) PROVE Typed'
  <2>1. model' \in [Targets -> {"unloaded", "loading", "ready", "failed"}]
    BY <1>3 DEF ModelLoaded, ModelFails, ModelStep, Typed, TypeOK
  <2>2. UNCHANGED <<engine, saved, probeVars, requestVars>>
    BY <1>3 DEF ModelLoaded, ModelFails, ModelStep
  <2> QED BY <1>3, <2>1, <2>2, StutterTypes
<1>4. ASSUME Typed, UNCHANGED vars PROVE Typed'
  <2>1. model' \in [Targets -> {"unloaded", "loading", "ready", "failed"}]
    BY <1>4 DEF vars, engineVars, Typed, TypeOK
  <2>2. UNCHANGED <<engine, saved, probeVars, requestVars>>
    BY <1>4 DEF vars, engineVars
  <2> QED BY <1>4, <2>1, <2>2, StutterTypes
<1> QED BY <1>1, <1>2, <1>3, <1>4 DEF Next

(* Type correctness, with what it rests on: the slot in progress is its    *)
(* target's, and a start is part of a pass.                                *)
THEOREM ReadinessTyped == Spec => []Typed
  BY InitTypes, TypedStep, PTL DEF Spec

(* The variables of the executors, the probes and the engines keep their   *)
(* types.                                                                  *)
THEOREM TypeCorrect == Spec => []TypeOK
<1>1. Typed => TypeOK
  BY DEF Typed
<1> QED BY <1>1, ReadinessTyped, PTL

-----------------------------------------------------------------------------
(* What the probes say of the targets of one instance. *)

LoadsModels(t) == HasModel[t] /\ ModelLoadUnload[t]

(* Only the models of routers are ever seen unloaded. *)
OnlyModelsUnload(s) == \A t \in Targets : s[t] = "unloaded" => LoadsModels(t)

(* Targets of an instance that are not models of a router are awaited and  *)
(* seen ready together.                                                    *)
Together(s) ==
  \A t, u \in Targets : InstanceOf[t] = InstanceOf[u] =>
    /\ s[t] = "awaited" <=> s[u] = "awaited"
    /\ ~LoadsModels(t) => (s[t] = "ready" <=> s[u] = "ready")

(* Either all the targets of an instance name a model or none does.        *)
Unmixed ==
  \A t, u \in Targets : InstanceOf[t] = InstanceOf[u] =>
    /\ HasModel[t] <=> HasModel[u]
    /\ ModelLoadUnload[t] <=> ModelLoadUnload[u]

UnloadsSeen ==
  /\ OnlyModelsUnload(answer)
  /\ OnlyModelsUnload(cache)
  /\ \A r \in Requests : OnlyModelsUnload(seen[r])

SeenTogether ==
  /\ Together(answer)
  /\ Together(cache)
  /\ \A r \in Requests : Together(seen[r])

(* What a probe reads of a target that is no model of a router.            *)
LEMMA ReadsOfProcess ==
  ASSUME NEW t \in Targets, ~LoadsModels(t), NEW status \in ProcessStatuses \ {"none"},
         NEW e \in EngineStates, NEW s \in StatesRead(t, status, e)
  PROVE  /\ s # "unloaded"
         /\ s = "ready" <=> /\ e = "ready"
                            /\ \/ status = "running"
                               \/ status = "starting" /\ HasModel[t]
<1>1. CASE ~HasModel[t]
  <2>1. s \in ProcessStates(status, e)
    BY <1>1 DEF StatesRead
  <2> QED BY <1>1, <2>1 DEF ProcessStates, ProcessStatuses, EngineStates
<1>2. CASE HasModel[t]
  <2>1. ~ModelLoadUnload[t]
    BY <1>2 DEF LoadsModels
  <2> QED BY <1>2, <2>1 DEF StatesRead, ProcessStatuses
<1> QED BY <1>1, <1>2

(* What the previews gather changes in two ways only. *)
LEMMA SeenChanges ==
  ASSUME Typed, NEW r \in Requests, RequestNext(r)
  PROVE  /\ UNCHANGED <<answer, cache>>
         /\ seen' = seen \/ seen' = [seen EXCEPT ![r] = [t \in Targets |-> "awaited"]]
<1>1. ASSUME Quiet(r) PROVE UNCHANGED <<answer, cache>> /\ seen' = seen
  BY <1>1 DEF Quiet, probeVars, Finish, WaitForLock, Await
<1>2. ASSUME NEW m, NEW e, AwaitPreview(r, m, e)
      PROVE  /\ UNCHANGED <<answer, cache>>
             /\ seen' = [seen EXCEPT ![r] = [t \in Targets |-> "awaited"]]
  BY <1>2 DEF AwaitPreview
<1>3. CASE Begin(r)
  BY <1>2, <1>3 DEF Begin, Finish, probeVars
<1>4. CASE Admitted(r)
  BY <1>4 DEF Admitted, WaitForLock, Finish, probeVars
<1>5. CASE TakeLock(r) \/ Poll(r)
  BY <1>2, <1>5 DEF TakeLock, Poll
<1>6. CASE Decide(r)
  <2>1. CASE Quiet(r)
    BY <1>1, <2>1
  <2>2. CASE Acts(r)
    <3> DEFINE a == Head(Todo(r))
    <3>1. AskEngine(r, a) \/ StopInstance(r, a) \/ StartInstance(r, a)
          \/ WaitReady(r, a)
      BY <2>2 DEF Acts
    <3> HIDE DEF a
    <3> QED BY <1>2, <3>1 DEF AskEngine, StopInstance, StartInstance, WaitReady,
                              probeVars, Finish
  <2> QED BY <1>6, <2>1, <2>2, DecideSteps
<1>7. CASE GiveUp(r) \/ EndRequest(r)
  BY <1>7 DEF GiveUp, EndRequest, Finish, probeVars
<1>8. CASE CompleteStart(r)
  BY <1>2, <1>8 DEF CompleteStart, Finish, probeVars
<1>9. CASE \E ok \in BOOLEAN : AnswerSlot(r, ok) \/ AnswerModel(r, ok)
  BY <1>2, <1>9 DEF AnswerSlot, AnswerModel, Finish, probeVars
<1> QED BY <1>3, <1>4, <1>5, <1>6, <1>7, <1>8, <1>9 DEF RequestNext, Proceeds

LEMMA AwaitedIsAlike ==
  ASSUME NEW r \in Requests, Typed,
         seen' = [seen EXCEPT ![r] = [t \in Targets |-> "awaited"]]
  PROVE  \A q \in Requests : \/ seen'[q] = seen[q]
                             \/ \A t \in Targets : seen'[q][t] = "awaited"
<1>1. seen \in [Requests -> [Targets -> States \cup {"awaited"}]]
  BY DEF Typed, TypeOK
<1> QED BY <1>1

(* Every step keeps both. *)
LEMMA UnloadsSeenStep == Typed /\ UnloadsSeen /\ [Next]_vars => UnloadsSeen'
<1> SUFFICES ASSUME Typed, UnloadsSeen, [Next]_vars PROVE UnloadsSeen'
  OBVIOUS
<1>1. ASSUME UNCHANGED <<answer, cache, seen>> PROVE UnloadsSeen'
  BY <1>1 DEF UnloadsSeen, OnlyModelsUnload
<1>2. ASSUME NEW r \in Requests, RequestNext(r) PROVE UnloadsSeen'
  <2>1. UNCHANGED <<answer, cache>>
        /\ (seen' = seen \/ seen' = [seen EXCEPT ![r] = [t \in Targets |-> "awaited"]])
    BY <1>2, SeenChanges
  <2>2. \A q \in Requests : \/ seen'[q] = seen[q] \/ \A t \in Targets : seen'[q][t] = "awaited"
    BY <2>1, AwaitedIsAlike
  <2> QED BY <2>1, <2>2 DEF UnloadsSeen, OnlyModelsUnload
<1>3. ASSUME NEW i \in Instances, ProbeAnswered(i) PROVE UnloadsSeen'
  <2>1. PICK read \in [On(i) -> States] :
          /\ \A t \in On(i) : read[t] \in StatesRead(t, pending[i], engine[i])
          /\ answer' = [t \in Targets |-> IF t \in On(i) THEN read[t] ELSE answer[t]]
    BY <1>3 DEF ProbeAnswered
  <2>2. pending[i] \in ProcessStatuses \ {"none"} /\ engine[i] \in EngineStates
    BY <1>3 DEF ProbeAnswered, Typed, TypeOK, ProcessStatuses, EngineStates
  <2>3. \A t \in On(i) : read[t] = "unloaded" => LoadsModels(t)
    BY <2>1, <2>2, ReadsOfProcess DEF On
  <2>4. \A t \in Targets : answer'[t] = IF t \in On(i) THEN read[t] ELSE answer[t]
    BY <2>1
  <2>5. OnlyModelsUnload(answer')
    BY <2>3, <2>4 DEF UnloadsSeen, OnlyModelsUnload
  <2>6. UNCHANGED <<cache, seen>>
    BY <1>3 DEF ProbeAnswered, requestVars
  <2> QED BY <2>5, <2>6 DEF UnloadsSeen, OnlyModelsUnload
<1>4. ASSUME NEW i \in Instances, ProbeDone(i) PROVE UnloadsSeen'
  <2>1. /\ \A t \in Targets : cache'[t] = answer[t] \/ cache'[t] = cache[t]
        /\ \A t \in Targets : answer'[t] = "awaited" \/ answer'[t] = answer[t]
        /\ \A r \in Requests, t \in Targets : seen'[r][t] = answer[t] \/ seen'[r][t] = seen[r][t]
    BY <1>4 DEF ProbeDone
  <2> QED BY <2>1 DEF UnloadsSeen, OnlyModelsUnload
<1>5. ASSUME NEW i \in Instances, Reconcile(i) \/ EngineNext(i) PROVE UnloadsSeen'
  BY <1>1, <1>5 DEF Reconcile, EngineNext, Spawned, Loaded, Exited, Crash, EngineStep,
                    probeVars, requestVars
<1>6. ASSUME NEW t \in Targets, (ModelLoaded(t) \/ ModelFails(t)) PROVE UnloadsSeen'
  BY <1>1, <1>6 DEF ModelLoaded, ModelFails, ModelStep, probeVars, requestVars
<1>7. ASSUME UNCHANGED vars PROVE UnloadsSeen'
  BY <1>1, <1>7 DEF vars, probeVars, requestVars
<1> QED BY <1>2, <1>3, <1>4, <1>5, <1>6, <1>7 DEF Next

LEMMA SeenTogetherStep ==
  ASSUME Unmixed
  PROVE  Typed /\ SeenTogether /\ [Next]_vars => SeenTogether'
<1> SUFFICES ASSUME Typed, SeenTogether, [Next]_vars PROVE SeenTogether'
  OBVIOUS
<1>1. ASSUME UNCHANGED <<answer, cache, seen>> PROVE SeenTogether'
  BY <1>1 DEF SeenTogether, Together
<1>2. ASSUME NEW r \in Requests, RequestNext(r) PROVE SeenTogether'
  <2>1. UNCHANGED <<answer, cache>>
        /\ (seen' = seen \/ seen' = [seen EXCEPT ![r] = [t \in Targets |-> "awaited"]])
    BY <1>2, SeenChanges
  <2>2. \A q \in Requests : \/ seen'[q] = seen[q] \/ \A t \in Targets : seen'[q][t] = "awaited"
    BY <2>1, AwaitedIsAlike
  <2> QED BY <2>1, <2>2 DEF SeenTogether, Together
<1>3. ASSUME NEW i \in Instances, ProbeAnswered(i) PROVE SeenTogether'
  <2>1. PICK read \in [On(i) -> States] :
          /\ \A t \in On(i) : read[t] \in StatesRead(t, pending[i], engine[i])
          /\ answer' = [t \in Targets |-> IF t \in On(i) THEN read[t] ELSE answer[t]]
    BY <1>3 DEF ProbeAnswered
  <2>2. pending[i] \in ProcessStatuses \ {"none"} /\ engine[i] \in EngineStates
    BY <1>3 DEF ProbeAnswered, Typed, TypeOK, ProcessStatuses, EngineStates
  <2>3. \A t \in Targets : answer'[t] = IF t \in On(i) THEN read[t] ELSE answer[t]
    BY <2>1
  <2>4. \A t \in On(i) : read[t] # "awaited"
    BY <2>1 DEF States
  <2>5. \A t, u \in On(i) : ~LoadsModels(t) => (read[t] = "ready" <=> read[u] = "ready")
    <3>1. SUFFICES ASSUME NEW t \in On(i), NEW u \in On(i), ~LoadsModels(t)
                   PROVE  read[t] = "ready" <=> read[u] = "ready"
      OBVIOUS
    <3>2. t \in Targets /\ u \in Targets /\ ~LoadsModels(u) /\ (HasModel[t] <=> HasModel[u])
      BY <3>1 DEF On, Unmixed, LoadsModels
    <3> QED BY <2>1, <2>2, <3>1, <3>2, ReadsOfProcess
  <2>6. \A t, u \in Targets : InstanceOf[t] = InstanceOf[u] => (t \in On(i) <=> u \in On(i))
    BY DEF On
  <2>7. Together(answer')
    BY <2>3, <2>4, <2>5, <2>6 DEF SeenTogether, Together
  <2>8. UNCHANGED <<cache, seen>>
    BY <1>3 DEF ProbeAnswered, requestVars
  <2> QED BY <2>7, <2>8 DEF SeenTogether, Together
<1>4. ASSUME NEW i \in Instances, ProbeDone(i) PROVE SeenTogether'
  <2>1. \A t, u \in Targets : InstanceOf[t] = InstanceOf[u] => (t \in On(i) <=> u \in On(i))
    BY DEF On
  <2>2. /\ \A t \in Targets : cache'[t] = IF t \in On(i) THEN answer[t] ELSE cache[t]
        /\ \A t \in Targets : answer'[t] = IF t \in On(i) THEN "awaited" ELSE answer[t]
    BY <1>4 DEF ProbeDone
  <2>3. \A r \in Requests, t \in Targets :
          seen'[r][t] = IF t \in On(i) /\ phase[r] = "preview" /\ seen[r][t] = "awaited"
                        THEN answer[t] ELSE seen[r][t]
    BY <1>4 DEF ProbeDone
  <2>4. Together(cache') /\ Together(answer')
    BY <2>1, <2>2 DEF SeenTogether, Together
  <2>5. ASSUME NEW r \in Requests PROVE Together(seen'[r])
    <3>1. Together(seen[r]) /\ Together(answer)
      BY DEF SeenTogether
    <3>2. \A t, u \in Targets : InstanceOf[t] = InstanceOf[u] =>
            ((t \in On(i) /\ phase[r] = "preview" /\ seen[r][t] = "awaited")
               <=> (u \in On(i) /\ phase[r] = "preview" /\ seen[r][u] = "awaited"))
      BY <2>1, <3>1 DEF Together
    <3> QED BY <2>3, <3>1, <3>2 DEF Together
  <2> QED BY <2>4, <2>5 DEF SeenTogether
<1>5. ASSUME NEW i \in Instances, Reconcile(i) \/ EngineNext(i) PROVE SeenTogether'
  BY <1>1, <1>5 DEF Reconcile, EngineNext, Spawned, Loaded, Exited, Crash, EngineStep,
                    probeVars, requestVars
<1>6. ASSUME NEW t \in Targets, (ModelLoaded(t) \/ ModelFails(t)) PROVE SeenTogether'
  BY <1>1, <1>6 DEF ModelLoaded, ModelFails, ModelStep, probeVars, requestVars
<1>7. ASSUME UNCHANGED vars PROVE SeenTogether'
  BY <1>1, <1>7 DEF vars, probeVars, requestVars
<1> QED BY <1>2, <1>3, <1>4, <1>5, <1>6, <1>7 DEF Next

LEMMA InitSeen ==
  Init => UnloadsSeen /\ (Unmixed => SeenTogether)
<1> SUFFICES ASSUME Init PROVE UnloadsSeen /\ (Unmixed => SeenTogether)
  OBVIOUS
<1>1. /\ \A t \in Targets : answer[t] = "awaited"
      /\ \A t \in Targets : cache[t] =
           IF InstanceOf[t] \in Up THEN IF LoadsModels(t) THEN "unloaded" ELSE "ready"
           ELSE IF HasModel[t] THEN "unknown" ELSE "stopped"
      /\ \A r \in Requests : seen[r] = cache
  BY DEF Init, LoadsModels
<1>2. UnloadsSeen
  BY <1>1 DEF UnloadsSeen, OnlyModelsUnload
<1>3. ASSUME Unmixed PROVE SeenTogether
  BY <1>1, <1>3 DEF SeenTogether, Together, Unmixed, LoadsModels
<1> QED BY <1>2, <1>3

-----------------------------------------------------------------------------
(* Who stops engines and unloads models. *)

(* An engine is only stopped by an executor's action. *)
LEMMA OnlyExecutorsStop ==
  ASSUME Typed, [Next]_vars, NEW i \in Instances, engine[i] = "ready", engine'[i] = "stopping"
  PROVE  \E r \in Requests : /\ Acts(r)
                             /\ StopInstance(r, Head(Todo(r)))
                             /\ InstanceOf[Head(Todo(r)).target] = i
<1>1. engine \in [Instances -> EngineStates]
  BY DEF Typed, TypeOK, EngineStates
<1>2. ASSUME NEW j \in Instances, NEW to \in EngineStates \ {"stopping"},
             engine' = [engine EXCEPT ![j] = to]
      PROVE  FALSE
  BY <1>1, <1>2
<1>3. engine' # engine
  OBVIOUS
<1>4. ASSUME NEW r \in Requests, RequestNext(r)
      PROVE  /\ Acts(r)
             /\ StopInstance(r, Head(Todo(r)))
             /\ InstanceOf[Head(Todo(r)).target] = i
  <2>1. CASE Decide(r)
    <3>1. ~Quiet(r)
      BY <1>3 DEF Quiet, engineVars
    <3>2. Acts(r)
      BY <2>1, <3>1, DecideSteps
    <3> DEFINE a == Head(Todo(r))
    <3>3. AskEngine(r, a) \/ StopInstance(r, a) \/ StartInstance(r, a)
          \/ WaitReady(r, a)
      BY <3>2 DEF Acts
    <3> HIDE DEF a
    <3>4. StopInstance(r, a)
      BY <1>3, <3>3 DEF AskEngine, StartInstance, WaitReady, engineVars
    <3>5. InstanceOf[a.target] = i
      BY <1>1, <3>4 DEF StopInstance, RequestStop
    <3> QED BY <3>2, <3>4, <3>5 DEF a
  <2>2. CASE CompleteStart(r)
    <3>1. InstanceFor(r) \in Instances /\ "starting" \in EngineStates \ {"stopping"}
      BY ReadinessInputs DEF InstanceFor, Instances, IsManaged, EngineStates
    <3>2. engine' = engine \/ engine' = [engine EXCEPT ![InstanceFor(r)] = "starting"]
      BY <2>2 DEF CompleteStart
    <3> QED BY <1>2, <1>3, <3>1, <3>2
  <2>3. CASE ~Decide(r) /\ ~CompleteStart(r)
    <3>1. engine' = engine
      BY <1>4, <2>3 DEF RequestNext, Proceeds, Begin, Admitted, TakeLock, Poll, GiveUp, AnswerSlot,
                        AnswerModel, EndRequest, engineVars
    <3> QED BY <1>3, <3>1
  <2> QED BY <2>1, <2>2, <2>3
<1>5. ASSUME NEW j \in Instances,
             ProbeAnswered(j) \/ ProbeDone(j) \/ Reconcile(j) \/ EngineNext(j)
      PROVE  FALSE
  <2>1. CASE ProbeAnswered(j) \/ ProbeDone(j) \/ Reconcile(j)
    BY <1>3, <2>1 DEF ProbeAnswered, ProbeDone, Reconcile, engineVars
  <2>2. CASE EngineNext(j)
    <3>1. \E to \in EngineStates \ {"stopping"} : engine' = [engine EXCEPT ![j] = to]
      BY <2>2 DEF EngineNext, Spawned, Loaded, Exited, Crash, EngineStep, EngineStates
    <3> QED BY <1>2, <3>1
  <2> QED BY <1>5, <2>1, <2>2
<1>6. ASSUME NEW t \in Targets, (ModelLoaded(t) \/ ModelFails(t)) PROVE FALSE
  BY <1>3, <1>6 DEF ModelLoaded, ModelFails, ModelStep
<1>7. ASSUME UNCHANGED vars PROVE FALSE
  BY <1>3, <1>7 DEF vars, engineVars
<1> QED BY <1>4, <1>5, <1>6, <1>7 DEF Next

(* A router is only asked for something by an executor's action. *)
LEMMA OnlyExecutorsAsk ==
  ASSUME Typed, [Next]_vars, NEW q \in Requests, phase[q] # "asking", phase'[q] = "asking"
  PROVE  Acts(q) /\ doing'[q] = Head(Todo(q))
<1>1. phase \in [Requests -> Phases] /\ doing \in [Requests -> ActionRec]
  BY DEF Typed, TypeOK, Phases, SlotsListed
<1>2. ASSUME NEW r \in Requests, NEW to \in Phases \ {"asking"}, phase' = [phase EXCEPT ![r] = to]
      PROVE  FALSE
  BY <1>1, <1>2
<1>3. ASSUME NEW r \in Requests, RequestNext(r)
      PROVE  Acts(q) /\ doing'[q] = Head(Todo(q))
  <2>1. \A m, e : ~AwaitPreview(r, m, e)
    BY <1>2 DEF AwaitPreview, Phases
  <2>2. \A result : ~Finish(r, result)
    BY <1>2 DEF Finish, Phases
  <2>3. ~WaitForLock(r) /\ ~Await(r)
    BY <1>2 DEF WaitForLock, Await, Phases
  <2>4. CASE Decide(r)
    <3>1. ~Quiet(r)
      BY <1>2, <2>2, <2>3 DEF Quiet, Phases
    <3>2. Acts(r)
      BY <2>4, <3>1, DecideSteps
    <3> DEFINE a == Head(Todo(r))
    <3>3. AskEngine(r, a) \/ StopInstance(r, a) \/ StartInstance(r, a) \/ WaitReady(r, a)
      BY <3>2 DEF Acts
    <3> HIDE DEF a
    <3>4. AskEngine(r, a)
      BY <1>2, <2>1, <2>2, <3>3 DEF StopInstance, StartInstance, WaitReady, Phases
    <3>5. q = r /\ doing'[q] = a
      BY <1>1, <3>4 DEF AskEngine
    <3> QED BY <3>2, <3>5 DEF a
  <2>5. CASE ~Decide(r)
    BY <1>2, <1>3, <2>1, <2>2, <2>3, <2>5 DEF RequestNext, Proceeds, Begin, Admitted, TakeLock, Poll, GiveUp,
       CompleteStart, AnswerSlot, AnswerModel, EndRequest, Phases
  <2> QED BY <2>4, <2>5
<1>4. ASSUME NEW i \in Instances,
             ProbeAnswered(i) \/ ProbeDone(i) \/ Reconcile(i) \/ EngineNext(i)
      PROVE  FALSE
  BY <1>4 DEF ProbeAnswered, ProbeDone, Reconcile, EngineNext, Spawned, Loaded, Exited, Crash,
     EngineStep, requestVars
<1>5. ASSUME NEW t \in Targets, (ModelLoaded(t) \/ ModelFails(t)) PROVE FALSE
  BY <1>5 DEF ModelLoaded, ModelFails, ModelStep, requestVars
<1>6. ASSUME UNCHANGED vars PROVE FALSE
  BY <1>6 DEF vars, requestVars
<1> QED BY <1>3, <1>4, <1>5, <1>6 DEF Next

(* What an executor takes down is the idle victim of its plan: never its   *)
(* own target.                                                             *)
LEMMA TakenDownIsVictim ==
  ASSUME Typed, UnloadsSeen, NEW r \in Requests, Acts(r), Head(Todo(r)).type \in TakeDowns
  PROVE  LET v == ViewOf(seen[r])
             u == Head(Todo(r)).target
         IN /\ v \in Views
            /\ u \in Targets
            /\ IdleVictim(v, TargetFor[r], u)
            /\ Len(UnloadActions(v, u)) # 0
            /\ Head(Todo(r)) = Head(UnloadActions(v, u))
<1> DEFINE v == ViewOf(seen[r])
           a == Head(Todo(r))
           t == TargetFor[r]
<1>1. Len(Todo(r)) # 0 /\ \A w \in Targets : seen[r][w] # "awaited"
  BY DEF Acts
<1>2. /\ v \in Views
      /\ \/ a \in Loads(v, t)
         \/ \E u \in Targets : /\ IdleVictim(v, t, u)
                               /\ Len(UnloadActions(v, u)) # 0
                               /\ a = Head(UnloadActions(v, u))
  BY <1>1, TodoFacts
<1>3. v.state = seen[r]
  BY DEF ViewOf
<1>4. a.type \in TakeDowns /\ t \in Targets
  BY ReadinessInputs
<1> HIDE DEF v, a, t
<1>5. a \notin Loads(v, t)
  <2>1. SUFFICES ASSUME a \in Loads(v, t) PROVE FALSE
    OBVIOUS
  <2>2. seen[r][t] = "unloaded" /\ ~ModelLoadUnload[t]
    BY <1>3, <1>4, <2>1 DEF Loads, TakeDowns
  <2> QED BY <1>4, <2>2 DEF UnloadsSeen, OnlyModelsUnload, LoadsModels
<1>6. PICK u \in Targets : /\ IdleVictim(v, t, u)
                           /\ Len(UnloadActions(v, u)) # 0
                           /\ a = Head(UnloadActions(v, u))
  BY <1>2, <1>5
<1>7. a.target = u
  <2>1. UnloadActions(v, u) \in Seq(ActionRec) /\ UnloadActions(v, u) # << >>
        /\ \A x \in Range(UnloadActions(v, u)) : x.target = u
    BY <1>2, <1>6, UnloadActionsFacts
  <2> QED BY <1>6, <2>1, RangeHead
<1> QED BY <1>2, <1>6, <1>7 DEF v, a, t

-----------------------------------------------------------------------------
(* A step that takes a target down spares the requests in flight.          *)
LEMMA SparingStep ==
  ASSUME Unmixed, Typed, UnloadsSeen, SeenTogether, [Next]_vars,
         NEW q \in Requests, TakesDown(TargetFor[q])
  PROVE  phase[q] \in {"new", "ended"}
<1> DEFINE w == TargetFor[q]
           i == InstanceOf[w]
<1>1. w \in Targets /\ i \in Instances
  BY ReadinessInputs DEF Instances, IsManaged
<1>2. w \in InFlight \/ phase[q] \in {"new", "ended"}
  BY DEF InFlight
<1>3. CASE engine[i] = "ready" /\ engine'[i] = "stopping"
  <2>1. PICK r \in Requests : /\ Acts(r)
                              /\ StopInstance(r, Head(Todo(r)))
                              /\ InstanceOf[Head(Todo(r)).target] = i
    BY <1>1, <1>3, OnlyExecutorsStop
  <2> DEFINE v == ViewOf(seen[r])
             a == Head(Todo(r))
             u == a.target
  <2>2. a.type = "stop-instance" /\ a.type \in TakeDowns
    BY <2>1 DEF StopInstance, TakeDowns
  <2>3. /\ v \in Views /\ u \in Targets
        /\ IdleVictim(v, TargetFor[r], u)
        /\ Len(UnloadActions(v, u)) # 0
        /\ a = Head(UnloadActions(v, u))
    BY <2>1, <2>2, TakenDownIsVictim
  <2>4. ~LoadsModels(u)
    <3> HIDE DEF v, a
    <3> QED BY <2>2, <2>3, UnloadStarts DEF LoadsModels
  <2>5. v.state = seen[r] /\ v.active = InFlight
    BY DEF ViewOf
  <2> HIDE DEF v, a, u
  <2>6. PICK j \in Instances \ {InstanceOf[TargetFor[r]]} :
          /\ u \in Residents(v, TargetFor[r], j)
          /\ \A x \in Residents(v, TargetFor[r], j) : x \notin v.active
    BY <2>3 DEF IdleVictim
  <2>7. j = i /\ seen[r][u] = "ready" /\ InstanceOf[u] = i
    BY <2>1, <2>5, <2>6 DEF Residents, IsActive, u, a
  <2>8. seen[r][w] = "ready"
    BY <1>1, <2>3, <2>4, <2>7 DEF SeenTogether, Together
  <2>9. w \in Residents(v, TargetFor[r], j)
    BY <1>1, <2>5, <2>6, <2>7, <2>8 DEF Residents, IsActive
  <2> QED BY <1>2, <2>5, <2>6, <2>9
<1>4. ASSUME NEW r \in Requests, phase[r] # "asking", phase'[r] = "asking",
             doing'[r].type = "unload-model", doing'[r].target = w
      PROVE  phase[q] \in {"new", "ended"}
  <2>1. Acts(r) /\ Head(Todo(r)).type = "unload-model" /\ Head(Todo(r)).target = w
    BY <1>4, OnlyExecutorsAsk
  <2>2. Head(Todo(r)).type \in TakeDowns
    BY <2>1 DEF TakeDowns
  <2>3. IdleVictim(ViewOf(seen[r]), TargetFor[r], w)
    BY <2>1, <2>2, TakenDownIsVictim
  <2>4. w \notin ViewOf(seen[r]).active
    BY <2>3 DEF IdleVictim
  <2> QED BY <1>2, <2>4 DEF ViewOf
<1> QED BY <1>3, <1>4 DEF TakesDown

(* Where the targets of an instance all name models or none does, no       *)
(* executor tells an engine to stop, or a router to unload a model, that a *)
(* request in flight counts on, however old what its preview gathered is.  *)
THEOREM ExecutorsSpareInFlight ==
  ASSUME Unmixed
  PROVE  Spec => SparesInFlight
<1> DEFINE Inv == Typed /\ UnloadsSeen /\ SeenTogether
<1>1. Init => Inv
  BY InitTypes, InitSeen
<1>2. Inv /\ [Next]_vars => Inv'
  BY TypedStep, UnloadsSeenStep, SeenTogetherStep
<1>3. Inv /\ [Next]_vars =>
        [\A r \in Requests : TakesDown(TargetFor[r]) => phase[r] \in {"new", "ended"}]_vars
  BY SparingStep
<1> QED BY <1>1, <1>2, <1>3, PTL DEF Spec, SparesInFlight

(* Each target that saves its slots has its instance to itself.            *)
SaversAlone ==
  \A t, u \in Targets :
    InstanceOf[t] = InstanceOf[u] /\ SavesSlots[t] /\ SlotSave[t] => t = u

(* A step that stops an engine follows the saves. *)
LEMMA SavingStep ==
  ASSUME SaversAlone, Typed, UnloadsSeen, [Next]_vars,
         NEW i \in Instances, engine[i] = "ready", engine'[i] = "stopping",
         NEW t \in On(i), SavesSlots[t], SlotSave[t]
  PROVE  Range(SlotIds[t]) \subseteq saved[t]
<1>1. PICK r \in Requests : /\ Acts(r)
                            /\ StopInstance(r, Head(Todo(r)))
                            /\ InstanceOf[Head(Todo(r)).target] = i
  BY OnlyExecutorsStop
<1> DEFINE v == ViewOf(seen[r])
           a == Head(Todo(r))
           u == a.target
<1>2. a.type \in TakeDowns
  BY <1>1 DEF StopInstance, TakeDowns
<1>3. /\ v \in Views /\ u \in Targets
      /\ Len(UnloadActions(v, u)) # 0
      /\ a = Head(UnloadActions(v, u))
  BY <1>1, <1>2, TakenDownIsVictim
<1>4. u = t
  BY <1>1, <1>3 DEF SaversAlone, On
<1>5. v.saved = saved
  BY DEF ViewOf
<1> HIDE DEF v, a, u
<1>6. Range(SlotIds[t]) \subseteq v.saved[t]
  BY <1>2, <1>3, <1>4, UnloadStarts
<1> QED BY <1>5, <1>6

(* Where a target that saves its slots has its instance to itself, the     *)
(* engine is stopped only once they are on disk, whatever else happens     *)
(* between the saves and the stop.                                         *)
THEOREM StopsAfterSaving ==
  ASSUME SaversAlone
  PROVE  Spec => SavedBeforeStop
<1> DEFINE Inv == Typed /\ UnloadsSeen
<1>1. Init => Inv
  BY InitTypes, InitSeen
<1>2. Inv /\ [Next]_vars => Inv'
  BY TypedStep, UnloadsSeenStep
<1>3. Inv /\ [Next]_vars =>
        [\A i \in Instances : engine[i] = "ready" /\ engine'[i] = "stopping" =>
           \A t \in On(i) : SavesSlots[t] /\ SlotSave[t] => Range(SlotIds[t]) \subseteq saved[t]]_vars
  BY SavingStep
<1> QED BY <1>1, <1>2, <1>3, PTL DEF Spec, SavedBeforeStop

-----------------------------------------------------------------------------
(* Who holds the swap lock.  Where every request is admitted before it     *)
(* previews, each step under the lock is one of three kinds.               *)

Inner == {"preview", "sleep", "starting", "asking"}

LockHeld ==
  \A r \in Requests :
    /\ r \in inside <=> phase[r] \in Inner
    /\ r \in inside => mode[r] # "initial"
    /\ phase[r] \notin {"serving", "ended"} => outcome[r] = "none"

(* Whoever reads its preview has all of it. *)
ReadsAll(r) == phase[r] = "preview" => \A t \in Targets : seen[r][t] # "awaited"

(* The request has no lock afterwards; it is served only if its plan had   *)
(* nothing left to do, and refused only if its plan was blocked.           *)
Leaves(r) ==
  /\ ReadsAll(r)
  /\ \E to \in {"queued", "lock", "serving", "ended"} : phase' = [phase EXCEPT ![r] = to]
  /\ inside' = inside \ {r}
  /\ UNCHANGED <<engine, saved, probeVars, seen, mode, tried>>
  /\ \/ /\ UNCHANGED outcome
        /\ r \notin inside
        /\ phase[r] \in {"new", "queued"} \/ phase'[r] = "ended"
     \/ \E result \in Outcomes \ {"none"} :
          /\ outcome' = [outcome EXCEPT ![r] = result]
          /\ phase[r] \notin {"serving", "ended"} /\ phase'[r] \in {"serving", "ended"}
          /\ (r \in inside /\ result = "ok") =>
               /\ phase[r] = "preview"
               /\ PreviewFor(r, seen[r]).ok
               /\ Todo(r) = << >>
          /\ (r \in inside /\ result = "blocked") =>
               \/ phase[r] = "sleep" /\ mode[r] = "blocked"
               \/ phase[r] = "preview" /\ ~PreviewFor(r, seen[r]).ok

(* It goes on with something that is not a preview: its engine is to be    *)
(* started, a slot is saved or restored, or it sleeps.                     *)
Stays(r) ==
  /\ ReadsAll(r)
  /\ r \in inside /\ phase[r] = "preview"
  /\ \/ /\ phase' = [phase EXCEPT ![r] = "starting"]
        /\ Acts(r) /\ Head(Todo(r)).type = "start-instance"
        /\ ~tried[r] /\ tried' = [tried EXCEPT ![r] = TRUE]
        /\ UNCHANGED mode
     \/ /\ \E to \in {"sleep", "asking"} : phase' = [phase EXCEPT ![r] = to]
        /\ UNCHANGED tried
        /\ \/ UNCHANGED mode
           \/ mode' = [mode EXCEPT ![r] = "blocked"] /\ ~PreviewFor(r, seen[r]).ok
  /\ UNCHANGED <<engineVars, probeVars, seen, inside, outcome>>

(* It awaits a preview, after it has entered, acted or slept. *)
Looks(r) ==
  /\ \E m \in Modes \ {"initial"} :
       /\ AwaitPreview(r, m, engine')
       /\ m = "blocked" => mode[r] = "blocked" /\ phase[r] = "sleep"
  /\ inside' = inside \cup {r}
  /\ r \in inside \/ \A q \in inside : Domains(q) \cap Domains(r) = {}
  /\ UNCHANGED <<outcome, tried>>
  /\ phase[r] \notin {"serving", "ended"}
  /\ \/ UNCHANGED engine
     \/ Acts(r) /\ StopInstance(r, Head(Todo(r)))
     \/ /\ phase[r] = "starting"
        /\ engine[InstanceFor(r)] \in {"stopped", "failed"}
        /\ engine' = [engine EXCEPT ![InstanceFor(r)] = "starting"]

LEMMA FinishLeaves ==
  ASSUME Typed, NEW r \in Requests, NEW result \in Outcomes \ {"none"}, Finish(r, result),
         UNCHANGED <<engine, saved, probeVars>>, ReadsAll(r), phase[r] \notin {"serving", "ended"},
         (r \in inside /\ result = "ok") => /\ phase[r] = "preview"
                                            /\ PreviewFor(r, seen[r]).ok
                                            /\ Todo(r) = << >>,
         (r \in inside /\ result = "blocked") =>
            \/ phase[r] = "sleep" /\ mode[r] = "blocked"
            \/ phase[r] = "preview" /\ ~PreviewFor(r, seen[r]).ok
  PROVE  Leaves(r)
<1>1. phase \in [Requests -> Phases]
  BY DEF Typed, TypeOK, Phases
<1>2. phase' = [phase EXCEPT ![r] = "serving"] \/ phase' = [phase EXCEPT ![r] = "ended"]
  BY DEF Finish
<1>3. /\ \E to \in {"queued", "lock", "serving", "ended"} : phase' = [phase EXCEPT ![r] = to]
      /\ phase'[r] \in {"serving", "ended"}
  BY <1>1, <1>2
<1> QED BY <1>3 DEF Finish, Leaves

(* An executor's action. *)
LEMMA ActionSteps ==
  ASSUME Typed, LockHeld, NEW r \in Requests, Acts(r)
  PROVE  Leaves(r) \/ Stays(r) \/ Looks(r)
<1> DEFINE a == Head(Todo(r))
<1>1. r \in inside /\ ReadsAll(r) /\ phase[r] = "preview" /\ inside = inside \cup {r}
  BY DEF Acts, LockHeld, Inner, ReadsAll
<1>2. \/ AskEngine(r, a) \/ StopInstance(r, a)
      \/ StartInstance(r, a) \/ WaitReady(r, a)
  BY DEF Acts
<1>3. {"upstream", "startFailed"} \subseteq Outcomes \ {"none"}
  BY DEF Outcomes
<1>4. "pass" \in Modes \ {"initial"} /\ "wait" \in Modes \ {"initial"}
  BY DEF Modes
<1>5. CASE StopInstance(r, a)
  <2>1. AwaitPreview(r, "pass", engine') /\ UNCHANGED <<inside, outcome, tried>>
    BY <1>5 DEF StopInstance
  <2> QED BY <1>1, <1>4, <1>5, <2>1 DEF Looks
<1> HIDE DEF a
<1>6. CASE AskEngine(r, a)
  BY <1>1, <1>6 DEF AskEngine, Stays
<1>8. CASE StartInstance(r, a)
  <2>1. CASE Finish(r, "startFailed")
    BY <1>1, <1>3, <1>8, <2>1, FinishLeaves DEF StartInstance, engineVars
  <2>2. CASE /\ phase' = [phase EXCEPT ![r] = "starting"]
             /\ ~tried[r] /\ tried' = [tried EXCEPT ![r] = TRUE]
             /\ UNCHANGED <<seen, swaps, mode, doing, pass, inside, outcome>>
    <3>1. a.type = "start-instance" /\ UNCHANGED <<engineVars, probeVars>>
      BY <1>8 DEF StartInstance
    <3> QED BY <1>1, <2>2, <3>1 DEF a, Stays
  <2> QED BY <1>8, <2>1, <2>2 DEF StartInstance
<1>9. CASE WaitReady(r, a)
  <2>1. AwaitPreview(r, "wait", engine) /\ UNCHANGED <<engine, inside, outcome, tried>>
    BY <1>9 DEF WaitReady, engineVars
  <2>2. AwaitPreview(r, "wait", engine')
    BY <2>1
  <2> QED BY <1>1, <1>4, <2>1, <2>2 DEF Looks
<1> QED BY <1>2, <1>5, <1>6, <1>8, <1>9

(* A pass, which begins with a plan that is not blocked unless it is one   *)
(* too many.                                                               *)
LEMMA PassKinds ==
  ASSUME Typed, LockHeld, NEW r \in Requests, phase[r] = "preview",
         \A t \in Targets : seen[r][t] # "awaited",
         RunPass(r, PreviewFor(r, seen[r])), PreviewFor(r, seen[r]).ok \/ pass[r] = MaxPasses
  PROVE  Leaves(r) \/ Stays(r) \/ Looks(r)
<1>1. ReadsAll(r) /\ {"passes", "ok"} \subseteq Outcomes \ {"none"}
  BY DEF ReadsAll, Outcomes
<1>2. CASE Finish(r, "passes") /\ UNCHANGED <<engineVars, probeVars>>
  BY <1>1, <1>2, FinishLeaves DEF engineVars
<1>3. CASE Todo(r) = << >> /\ Finish(r, "ok") /\ UNCHANGED <<engineVars, probeVars>> /\ pass[r] # MaxPasses
  BY <1>1, <1>3, FinishLeaves DEF engineVars
<1>4. pass[r] = MaxPasses => Finish(r, "passes") /\ UNCHANGED <<engineVars, probeVars>>
  <2>1. MaxPasses \in Nat
    BY ReadinessInputs
  <2> QED BY <2>1 DEF RunPass
<1> QED BY <1>2, <1>3, <1>4, ActionSteps, PassSteps

LEMMA DecideKinds ==
  ASSUME Typed, LockHeld, NEW r \in Requests, Decide(r)
  PROVE  Leaves(r) \/ Stays(r) \/ Looks(r)
<1> DEFINE plan == PreviewFor(r, seen[r])
<1>1. r \in inside /\ mode[r] # "initial" /\ phase[r] = "preview"
  BY DEF Decide, LockHeld, Inner
<1>2. /\ \A t \in Targets : seen[r][t] # "awaited"
      /\ RunUnblock(r, plan) \/ RunWait(r, plan)
  BY <1>1 DEF Decide
<1>3. RunPass(r, plan) /\ (plan.ok \/ pass[r] = MaxPasses) => Leaves(r) \/ Stays(r) \/ Looks(r)
  BY <1>1, <1>2, PassKinds
<1> HIDE DEF plan
<1>4. ReadsAll(r) /\ "blocked" \in Outcomes \ {"none"}
  BY <1>2 DEF ReadsAll, Outcomes
<1>5. CASE RunUnblock(r, plan)
  <2>1. \/ (plan.ok \/ pass[r] = MaxPasses) /\ RunPass(r, plan)
        \/ /\ ~plan.ok
           /\ phase' = [phase EXCEPT ![r] = "sleep"]
           /\ mode' = [mode EXCEPT ![r] = "blocked"]
           /\ UNCHANGED <<engineVars, probeVars, seen, swaps, doing, pass, tried, inside, outcome>>
    BY <1>5 DEF RunUnblock
  <2> QED BY <1>1, <1>3, <1>4, <2>1 DEF plan, Stays, engineVars, probeVars
<1>6. CASE RunWait(r, plan)
  <2>1. \/ ~plan.ok /\ Finish(r, "blocked") /\ UNCHANGED <<engineVars, probeVars>>
        \/ Await(r) /\ UNCHANGED <<engineVars, probeVars>>
        \/ plan.ok /\ RunPass(r, plan)
    <3>1. plan.ok \in BOOLEAN
      <4>1. ViewOf(seen[r]) \in Views /\ TargetFor[r] \in Targets /\ FALSE \in BOOLEAN
        BY <1>2, SeenStates, ViewsOfStates, ReadinessInputs
      <4> QED BY <4>1, PlanShape DEF PreviewFor, plan
    <3> QED BY <1>6, <3>1 DEF RunWait
  <2>2. CASE ~plan.ok /\ Finish(r, "blocked") /\ UNCHANGED <<engineVars, probeVars>>
    BY <1>1, <1>4, <2>2, FinishLeaves DEF plan, engineVars
  <2>3. CASE Await(r) /\ UNCHANGED <<engineVars, probeVars>>
    BY <1>1, <1>4, <2>3 DEF Await, Stays
  <2> QED BY <1>3, <2>1, <2>2, <2>3
<1> QED BY <1>2, <1>5, <1>6

LEMMA StepKinds ==
  ASSUME FirstLive = {}, Typed, LockHeld, NEW r \in Requests, RequestNext(r)
  PROVE  Leaves(r) \/ Stays(r) \/ Looks(r)
<1>1. {"ok", "blocked", "timedOut", "upstream"} \subseteq Outcomes \ {"none"}
      /\ "pass" \in Modes \ {"initial"} /\ mode[r] \in Modes
  BY DEF Outcomes, Modes, Typed, TypeOK
<1>2. phase[r] # "preview" => ReadsAll(r)
  BY DEF ReadsAll
<1>3. r \in inside <=> phase[r] \in Inner
  BY DEF LockHeld
<1>4. CASE Begin(r)
  <2>1. phase[r] \notin {"preview", "serving", "ended"} /\ r \notin inside /\ inside = inside \ {r}
    BY <1>3, <1>4 DEF Begin, Inner
  <2>2. UNCHANGED <<engineVars, probeVars>>
    BY <1>4 DEF Begin
  <2>3. \/ Finish(r, "blocked")
        \/ /\ phase' = [phase EXCEPT ![r] = "queued"]
           /\ UNCHANGED <<seen, mode, doing, pass, tried, inside, outcome>>
    BY <1>4 DEF Begin
  <2>4. CASE Finish(r, "blocked")
    BY <1>1, <1>2, <2>1, <2>2, <2>4, FinishLeaves DEF engineVars
  <2> QED BY <1>2, <1>4, <2>1, <2>2, <2>3, <2>4 DEF Begin, Leaves, engineVars
<1>5. CASE Admitted(r)
  <2>1. phase[r] \notin {"preview", "serving", "ended"} /\ r \notin inside /\ inside = inside \ {r}
    BY <1>3, <1>5 DEF Admitted, Inner
  <2>2. UNCHANGED <<engineVars, probeVars>> /\ (WaitForLock(r) \/ Finish(r, "ok"))
    BY <1>5 DEF Admitted
  <2>3. CASE Finish(r, "ok")
    BY <1>1, <1>2, <2>1, <2>2, <2>3, FinishLeaves DEF engineVars
  <2> QED BY <1>2, <1>5, <2>1, <2>2, <2>3 DEF Admitted, Leaves, WaitForLock, engineVars
<1>6. CASE TakeLock(r)
  <2>1. AwaitPreview(r, "pass", engine) /\ UNCHANGED engine
    BY <1>6 DEF TakeLock, engineVars
  <2>2. AwaitPreview(r, "pass", engine')
    BY <2>1
  <2> QED BY <1>1, <1>6, <2>1, <2>2 DEF TakeLock, Looks
<1>7. CASE Decide(r)
  BY <1>7, DecideKinds
<1>8. CASE Poll(r)
  <2>1. r \in inside /\ mode[r] # "initial" /\ inside = inside \cup {r}
    BY <1>8 DEF Poll, LockHeld, Inner
  <2>2. AwaitPreview(r, mode[r], engine) /\ UNCHANGED engine
    BY <1>8 DEF Poll, engineVars
  <2>3. AwaitPreview(r, mode[r], engine')
    BY <2>2
  <2> QED BY <1>1, <1>8, <2>1, <2>2, <2>3 DEF Poll, Looks
<1>9. CASE GiveUp(r)
  <2>1. Finish(r, "timedOut") \/ (mode[r] = "blocked" /\ Finish(r, "blocked"))
    BY <1>9 DEF GiveUp
  <2>2. phase[r] = "sleep" /\ UNCHANGED <<engineVars, probeVars>>
    BY <1>9 DEF GiveUp
  <2> QED BY <1>1, <1>2, <2>1, <2>2, FinishLeaves DEF engineVars
<1>10. CASE CompleteStart(r)
  <2>1. r \in inside /\ inside = inside \cup {r} /\ phase[r] = "starting"
    BY <1>10 DEF CompleteStart, LockHeld, Inner
  <2>2. \/ /\ engine[InstanceFor(r)] \in {"stopped", "failed"}
           /\ engine' = [engine EXCEPT ![InstanceFor(r)] = "starting"]
           /\ AwaitPreview(r, "pass", engine')
           /\ UNCHANGED <<inside, outcome, tried>>
        \/ /\ AwaitPreview(r, "pass", engine)
           /\ UNCHANGED <<engine, inside, outcome, tried>>
        \/ Finish(r, "upstream") /\ UNCHANGED <<engineVars, probeVars>>
    BY <1>10 DEF CompleteStart, engineVars
  <2>3. AwaitPreview(r, "pass", engine) /\ UNCHANGED engine => AwaitPreview(r, "pass", engine')
    OBVIOUS
  <2>4. CASE Finish(r, "upstream") /\ UNCHANGED <<engineVars, probeVars>>
    BY <1>1, <1>2, <2>1, <2>4, FinishLeaves DEF engineVars
  <2> QED BY <1>1, <2>1, <2>2, <2>3, <2>4 DEF Looks
<1>11. ASSUME NEW ok \in BOOLEAN, AnswerSlot(r, ok) PROVE Leaves(r) \/ Looks(r)
  <2>1. r \in inside /\ inside = inside \cup {r} /\ phase[r] = "asking"
    BY <1>11 DEF AnswerSlot, LockHeld, Inner
  <2>2. \/ /\ AwaitPreview(r, "pass", engine)
           /\ UNCHANGED <<engine, inside, outcome, tried>>
        \/ Finish(r, "upstream") /\ UNCHANGED <<engineVars, probeVars>>
    BY <1>11 DEF AnswerSlot, engineVars
  <2>3. AwaitPreview(r, "pass", engine) /\ UNCHANGED engine => AwaitPreview(r, "pass", engine')
    OBVIOUS
  <2>4. CASE Finish(r, "upstream") /\ UNCHANGED <<engineVars, probeVars>>
    BY <1>1, <1>2, <2>1, <2>4, FinishLeaves DEF engineVars
  <2> QED BY <1>1, <2>1, <2>2, <2>3, <2>4 DEF Looks
<1>13. ASSUME NEW ok \in BOOLEAN, AnswerModel(r, ok) PROVE Leaves(r) \/ Looks(r)
  <2>1. /\ phase[r] = "asking" /\ UNCHANGED <<engine, saved>>
        /\ \/ AwaitPreview(r, "pass", engine) /\ UNCHANGED <<doing, pass, tried, inside, outcome>>
           \/ Finish(r, "upstream") /\ UNCHANGED probeVars
    BY <1>13, ModelAnswered
  <2>2. r \in inside /\ inside = inside \cup {r}
    BY <2>1 DEF LockHeld, Inner
  <2>3. CASE AwaitPreview(r, "pass", engine) /\ UNCHANGED <<doing, pass, tried, inside, outcome>>
    <3>1. AwaitPreview(r, "pass", engine')
      BY <2>1, <2>3
    <3> QED BY <1>1, <2>1, <2>2, <2>3, <3>1 DEF Looks
  <2>4. CASE Finish(r, "upstream") /\ UNCHANGED probeVars
    BY <1>1, <1>2, <2>1, <2>4, FinishLeaves
  <2> QED BY <2>1, <2>3, <2>4
<1>12. CASE EndRequest(r)
  <2>1. phase[r] = "serving" /\ r \notin inside /\ inside = inside \ {r}
    BY <1>3, <1>12 DEF EndRequest, Inner
  <2>2. phase'[r] = "ended"
    BY <1>12 DEF EndRequest, Typed, TypeOK
  <2> QED BY <1>2, <1>12, <2>1, <2>2 DEF EndRequest, Leaves, engineVars
<1> QED BY <1>4, <1>5, <1>6, <1>7, <1>8, <1>9, <1>10, <1>11, <1>12, <1>13 DEF RequestNext, Proceeds

(* Those inside share no pool. *)
OnePerPool == \A q, r \in inside : q # r => Domains(q) \cap Domains(r) = {}

(* Somebody has taken the engine down. *)
Gone(i) == engine[i] # "ready" /\ i \notin Fragile

(* A request inside that has seen its target ready is not mistaken. *)
ReadySeen ==
  \A r \in inside : phase[r] = "preview" /\ seen[r][TargetFor[r]] = "ready" => ~Gone(InstanceFor(r))

(* A probe that is about to report an engine ready that is gone: whoever   *)
(* has taken it down is inside, awaits that very report, and shares a pool *)
(* with the engine.                                                        *)
StaleAwaited ==
  \A t \in Targets : answer[t] = "ready" /\ Gone(InstanceOf[t]) =>
    \E q \in inside : /\ phase[q] = "preview"
                      /\ seen[q][t] = "awaited"
                      /\ InstanceFor(q) # InstanceOf[t]
                      /\ SharePool(InstanceOf[t], InstanceFor(q))

(* What the steps of the probes and of the engines leave alone. *)
LEMMA OtherSteps ==
  ASSUME Typed, Next \/ UNCHANGED vars, \A r \in Requests : ~RequestNext(r)
  PROVE  /\ UNCHANGED <<phase, mode, inside, outcome, tried>>
         /\ \A i \in Instances : Gone(i)' => Gone(i)
         /\ \/ \E i \in Instances : ProbeAnswered(i) \/ ProbeDone(i)
            \/ UNCHANGED <<seen, answer>>
<1>1. engine \in [Instances -> EngineStates]
  BY DEF Typed, TypeOK, EngineStates
<1>2. ASSUME NEW i \in Instances, ProbeAnswered(i) \/ ProbeDone(i)
      PROVE  UNCHANGED <<engine, phase, mode, inside, outcome, tried>>
  BY <1>2 DEF ProbeAnswered, ProbeDone, engineVars, requestVars
<1>3. ASSUME NEW i \in Instances, Reconcile(i)
      PROVE  UNCHANGED <<engine, phase, mode, inside, outcome, tried, seen, answer>>
  BY <1>3 DEF Reconcile, engineVars, requestVars
<1>4. ASSUME NEW i \in Instances, EngineNext(i)
      PROVE  /\ UNCHANGED <<phase, mode, inside, outcome, tried, seen, answer>>
             /\ \A j \in Instances : Gone(j)' => Gone(j)
  <2>1. UNCHANGED <<probeVars, requestVars>>
    BY <1>4 DEF EngineNext, Spawned, Loaded, Exited, Crash, EngineStep
  <2>2. \/ engine[i] # "ready" /\ \E to \in EngineStates : engine' = [engine EXCEPT ![i] = to]
        \/ i \in Fragile /\ engine' = [engine EXCEPT ![i] = "failed"]
    BY <1>4 DEF EngineNext, Spawned, Loaded, Exited, Crash, EngineStep, EngineStates
  <2>3. \A j \in Instances : Gone(j)' => Gone(j)
    BY <1>1, <2>2 DEF Gone
  <2> QED BY <2>1, <2>3 DEF probeVars, requestVars
<1>5. ASSUME NEW t \in Targets, (ModelLoaded(t) \/ ModelFails(t))
      PROVE  UNCHANGED <<engine, phase, mode, inside, outcome, tried, seen, answer>>
  BY <1>5 DEF ModelLoaded, ModelFails, ModelStep, probeVars, requestVars
<1>6. UNCHANGED vars => UNCHANGED <<engine, phase, mode, inside, outcome, tried, seen, answer>>
  BY DEF vars, engineVars, probeVars, requestVars
<1>7. UNCHANGED engine => \A i \in Instances : Gone(i)' => Gone(i)
  BY DEF Gone
<1>8. CASE UNCHANGED vars
  BY <1>6, <1>7, <1>8
<1>9. CASE \E i \in Instances : ProbeAnswered(i) \/ ProbeDone(i)
  BY <1>2, <1>7, <1>9
<1>10. CASE \E i \in Instances : Reconcile(i)
  BY <1>3, <1>7, <1>10
<1>11. CASE \E i \in Instances : EngineNext(i)
  BY <1>4, <1>11
<1>12. CASE \E t \in Targets : (ModelLoaded(t) \/ ModelFails(t))
  BY <1>5, <1>7, <1>12
<1> QED BY <1>8, <1>9, <1>10, <1>11, <1>12 DEF Next

LEMMA PhaseTypes ==
  Typed => /\ phase \in [Requests -> Phases]
           /\ mode \in [Requests -> Modes]
           /\ outcome \in [Requests -> Outcomes]
           /\ inside \subseteq Requests
           /\ engine \in [Instances -> EngineStates]
           /\ seen \in [Requests -> [Targets -> States \cup {"awaited"}]]
           /\ answer \in [Targets -> States \cup {"awaited"}]
           /\ pending \in [Instances -> ProcessStatuses]
           /\ tried \in [Requests -> BOOLEAN]
BY DEF Typed, TypeOK, Phases, Modes, Outcomes, EngineStates, ProcessStatuses

LEMMA LockHeldStep ==
  ASSUME FirstLive = {}, Typed, LockHeld, [Next]_vars
  PROVE  LockHeld'
<1>1. /\ phase \in [Requests -> Phases] /\ mode \in [Requests -> Modes]
      /\ outcome \in [Requests -> Outcomes] /\ inside \subseteq Requests
  BY PhaseTypes
<1>2. ASSUME NEW r \in Requests, RequestNext(r), NEW q \in Requests
      PROVE  /\ q \in inside' <=> phase'[q] \in Inner
             /\ q \in inside' => mode'[q] # "initial"
             /\ phase'[q] \notin {"serving", "ended"} => outcome'[q] = "none"
  <2>1. /\ q \in inside <=> phase[q] \in Inner
        /\ q \in inside => mode[q] # "initial"
        /\ phase[q] \notin {"serving", "ended"} => outcome[q] = "none"
    BY DEF LockHeld
  <2>2. CASE Leaves(r)
    <3>1. PICK to \in {"queued", "lock", "serving", "ended"} : phase' = [phase EXCEPT ![r] = to]
      BY <2>2 DEF Leaves
    <3>2. to \notin Inner /\ inside' = inside \ {r} /\ mode' = mode
      BY <2>2 DEF Leaves, Inner
    <3>3. phase'[q] = (IF q = r THEN to ELSE phase[q])
      BY <1>1, <3>1
    <3>4. phase'[q] \notin {"serving", "ended"} => outcome'[q] = "none"
      <4>1. CASE UNCHANGED outcome /\ (phase[r] \in {"new", "queued"} \/ phase'[r] = "ended")
        BY <2>1, <3>3, <4>1
      <4>2. CASE \E result \in Outcomes : outcome' = [outcome EXCEPT ![r] = result]
                                          /\ phase'[r] \in {"serving", "ended"}
        BY <1>1, <2>1, <3>3, <4>2
      <4> QED BY <2>2, <4>1, <4>2 DEF Leaves
    <3> QED BY <2>1, <3>2, <3>3, <3>4
  <2>3. CASE Stays(r)
    <3>1. PICK to \in {"sleep", "starting", "asking"} : phase' = [phase EXCEPT ![r] = to]
      BY <2>3 DEF Stays
    <3>2. to \in Inner /\ r \in inside /\ inside' = inside /\ outcome' = outcome
          /\ (mode' = mode \/ mode' = [mode EXCEPT ![r] = "blocked"])
      BY <2>3 DEF Stays, Inner
    <3>3. phase'[q] = (IF q = r THEN to ELSE phase[q])
      BY <1>1, <3>1
    <3>4. phase[r] \in Inner
      BY <3>2 DEF LockHeld
    <3>5. q \in inside' => mode'[q] # "initial"
      BY <1>1, <2>1, <3>2
    <3> QED BY <2>1, <3>2, <3>3, <3>4, <3>5 DEF Inner
  <2>4. CASE Looks(r)
    <3>1. phase' = [phase EXCEPT ![r] = "preview"]
          /\ \E m \in Modes \ {"initial"} : mode' = [mode EXCEPT ![r] = m]
      BY <2>4 DEF Looks, AwaitPreview
    <3>2. inside' = inside \cup {r} /\ outcome' = outcome /\ phase[r] \notin {"serving", "ended"}
      BY <2>4 DEF Looks
    <3>3. phase'[q] = (IF q = r THEN "preview" ELSE phase[q])
      BY <1>1, <3>1
    <3>4. q \in inside' => mode'[q] # "initial"
      BY <1>1, <2>1, <3>1, <3>2
    <3> QED BY <2>1, <3>2, <3>3, <3>4 DEF Inner
  <2> QED BY <1>2, <2>2, <2>3, <2>4, StepKinds
<1>3. ASSUME NEW r \in Requests, RequestNext(r) PROVE LockHeld'
  BY <1>2, <1>3 DEF LockHeld
<1>4. CASE \A r \in Requests : ~RequestNext(r)
  <2>1. UNCHANGED <<phase, mode, inside, outcome>>
    BY <1>4, OtherSteps
  <2> QED BY <2>1 DEF LockHeld
<1> QED BY <1>3, <1>4

LEMMA OnePerPoolStep ==
  ASSUME FirstLive = {}, Typed, LockHeld, OnePerPool, [Next]_vars
  PROVE  OnePerPool'
<1>1. ASSUME NEW r \in Requests, RequestNext(r) PROVE OnePerPool'
  <2>1. CASE inside' \subseteq inside
    BY <2>1 DEF OnePerPool, Domains, InstanceFor
  <2>2. CASE Looks(r) /\ r \notin inside
    <3>1. inside' = inside \cup {r} /\ \A q \in inside : Domains(q) \cap Domains(r) = {}
      BY <2>2 DEF Looks
    <3> QED BY <3>1 DEF OnePerPool, Domains, InstanceFor
  <2> QED BY <1>1, <2>1, <2>2, StepKinds DEF Leaves, Stays, Looks
<1>2. CASE \A r \in Requests : ~RequestNext(r)
  <2>1. UNCHANGED inside
    BY <1>2, OtherSteps
  <2> QED BY <2>1 DEF OnePerPool, Domains, InstanceFor
<1> QED BY <1>1, <1>2

(* Two requests inside whose engines share a pool are for one engine. *)
LEMMA PoolsApart ==
  ASSUME OnePerPool, NEW q \in inside, NEW r \in inside, SharePool(InstanceFor(r), InstanceFor(q))
  PROVE  q = r
BY DEF OnePerPool, Domains, SharePool

-----------------------------------------------------------------------------
(* Nobody inside mistakes an engine that was taken down for a ready one.   *)

LEMMA ReadyReads ==
  ASSUME NEW t \in Targets, NEW status, NEW e, "ready" \in StatesRead(t, status, e)
  PROVE  e = "ready"
<1>1. CASE ~HasModel[t]
  <2>1. "ready" \in ProcessStates(status, e)
    BY <1>1 DEF StatesRead
  <2> QED BY <2>1 DEF ProcessStates
<1>2. CASE HasModel[t]
  BY <1>2 DEF StatesRead
<1> QED BY <1>1, <1>2

(* An executor stops engines that its own shares a pool with.              *)
LEMMA StopsOthers ==
  ASSUME Typed, UnloadsSeen, NEW r \in Requests, Acts(r),
         StopInstance(r, Head(Todo(r)))
  PROVE  LET i == InstanceOf[Head(Todo(r)).target]
         IN /\ i \in Instances
            /\ i # InstanceFor(r)
            /\ SharePool(i, InstanceFor(r))
            /\ engine' = [engine EXCEPT ![i] = IF @ \in {"starting", "loading", "ready"}
                                              THEN "stopping" ELSE @]
<1> DEFINE a == Head(Todo(r))
           u == a.target
<1>1. a.type \in TakeDowns
  BY DEF StopInstance, TakeDowns
<1>2. u \in Targets /\ IdleVictim(ViewOf(seen[r]), TargetFor[r], u)
  BY <1>1, TakenDownIsVictim
<1>3. PICK i \in Instances \ {InstanceOf[TargetFor[r]]} :
        u \in Residents(ViewOf(seen[r]), TargetFor[r], i) /\ SharePool(i, InstanceOf[TargetFor[r]])
  BY <1>2 DEF IdleVictim
<1>4. i = InstanceOf[u]
  BY <1>3 DEF Residents
<1>5. engine' = [engine EXCEPT ![InstanceOf[u]] = IF @ \in {"starting", "loading", "ready"}
                                                 THEN "stopping" ELSE @]
  BY DEF StopInstance, RequestStop
<1> QED BY <1>3, <1>4, <1>5 DEF InstanceFor

Untouched == Typed /\ UnloadsSeen /\ LockHeld /\ OnePerPool /\ ReadySeen /\ StaleAwaited

(* The instances of a request and of a target are instances. *)
LEMMA InstancesOf ==
  /\ \A t \in Targets : InstanceOf[t] \in Instances
  /\ \A r \in Requests : TargetFor[r] \in Targets /\ InstanceFor(r) \in Instances
BY ReadinessInputs DEF Instances, IsManaged, InstanceFor

(* Only a stop makes an engine gone, and never one of a request inside.    *)
LEMMA LooksTakesDown ==
  ASSUME Untouched, NEW r \in Requests, Looks(r), NEW i \in Instances, ~Gone(i), Gone(i)'
  PROVE  /\ i # InstanceFor(r)
         /\ SharePool(i, InstanceFor(r))
         /\ \A q \in inside : InstanceFor(q) # i
<1>1. engine \in [Instances -> EngineStates]
  BY PhaseTypes DEF Untouched
<1>2. engine[i] = "ready" /\ engine'[i] # "ready"
  BY DEF Gone
<1>3. CASE UNCHANGED engine
  BY <1>2, <1>3
<1>4. CASE Acts(r) /\ StopInstance(r, Head(Todo(r)))
  <2> DEFINE j == InstanceOf[Head(Todo(r)).target]
  <2>1. /\ j \in Instances
        /\ j # InstanceFor(r)
        /\ SharePool(j, InstanceFor(r))
        /\ engine' = [engine EXCEPT ![j] = IF @ \in {"starting", "loading", "ready"}
                                          THEN "stopping" ELSE @]
    BY <1>4, StopsOthers DEF Untouched
  <2> HIDE DEF j
  <2>2. i = j
    BY <1>1, <1>2, <2>1
  <2>3. r \in inside
    BY <1>4 DEF Acts, Untouched, LockHeld, Inner
  <2>4. ASSUME NEW q \in inside, InstanceFor(q) = i PROVE FALSE
    <3>1. SharePool(InstanceFor(q), InstanceFor(r))
      BY <2>1, <2>2, <2>4
    <3>2. q = r
      BY <2>3, <3>1, PoolsApart DEF Untouched
    <3> QED BY <2>1, <2>2, <2>4, <3>2
  <2> QED BY <2>1, <2>2, <2>4
<1>5. CASE /\ engine[InstanceFor(r)] \in {"stopped", "failed"}
           /\ engine' = [engine EXCEPT ![InstanceFor(r)] = "starting"]
  BY <1>1, <1>2, <1>5
<1> QED BY <1>3, <1>4, <1>5 DEF Looks

LEMMA ReadySeenStep ==
  ASSUME FirstLive = {}, Untouched, [Next]_vars
  PROVE  ReadySeen'
<1>1. /\ phase \in [Requests -> Phases]
      /\ seen \in [Requests -> [Targets -> States \cup {"awaited"}]]
      /\ inside \subseteq Requests
  BY PhaseTypes DEF Untouched
<1>2. SUFFICES ASSUME NEW q \in inside', phase'[q] = "preview", seen'[q][TargetFor[q]] = "ready",
                      Gone(InstanceFor(q))'
               PROVE  FALSE
  BY DEF ReadySeen, InstanceFor
<1>3. ASSUME NEW r \in Requests, RequestNext(r) PROVE FALSE
  <2>1. CASE Leaves(r)
    <3>1. PICK to \in {"queued", "lock", "serving", "ended"} : phase' = [phase EXCEPT ![r] = to]
      BY <2>1 DEF Leaves
    <3>2. q \in inside /\ q # r /\ UNCHANGED <<engine, seen>>
      BY <2>1 DEF Leaves, engineVars
    <3>3. phase[q] = "preview" /\ seen[q][TargetFor[q]] = "ready" /\ Gone(InstanceFor(q))
      BY <1>1, <1>2, <3>1, <3>2 DEF Gone, InstanceFor
    <3> QED BY <3>2, <3>3 DEF Untouched, ReadySeen
  <2>2. CASE Stays(r)
    <3>1. PICK to \in {"sleep", "starting", "asking"} : phase' = [phase EXCEPT ![r] = to]
      BY <2>2 DEF Stays
    <3>2. q \in inside /\ UNCHANGED <<engine, seen>>
      BY <2>2 DEF Stays, engineVars
    <3>3. phase[q] = "preview" /\ seen[q][TargetFor[q]] = "ready" /\ Gone(InstanceFor(q))
      BY <1>1, <1>2, <3>1, <3>2 DEF Gone, InstanceFor
    <3> QED BY <3>2, <3>3 DEF Untouched, ReadySeen
  <2>3. CASE Looks(r)
    <3>1. /\ inside' = inside \cup {r}
          /\ phase' = [phase EXCEPT ![r] = "preview"]
          /\ seen' = [seen EXCEPT ![r] = [t \in Targets |-> "awaited"]]
      BY <2>3 DEF Looks, AwaitPreview
    <3>2. q # r
      BY <1>1, <1>2, <3>1, InstancesOf
    <3>3. q \in inside /\ phase[q] = "preview" /\ seen[q][TargetFor[q]] = "ready"
      BY <1>1, <1>2, <3>1, <3>2
    <3>4. ~Gone(InstanceFor(q)) /\ q \in Requests /\ InstanceFor(q) \in Instances
      BY <1>1, <3>3, InstancesOf DEF Untouched, ReadySeen
    <3> QED BY <1>2, <2>3, <3>3, <3>4, LooksTakesDown DEF InstanceFor
  <2> QED BY <1>3, <2>1, <2>2, <2>3, StepKinds DEF Untouched
<1>4. CASE \A r \in Requests : ~RequestNext(r)
  <2>1. /\ UNCHANGED <<phase, mode, inside, outcome>>
        /\ \A i \in Instances : Gone(i)' => Gone(i)
        /\ \/ \E i \in Instances : ProbeAnswered(i) \/ ProbeDone(i)
           \/ UNCHANGED <<seen, answer>>
    BY <1>4, OtherSteps DEF Untouched
  <2>2. q \in inside /\ q \in Requests /\ phase[q] = "preview" /\ Gone(InstanceFor(q))
    BY <1>1, <1>2, <2>1, InstancesOf DEF InstanceFor
  <2>3. seen[q][TargetFor[q]] # "ready"
    BY <2>2 DEF Untouched, ReadySeen
  <2>4. PICK i \in Instances : ProbeDone(i)
    BY <1>2, <2>1, <2>3 DEF ProbeAnswered, requestVars
  <2>5. answer[TargetFor[q]] = "ready"
    BY <1>2, <2>2, <2>3, <2>4, InstancesOf DEF ProbeDone
  <2>6. PICK k \in inside : /\ InstanceFor(k) # InstanceFor(q)
                            /\ SharePool(InstanceFor(q), InstanceFor(k))
    BY <2>2, <2>5, InstancesOf DEF Untouched, StaleAwaited, InstanceFor
  <2>7. k = q
    BY <2>2, <2>6, PoolsApart DEF Untouched
  <2> QED BY <2>6, <2>7
<1> QED BY <1>3, <1>4

LEMMA StaleAwaitedStep ==
  ASSUME FirstLive = {}, Untouched, [Next]_vars
  PROVE  StaleAwaited'
<1>1. /\ phase \in [Requests -> Phases]
      /\ seen \in [Requests -> [Targets -> States \cup {"awaited"}]]
      /\ inside \subseteq Requests
  BY PhaseTypes DEF Untouched
<1> DEFINE Awaits(q, t) == /\ phase[q] = "preview"
                           /\ seen[q][t] = "awaited"
                           /\ InstanceFor(q) # InstanceOf[t]
                           /\ SharePool(InstanceOf[t], InstanceFor(q))
<1>2. SUFFICES ASSUME NEW t \in Targets, answer'[t] = "ready", Gone(InstanceOf[t])'
               PROVE  \E q \in inside' : /\ phase'[q] = "preview"
                                         /\ seen'[q][t] = "awaited"
                                         /\ InstanceFor(q) # InstanceOf[t]
                                         /\ SharePool(InstanceOf[t], InstanceFor(q))
  BY DEF StaleAwaited, InstanceFor
<1>3. answer[t] = "ready" /\ Gone(InstanceOf[t]) => \E q \in inside : Awaits(q, t)
  BY DEF Untouched, StaleAwaited
<1>4. ASSUME NEW r \in Requests, RequestNext(r)
      PROVE  \E q \in inside' : /\ phase'[q] = "preview"
                                /\ seen'[q][t] = "awaited"
                                /\ InstanceFor(q) # InstanceOf[t]
                                /\ SharePool(InstanceOf[t], InstanceFor(q))
  <2>1. CASE Leaves(r) \/ Stays(r)
    <3>1. PICK to \in Phases : phase' = [phase EXCEPT ![r] = to]
      BY <2>1 DEF Leaves, Stays, Phases
    <3>2. UNCHANGED <<engine, answer, seen>> /\ ReadsAll(r) /\ inside \ {r} \subseteq inside'
      BY <2>1 DEF Leaves, Stays, engineVars, probeVars
    <3>3. PICK q \in inside : Awaits(q, t)
      BY <1>2, <1>3, <3>2 DEF Gone
    <3>4. q # r
      BY <3>2, <3>3 DEF ReadsAll
    <3>5. q \in inside' /\ phase'[q] = "preview" /\ seen'[q][t] = "awaited"
      BY <1>1, <3>1, <3>2, <3>3, <3>4
    <3> QED BY <3>3, <3>5
  <2>2. CASE Looks(r)
    <3>1. /\ inside' = inside \cup {r}
          /\ phase' = [phase EXCEPT ![r] = "preview"]
          /\ seen' = [seen EXCEPT ![r] = [u \in Targets |-> "awaited"]]
          /\ answer' = answer
      BY <2>2 DEF Looks, AwaitPreview
    <3>2. phase'[r] = "preview" /\ seen'[r][t] = "awaited" /\ r \in inside'
      BY <1>1, <3>1
    <3>3. CASE Gone(InstanceOf[t])
      <4>1. PICK q \in inside : Awaits(q, t)
        BY <1>2, <1>3, <3>1, <3>3
      <4>2. q \in inside' /\ phase'[q] = "preview" /\ seen'[q][t] = "awaited"
        BY <1>1, <3>1, <3>2, <4>1
      <4> QED BY <4>1, <4>2
    <3>4. CASE ~Gone(InstanceOf[t])
      <4>1. InstanceOf[t] # InstanceFor(r) /\ SharePool(InstanceOf[t], InstanceFor(r))
        BY <1>2, <2>2, <3>4, InstancesOf, LooksTakesDown
      <4> QED BY <3>2, <4>1
    <3> QED BY <3>3, <3>4
  <2> QED BY <1>4, <2>1, <2>2, StepKinds DEF Untouched
<1>5. CASE \A r \in Requests : ~RequestNext(r)
  <2>1. /\ UNCHANGED <<phase, mode, inside, outcome>>
        /\ \A i \in Instances : Gone(i)' => Gone(i)
        /\ \/ \E i \in Instances : ProbeAnswered(i) \/ ProbeDone(i)
           \/ UNCHANGED <<seen, answer>>
    BY <1>5, OtherSteps DEF Untouched
  <2>2. Gone(InstanceOf[t])
    BY <1>2, <2>1, InstancesOf
  <2>3. answer[t] = "ready" /\ \A q \in inside : seen[q][t] = "awaited" => seen'[q][t] = "awaited"
    <3>1. CASE UNCHANGED <<seen, answer>>
      BY <1>2, <3>1
    <3>2. ASSUME NEW i \in Instances, ProbeAnswered(i)
          PROVE  answer[t] = "ready" /\ seen' = seen
      <4>1. seen' = seen /\ engine' = engine
        BY <3>2 DEF ProbeAnswered, requestVars, engineVars
      <4>2. t \in On(i) => "ready" \in StatesRead(t, pending[i], engine[i])
        BY <1>2, <3>2 DEF ProbeAnswered
      <4>3. t \in On(i) => engine[InstanceOf[t]] = "ready"
        BY <4>2, ReadyReads DEF On
      <4>4. t \notin On(i)
        BY <2>2, <4>3 DEF Gone
      <4>5. answer'[t] = answer[t]
        BY <3>2, <4>4 DEF ProbeAnswered
      <4> QED BY <1>2, <4>1, <4>5
    <3>3. ASSUME NEW i \in Instances, ProbeDone(i)
          PROVE  answer[t] = "ready" /\ \A q \in Requests : seen'[q][t] = seen[q][t]
      <4>1. answer'[t] = IF t \in On(i) THEN "awaited" ELSE answer[t]
        BY <3>3 DEF ProbeDone
      <4>2. t \notin On(i) /\ answer[t] = "ready"
        BY <1>2, <4>1
      <4>3. \A q \in Requests : seen'[q][t] =
              IF t \in On(i) /\ phase[q] = "preview" /\ seen[q][t] = "awaited"
              THEN answer[t] ELSE seen[q][t]
        BY <3>3 DEF ProbeDone
      <4> QED BY <4>2, <4>3
    <3> QED BY <1>1, <2>1, <3>1, <3>2, <3>3
  <2>4. PICK q \in inside : Awaits(q, t)
    BY <1>3, <2>2, <2>3
  <2>5. q \in inside' /\ phase'[q] = "preview" /\ seen'[q][t] = "awaited"
    BY <2>1, <2>3, <2>4
  <2> QED BY <2>4, <2>5
<1> QED BY <1>4, <1>5

(* A plan with nothing left to do is one for a target that was seen ready. *)
LEMMA NothingToDo ==
  ASSUME Typed, UnloadsSeen, NEW r \in Requests, \A t \in Targets : seen[r][t] # "awaited",
         PreviewFor(r, seen[r]).ok, Todo(r) = << >>
  PROVE  seen[r][TargetFor[r]] = "ready"
<1> DEFINE v == ViewOf(seen[r])
           t == TargetFor[r]
           plan == PreviewFor(r, seen[r])
           loads == LoadActions(v, t)
           routeless == {a \in Range(plan.actions) : a.type # "route-request"}
<1>1. v \in Views /\ t \in Targets /\ IsManaged(t) /\ FALSE \in BOOLEAN /\ v.state = seen[r]
  BY SeenStates, ViewsOfStates, ReadinessInputs DEF ViewOf
<1>2. plan = PlanRequest(v, t, FALSE) /\ Todo(r) = Only(plan.actions, routeless)
  BY DEF PreviewFor, Todo, ReadinessActions
<1> HIDE DEF plan, v, t
<1>3. /\ v.state[t] # "error"
      /\ plan.actions \in Seq(ActionRec)
      /\ Range(loads) \subseteq Range(plan.actions)
  <2>1. plan.ok
    BY DEF plan
  <2> QED BY <1>1, <1>2, <2>1, PlanShape
<1>4. loads \in Seq(Loads(v, t))
  BY <1>1, LoadActionsFacts
<1>5. v.state[t] = "unloaded" => HasModel[t] /\ ModelLoadUnload[t]
  BY <1>1 DEF UnloadsSeen, OnlyModelsUnload, LoadsModels
<1>6. v.state[t] # "ready" => Len(loads) # 0
  BY <1>1, <1>3, <1>5, LoadActionsFacts
<1>7. Range(Todo(r)) = Range(plan.actions) \cap routeless
  <2> HIDE DEF routeless
  <2> QED BY <1>2, <1>3, OnlyKeeps
<1>8. Range(Todo(r)) = {}
  BY DEF Range
<1>9. SUFFICES ASSUME v.state[t] # "ready" PROVE FALSE
  BY <1>1 DEF t
<1>10. loads # << >>
  <2> HIDE DEF loads
  <2> QED BY <1>4, <1>6, <1>9
<1>11. Head(loads) \in Range(loads) /\ Range(loads) \subseteq Loads(v, t)
  <2> HIDE DEF loads
  <2> QED BY <1>4, <1>10, RangeHead, RangeType
<1>12. Head(loads).type # "route-request"
  BY <1>11 DEF Loads
<1> QED BY <1>3, <1>7, <1>8, <1>11, <1>12

LEMMA InitUntouched ==
  ASSUME FirstLive = {}, Init
  PROVE  Untouched
<1>1. Typed /\ UnloadsSeen
  BY InitTypes, InitSeen
<1>2. LockHeld /\ OnePerPool /\ ReadySeen /\ StaleAwaited
  BY DEF Init, LockHeld, Inner, OnePerPool, ReadySeen, StaleAwaited
<1> QED BY <1>1, <1>2 DEF Untouched

LEMMA UntouchedStep ==
  ASSUME FirstLive = {}, Untouched, [Next]_vars
  PROVE  Untouched'
<1>1. Typed /\ UnloadsSeen /\ LockHeld /\ OnePerPool
  BY DEF Untouched
<1>2. Typed' /\ UnloadsSeen'
  BY <1>1, TypedStep, UnloadsSeenStep
<1>3. LockHeld' /\ OnePerPool'
  BY <1>1, LockHeldStep, OnePerPoolStep
<1>4. ReadySeen' /\ StaleAwaited'
  BY ReadySeenStep, StaleAwaitedStep
<1> QED BY <1>2, <1>3, <1>4 DEF Untouched

(* Who leaves the lock to be served has an engine that is up. *)
LEMMA ServedStep ==
  ASSUME FirstLive = {}, Untouched, Next, NEW r \in inside, outcome'[r] = "ok"
  PROVE  engine[InstanceFor(r)] = "ready" \/ InstanceFor(r) \in Fragile
<1>1. /\ phase \in [Requests -> Phases] /\ outcome \in [Requests -> Outcomes]
      /\ inside \subseteq Requests /\ r \in Requests
  BY PhaseTypes DEF Untouched
<1>2. outcome[r] = "none"
  BY <1>1 DEF Untouched, LockHeld, Inner
<1>3. PICK q \in Requests : RequestNext(q)
  BY <1>2, OtherSteps DEF Untouched
<1>4. Leaves(q) /\ \E result \in Outcomes \ {"none"} :
        /\ outcome' = [outcome EXCEPT ![q] = result]
        /\ (q \in inside /\ result = "ok") => /\ phase[q] = "preview"
                                             /\ PreviewFor(q, seen[q]).ok
                                             /\ Todo(q) = << >>
  BY <1>2, <1>3, StepKinds DEF Untouched, Leaves, Stays, Looks
<1>5. q = r /\ phase[r] = "preview" /\ PreviewFor(r, seen[r]).ok /\ Todo(r) = << >>
  BY <1>1, <1>2, <1>4
<1>6. seen[r][TargetFor[r]] = "ready"
  BY <1>1, <1>4, <1>5, NothingToDo DEF Untouched, Leaves, ReadsAll
<1>7. ~Gone(InstanceFor(r))
  BY <1>5, <1>6 DEF Untouched, ReadySeen
<1> QED BY <1>7 DEF Gone

(* Where every request is admitted before it previews, a request that went *)
(* through the swap lock is dispatched to an engine that is up, or that    *)
(* has failed by itself: the previews it awaited may have joined probes    *)
(* that began before engines were stopped, but none of its own.            *)
THEOREM SwappedFindsReady ==
  ASSUME FirstLive = {}
  PROVE  Spec => SwappedMeansReady
<1>1. Init => Untouched
  BY InitUntouched
<1>2. Untouched /\ [Next]_vars => Untouched'
  BY UntouchedStep
<1>3. Untouched /\ [Next]_vars =>
        [\A r \in inside : outcome'[r] = "ok" =>
           engine[InstanceFor(r)] = "ready" \/ InstanceFor(r) \in Fragile]_vars
  BY ServedStep
<1> QED BY <1>1, <1>2, <1>3, PTL DEF Spec, SwappedMeansReady

-----------------------------------------------------------------------------
(* What is loaded together fits.                                           *)

(* A start is tried by a request that goes on to be served or to end. *)
TriedInside ==
  \A r \in Requests :
    /\ phase[r] = "starting" => tried[r]
    /\ tried[r] => phase[r] \in Inner \cup {"serving", "ended"}

Ordered == Typed /\ UnloadsSeen /\ LockHeld /\ OnePerPool /\ TriedInside

(* No executor has given up. *)
Clean == \A r \in Requests : outcome[r] \in {"none", "ok", "blocked"}

(* No probe under way would report a ready engine as anything else. *)
Settled(i) ==
  /\ pending[i] \in {"none", "running"}
  /\ \A t \in On(i) : answer[t] \in {"awaited", "ready"}

(* An engine that is up and may yet be seen as if it were not. *)
Unseen(i) == Occupied(i) /\ (engine[i] # "ready" \/ ~Settled(i))

SeesReady(r) == phase[r] = "preview" /\ seen[r][TargetFor[r]] = "ready"
Launched(r) == tried[r] /\ Occupied(InstanceFor(r))

(* Such an engine is being started by a request inside. *)
Owned ==
  \A i \in Instances : Unseen(i) =>
    \E r \in inside : InstanceFor(r) = i /\ tried[r] /\ ~SeesReady(r)

(* Whoever previews inside sees the ready engines it shares a pool with,   *)
(* but for the one that it started itself.                                 *)
CompleteFor(r, t) ==
  /\ phase[r] = "preview" /\ seen[r][t] # "awaited"
  /\ SharePool(InstanceOf[t], InstanceFor(r))
  /\ InstanceOf[t] # InstanceFor(r) \/ ~tried[r]
  /\ engine[InstanceOf[t]] = "ready" \/ answer[t] = "ready"
  => seen[r][t] = "ready"
Complete == \A r \in inside, t \in Targets : CompleteFor(r, t)

(* An engine that is down and is reported as nothing else. *)
Cold(i) ==
  /\ engine[i] \in {"stopped", "stopping", "failed"}
  /\ pending[i] \in {"none", "stopped", "stopping"}
  /\ \A t \in On(i) : answer[t] \in {"awaited", "stopped", "unknown"}

ToStart(r) ==
  \/ phase[r] = "starting"
  \/ phase[r] = "preview" /\ ~tried[r] /\ seen[r][TargetFor[r]] \in {"stopped", "unknown"}

(* What is to be started is down. *)
StartsCold == \A r \in inside : ToStart(r) => Cold(InstanceFor(r))

(* What a request has started is not reported failed, or ready too early.  *)
WarmFor(r) ==
  /\ \A t \in On(InstanceFor(r)) :
       answer[t] # "error" /\ (answer[t] = "ready" => engine[InstanceFor(r)] = "ready")
  /\ phase[r] # "starting" /\ mode[r] # "blocked"
  /\ phase[r] = "preview" => seen[r][TargetFor[r]] # "error"
Warm == \A r \in inside : Launched(r) => WarmFor(r)

(* The other instances that are up, or may be taken for it.                *)
Rivals(r) ==
  {i \in Instances \ {InstanceFor(r)} :
     \/ Occupied(i)
     \/ \E t \in On(i) : answer[t] = "ready" \/ (phase[r] = "preview" /\ seen[r][t] = "ready")}

(* What a request starts, or has started, fits beside them.                *)
FitsBeside ==
  \A r \in inside : phase[r] = "starting" \/ Launched(r) => Deficits(TargetFor[r], Rivals(r)) = {}

AllFit == Fit({i \in Instances : Occupied(i)})

Guarded == Owned /\ Complete /\ StartsCold /\ Warm /\ FitsBeside /\ AllFit

(* What a probe reads where no target is a model that a router loads.      *)
LEMMA PlainReads ==
  ASSUME NEW t \in Targets, ~LoadsModels(t), NEW status \in ProcessStatuses \ {"none"},
         NEW e \in EngineStates, NEW s \in StatesRead(t, status, e)
  PROVE  /\ status = "running" /\ e = "ready" => s = "ready"
         /\ status \in {"stopped", "stopping"} => s \in {"stopped", "unknown"}
         /\ s = "error" => e = "failed"
         /\ s = "ready" => e = "ready"
<1>1. CASE ~HasModel[t]
  <2>1. s \in ProcessStates(status, e)
    BY <1>1 DEF StatesRead
  <2> QED BY <1>1, <2>1 DEF ProcessStates, ProcessStatuses, EngineStates
<1>2. CASE HasModel[t]
  <2>1. ~ModelLoadUnload[t]
    BY <1>2 DEF LoadsModels
  <2> QED BY <1>2, <2>1 DEF StatesRead, ProcessStatuses
<1> QED BY <1>1, <1>2

(* Two requests inside for one instance are one. *)
LEMMA OneForEach ==
  ASSUME OnePerPool, inside \subseteq Requests, NEW q \in inside, NEW r \in inside,
         InstanceFor(q) = InstanceFor(r)
  PROVE  q = r
<1>1. SharePool(InstanceFor(r), InstanceFor(q))
  BY ReadinessInputs DEF SharePool, InstanceFor
<1> QED BY <1>1, PoolsApart

(* What fits beside the rivals of before fits beside those of now, if      *)
(* there are no more of them on its pools.                                 *)
LEMMA FewerRivals ==
  ASSUME NEW r \in Requests, Deficits(TargetFor[r], Rivals(r)) = {},
         \A i \in Rivals(r)' : SharePool(i, InstanceFor(r)) => i \in Rivals(r)
  PROVE  Deficits(TargetFor[r], Rivals(r)') = {}
<1>1. Rivals(r) \in SUBSET Instances /\ Rivals(r)' \in SUBSET Instances
  BY DEF Rivals
<1>2. TargetFor[r] \in Targets /\ IsManaged(TargetFor[r])
  BY ReadinessInputs
<1> HIDE DEF Rivals
<1> QED BY <1>1, <1>2, DeficitsCovered DEF InstanceFor

(* A plan for a target that was started, beside what else is up. *)
LEMMA LaunchedUnblocked ==
  ASSUME Ordered, Warm, FitsBeside, NEW r \in inside, Launched(r), phase[r] = "preview",
         \A t \in Targets : seen[r][t] # "awaited"
  PROVE  PreviewFor(r, seen[r]).ok
<1> DEFINE v == ViewOf(seen[r])
           t == TargetFor[r]
<1>1. r \in Requests
  BY PhaseTypes DEF Ordered
<1>2. v \in Views /\ t \in Targets /\ IsManaged(t) /\ v.state = seen[r]
  BY <1>1, SeenStates, ViewsOfStates, ReadinessInputs DEF Ordered, ViewOf
<1>3. v.state[t] # "error"
  BY <1>2 DEF Warm, WarmFor
<1>4. Deficits(t, Rivals(r)) = {} /\ Rivals(r) \in SUBSET Instances
  BY DEF FitsBeside, Rivals
<1>5. Peers(v, t) \in SUBSET Instances /\ Peers(v, t) \subseteq Rivals(r)
  BY <1>2 DEF Peers, Residents, IsActive, Rivals, On, InstanceFor
<1> HIDE DEF v, t
<1>6. Deficits(t, Peers(v, t)) = {}
  BY <1>2, <1>4, <1>5, DeficitsCovered
<1>7. PlanRequest(v, t, FALSE).ok
  BY <1>2, <1>3, <1>6, FitIsUnblocked
<1> QED BY <1>7 DEF PreviewFor, v, t

(* What is started, or stays up, still fits together.                      *)
LEMMA FewerFit ==
  ASSUME NEW S \in SUBSET Instances, NEW T \in SUBSET Instances, S \subseteq T, Fit(T)
  PROVE  Fit(S)
<1>1. SUFFICES ASSUME NEW p \in DOMAIN Room PROVE Used(p, S) <= Room[p]
  BY DEF Fit
<1>2. p \in Pools /\ Room[p] \in Int
  BY PlanInputs
<1>3. Used(p, S) <= Used(p, T) /\ Used(p, T) <= Room[p]
  BY <1>2, UsedCovered DEF Fit
<1>4. Used(p, S) \in Nat /\ Used(p, T) \in Nat
  BY <1>2, UsedFacts
<1> QED BY <1>2, <1>3, <1>4

LEMMA OneMoreFits ==
  ASSUME NEW t \in Targets, IsManaged(t), NEW S \in SUBSET Instances, Fit(S),
         NEW T \in SUBSET Instances, S \subseteq T, InstanceOf[t] \notin S, Deficits(t, T) = {}
  PROVE  Fit(S \cup {InstanceOf[t]})
<1> DEFINE i == InstanceOf[t]
<1>1. SUFFICES ASSUME NEW p \in DOMAIN Room PROVE Used(p, S \cup {i}) <= Room[p]
  BY DEF Fit
<1>2. p \in Pools /\ Room[p] \in Int /\ i \in Instances /\ Draw[i][p] \in Nat
  BY PlanInputs DEF Instances, IsManaged
<1>3. Used(p, S) <= Room[p] /\ Used(p, S) <= Used(p, T)
  BY <1>2, UsedCovered DEF Fit
<1>4. Used(p, S) \in Nat /\ Used(p, T) \in Nat
  BY <1>2, UsedFacts
<1>5. Draw[i][p] > 0 => Draw[i][p] <= Room[p] - Used(p, T)
  <2>1. Free(p, T) = Room[p] - Used(p, T)
    BY DEF Free
  <2>2. ~(Draw[i][p] > 0 /\ Draw[i][p] > Free(p, T))
    BY <1>2 DEF Deficits
  <2> QED BY <1>2, <1>4, <2>1, <2>2
<1>6. Used(p, S \cup {i}) = Draw[i][p] + Used(p, S)
  <2> DEFINE f == [j \in Instances |-> Draw[j][p]]
             U == S \cup {i}
  <2>1. \A j \in U : f[j] \in Nat
    BY <1>2, PlanInputs
  <2>2. IsFiniteSet(U) /\ i \in U /\ U \ {i} = S
    <3>1. U \in SUBSET Instances
      BY <1>2
    <3> QED BY <3>1, FiniteInstances, FS_Subset
  <2>3. f[i] = Draw[i][p]
    BY <1>2
  <2>4. SumFunctionOnSet(f, U) = f[i] + SumFunctionOnSet(f, U \ {i})
    <3> HIDE DEF f, U, i
    <3> QED BY <2>1, <2>2, SumRemove
  <2> QED BY <2>2, <2>3, <2>4 DEF Used
<1> HIDE DEF i
<1> QED BY <1>2, <1>3, <1>4, <1>5, <1>6

(* The steps of a request that leaves the lock: what it has started is up, *)
(* or it would not leave without an error.                                 *)
LEMMA LeavesGuarded ==
  ASSUME Ordered, Guarded, NEW r \in Requests, Leaves(r), Clean'
  PROVE  Guarded'
<1>1. /\ phase \in [Requests -> Phases] /\ outcome \in [Requests -> Outcomes]
      /\ inside \subseteq Requests
  BY PhaseTypes DEF Ordered
<1>2. /\ inside' = inside \ {r}
      /\ UNCHANGED <<engine, pending, answer, seen, mode, tried>>
      /\ \A q \in inside \ {r} : phase'[q] = phase[q]
  BY <1>1 DEF Leaves, engineVars, probeVars
<1>3. \A q \in inside' : /\ q \in inside \ {r} /\ phase'[q] = phase[q]
                         /\ Launched(q)' = Launched(q) /\ ToStart(q)' = ToStart(q)
                         /\ Rivals(q)' = Rivals(q)
  BY <1>2 DEF Launched, Occupied, ToStart, InstanceFor, Rivals, On
<1>4. Owned'
  <2>1. SUFFICES ASSUME NEW i \in Instances, Unseen(i)
                 PROVE  \E q \in inside' : /\ InstanceFor(q) = i /\ tried[q]
                                           /\ ~(phase'[q] = "preview" /\ seen[q][TargetFor[q]] = "ready")
    BY <1>2 DEF Owned, Unseen, Occupied, Settled, SeesReady, InstanceFor, On
  <2>2. PICK q \in inside : InstanceFor(q) = i /\ tried[q] /\ ~SeesReady(q)
    BY <2>1 DEF Guarded, Owned
  <2>3. CASE q # r
    BY <1>2, <2>2, <2>3 DEF SeesReady
  <2>4. CASE q = r
    <3>1. Launched(r)
      BY <2>1, <2>2, <2>4 DEF Unseen, Launched
    <3>2. PICK result \in Outcomes \ {"none"} :
            /\ outcome' = [outcome EXCEPT ![r] = result]
            /\ result = "ok" => /\ phase[r] = "preview"
                                /\ PreviewFor(r, seen[r]).ok
                                /\ Todo(r) = << >>
            /\ result = "blocked" =>
                 \/ phase[r] = "sleep" /\ mode[r] = "blocked"
                 \/ phase[r] = "preview" /\ ~PreviewFor(r, seen[r]).ok
      BY <2>2, <2>4 DEF Leaves
    <3>3. result \in {"ok", "blocked"}
      BY <1>1, <3>2 DEF Clean
    <3>4. CASE result = "ok"
      <4>1. \A t \in Targets : seen[r][t] # "awaited"
        BY <3>2, <3>4 DEF Leaves, ReadsAll
      <4>2. seen[r][TargetFor[r]] = "ready"
        BY <3>2, <3>4, <4>1, NothingToDo DEF Ordered
      <4> QED BY <2>2, <2>4, <3>2, <3>4, <4>2 DEF SeesReady
    <3>5. CASE result = "blocked"
      <4>1. mode[r] # "blocked"
        BY <2>2, <2>4, <3>1 DEF Guarded, Warm, WarmFor
      <4>2. phase[r] = "preview" /\ ~PreviewFor(r, seen[r]).ok
        BY <3>2, <3>5, <4>1
      <4>3. \A t \in Targets : seen[r][t] # "awaited"
        BY <4>2 DEF Leaves, ReadsAll
      <4> QED BY <2>2, <2>4, <3>1, <4>2, <4>3, LaunchedUnblocked DEF Guarded
    <3> QED BY <3>3, <3>4, <3>5
  <2> QED BY <2>3, <2>4
<1>5. Complete'
  BY <1>2, <1>3 DEF Guarded, Complete, CompleteFor, InstanceFor
<1>6. StartsCold'
  BY <1>2, <1>3 DEF Guarded, StartsCold, Cold, InstanceFor, On
<1>7. Warm'
  BY <1>2, <1>3 DEF Guarded, Warm, WarmFor, InstanceFor, On
<1>8. FitsBeside'
  BY <1>3 DEF Guarded, FitsBeside
<1>9. AllFit'
  BY <1>2 DEF Guarded, AllFit, Occupied
<1> QED BY <1>4, <1>5, <1>6, <1>7, <1>8, <1>9 DEF Guarded

(* A complete preview counts all the rivals on its pools as peers, unless  *)
(* the request has started its own engine.                                 *)
LEMMA RivalsArePeers ==
  ASSUME Ordered, Guarded, NEW r \in inside, phase[r] = "preview", ~tried[r],
         \A t \in Targets : seen[r][t] # "awaited",
         NEW i \in Rivals(r), SharePool(i, InstanceFor(r))
  PROVE  i \in Peers(ViewOf(seen[r]), TargetFor[r])
<1>1. i \in Instances /\ i # InstanceFor(r) /\ r \in Requests /\ inside \subseteq Requests
  BY PhaseTypes DEF Rivals, Ordered
<1>2. \A q \in inside : InstanceFor(q) # i
  <2>1. SUFFICES ASSUME NEW q \in inside, InstanceFor(q) = i PROVE FALSE
    OBVIOUS
  <2>2. q = r
    BY <2>1, PoolsApart DEF Ordered, SharePool
  <2> QED BY <1>1, <2>1, <2>2
<1>3. Occupied(i) => engine[i] = "ready"
  BY <1>1, <1>2 DEF Guarded, Owned, Unseen
<1>4. PICK t \in On(i) : engine[i] = "ready" \/ answer[t] = "ready" \/ seen[r][t] = "ready"
  BY <1>1, <1>3 DEF Rivals, On, Instances
<1>5. t \in Targets /\ InstanceOf[t] = i /\ t # TargetFor[r]
  BY <1>1, <1>4 DEF On, InstanceFor
<1>6. seen[r][t] = "ready"
  BY <1>1, <1>4, <1>5 DEF Guarded, Complete, CompleteFor
<1>7. t \in Residents(ViewOf(seen[r]), TargetFor[r], i)
  BY <1>5, <1>6 DEF Residents, IsActive, ViewOf
<1>8. \E p \in Pools : Draw[i][p] > 0
  BY PlanInputs DEF SharePool
<1> QED BY <1>1, <1>7, <1>8 DEF Peers, InstanceFor

(* The steps of a request that goes on under the lock: it starts what is   *)
(* down, and fits beside all that is up.                                   *)
LEMMA StaysGuarded ==
  ASSUME \A t \in Targets : ~LoadsModels(t), Ordered, Guarded, NEW r \in Requests, Stays(r)
  PROVE  Guarded'
<1>1. /\ phase \in [Requests -> Phases] /\ mode \in [Requests -> Modes]
      /\ tried \in [Requests -> BOOLEAN]
      /\ inside \subseteq Requests
  BY PhaseTypes DEF Ordered
<1>2. /\ inside' = inside /\ r \in inside /\ phase[r] = "preview"
      /\ UNCHANGED <<engine, pending, answer, seen>>
      /\ \A t \in Targets : seen[r][t] # "awaited"
  BY DEF Stays, engineVars, probeVars, ReadsAll
<1>3. \A q \in Requests \ {r} : /\ phase'[q] = phase[q] /\ mode'[q] = mode[q]
                                /\ tried'[q] = tried[q]
  BY <1>1 DEF Stays
<1>4. phase'[r] \in {"sleep", "asking", "starting"} /\ (tried[r] => tried'[r])
  BY <1>1 DEF Stays
<1>5. \A q \in inside \ {r} : /\ q \in Requests
                              /\ Launched(q)' = Launched(q) /\ ToStart(q)' = ToStart(q)
                              /\ Rivals(q)' = Rivals(q)
  <2>1. SUFFICES ASSUME NEW q \in inside \ {r}
                 PROVE  /\ q \in Requests
                        /\ Launched(q)' = Launched(q) /\ ToStart(q)' = ToStart(q)
                        /\ Rivals(q)' = Rivals(q)
    OBVIOUS
  <2>2. q \in Requests /\ phase'[q] = phase[q] /\ tried'[q] = tried[q]
    BY <1>1, <1>3
  <2>3. Launched(q)' = Launched(q)
    BY <1>2, <2>2 DEF Launched, Occupied, InstanceFor
  <2>4. ToStart(q)' = ToStart(q)
    BY <1>2, <2>2 DEF ToStart
  <2> QED BY <1>2, <2>2, <2>3, <2>4 DEF Rivals, Occupied, InstanceFor, On
<1>6. Owned'
  <2>1. SUFFICES ASSUME NEW i \in Instances, Unseen(i)
                 PROVE  \E q \in inside : /\ InstanceFor(q) = i /\ tried'[q]
                                          /\ ~(phase'[q] = "preview" /\ seen[q][TargetFor[q]] = "ready")
    BY <1>2 DEF Owned, Unseen, Occupied, Settled, SeesReady, InstanceFor, On
  <2>2. PICK q \in inside : InstanceFor(q) = i /\ tried[q] /\ ~SeesReady(q)
    BY <2>1 DEF Guarded, Owned
  <2>3. tried'[q] /\ ~(phase'[q] = "preview" /\ seen[q][TargetFor[q]] = "ready")
    <3>1. CASE q = r
      BY <1>4, <2>2, <3>1
    <3>2. CASE q # r
      BY <1>1, <1>3, <2>2, <3>2 DEF SeesReady
    <3> QED BY <3>1, <3>2
  <2> QED BY <2>2, <2>3
<1>7. Complete'
  <2>1. SUFFICES ASSUME NEW q \in inside, NEW t \in Targets, phase'[q] = "preview"
                 PROVE  CompleteFor(q, t)'
    BY <1>2 DEF Complete, CompleteFor
  <2>2. q # r
    BY <1>4, <2>1
  <2>3. CompleteFor(q, t)
    BY DEF Guarded, Complete
  <2>4. phase'[q] = phase[q] /\ tried'[q] = tried[q]
    BY <1>1, <1>3, <2>2
  <2> QED BY <1>2, <2>3, <2>4 DEF CompleteFor, InstanceFor
<1>8. CASE /\ phase' = [phase EXCEPT ![r] = "starting"]
           /\ Acts(r) /\ Head(Todo(r)).type = "start-instance"
           /\ ~tried[r] /\ tried' = [tried EXCEPT ![r] = TRUE]
           /\ UNCHANGED mode
  <2> DEFINE v == ViewOf(seen[r])
             t == TargetFor[r]
  <2>1. v \in Views /\ t \in Targets /\ IsManaged(t) /\ v.state = seen[r] /\ DOMAIN Room # {}
    BY <1>2, SeenStates, ViewsOfStates, ReadinessInputs DEF Ordered, ViewOf
  <2>2. Deficits(t, Peers(v, t)) = {} /\ v.state[t] \in {"stopped", "unknown", "unloaded"}
    <3>1. Todo(r) = ReadinessActions(PlanRequest(v, t, FALSE))
      BY DEF Todo, PreviewFor
    <3>2. Len(Todo(r)) # 0 /\ Head(Todo(r)).type = "start-instance"
      BY <1>8 DEF Acts
    <3> HIDE DEF v, t
    <3> QED BY <2>1, <3>1, <3>2, StartFits
  <2>3. v.state[t] \in {"stopped", "unknown"}
    BY <2>1, <2>2 DEF Ordered, UnloadsSeen, OnlyModelsUnload
  <2>4. Cold(InstanceFor(r))
    BY <1>2, <1>8, <2>1, <2>3 DEF Guarded, StartsCold, ToStart
  <2>5. Cold(InstanceFor(r))' /\ ~Occupied(InstanceFor(r))'
    BY <1>2, <2>4 DEF Cold, Occupied, InstanceFor, On
  <2>6. StartsCold'
    <3>1. SUFFICES ASSUME NEW q \in inside, ToStart(q)' PROVE Cold(InstanceFor(q))'
      BY <1>2 DEF StartsCold
    <3>2. CASE q = r
      BY <2>5, <3>2
    <3>3. CASE q # r
      <4>1. Cold(InstanceFor(q))
        BY <1>5, <3>1, <3>3 DEF Guarded, StartsCold
      <4> QED BY <1>2, <4>1 DEF Cold, InstanceFor, On
    <3> QED BY <3>2, <3>3
  <2>7. Warm'
    <3>1. SUFFICES ASSUME NEW q \in inside, Launched(q)' PROVE WarmFor(q)'
      BY <1>2 DEF Warm
    <3>2. q # r
      BY <2>5, <3>1 DEF Launched, InstanceFor
    <3>3. WarmFor(q) /\ phase'[q] = phase[q] /\ mode'[q] = mode[q]
      BY <1>3, <1>5, <3>1, <3>2 DEF Guarded, Warm
    <3> QED BY <1>2, <3>3 DEF WarmFor, InstanceFor, On
  <2>8. FitsBeside'
    <3>1. SUFFICES ASSUME NEW q \in inside, phase'[q] = "starting" \/ Launched(q)'
                   PROVE  Deficits(TargetFor[q], Rivals(q)') = {}
      BY <1>2 DEF FitsBeside
    <3>2. CASE q = r
      <4>1. Rivals(r)' \in SUBSET Instances /\ Peers(v, t) \in SUBSET Instances
        BY DEF Rivals, Peers
      <4>2. \A i \in Rivals(r)' : i \in Rivals(r)
        BY <1>2, <1>4 DEF Rivals, Occupied, InstanceFor, On
      <4>3. \A i \in Rivals(r)' : SharePool(i, InstanceFor(r)) => i \in Peers(v, t)
        BY <1>2, <1>8, <4>2, RivalsArePeers
      <4>4. Deficits(t, Rivals(r)') = {}
        <5> HIDE DEF v, Rivals
        <5> QED BY <2>1, <2>2, <4>1, <4>3, DeficitsCovered DEF InstanceFor
      <4> QED BY <3>2, <4>4
    <3>3. CASE q # r
      BY <1>3, <1>5, <3>1, <3>3 DEF Guarded, FitsBeside
    <3> QED BY <3>2, <3>3
  <2> QED BY <1>2, <1>6, <1>7, <2>6, <2>7, <2>8 DEF Guarded, AllFit, Occupied
<1>9. CASE /\ \E to \in {"sleep", "asking"} : phase' = [phase EXCEPT ![r] = to]
           /\ UNCHANGED tried
           /\ \/ UNCHANGED mode
              \/ mode' = [mode EXCEPT ![r] = "blocked"] /\ ~PreviewFor(r, seen[r]).ok
  <2>1. phase'[r] \in {"sleep", "asking"}
    BY <1>1, <1>9
  <2>2. StartsCold'
    <3>1. SUFFICES ASSUME NEW q \in inside, ToStart(q)' PROVE Cold(InstanceFor(q))'
      BY <1>2 DEF StartsCold
    <3>2. q # r
      BY <2>1, <3>1 DEF ToStart
    <3>3. Cold(InstanceFor(q))
      BY <1>5, <3>1, <3>2 DEF Guarded, StartsCold
    <3> QED BY <1>2, <3>3 DEF Cold, InstanceFor, On
  <2>3. Warm'
    <3>1. SUFFICES ASSUME NEW q \in inside, Launched(q)' PROVE WarmFor(q)'
      BY <1>2 DEF Warm
    <3>2. Launched(q)
      BY <1>2, <1>9, <3>1 DEF Launched, Occupied, InstanceFor
    <3>3. WarmFor(q)
      BY <3>2 DEF Guarded, Warm
    <3>4. CASE q # r
      <4>1. phase'[q] = phase[q] /\ mode'[q] = mode[q]
        BY <1>1, <1>3, <3>4
      <4> QED BY <1>2, <3>3, <4>1 DEF WarmFor, InstanceFor, On
    <3>5. CASE q = r
      <4>1. PreviewFor(r, seen[r]).ok
        BY <1>2, <3>2, <3>5, LaunchedUnblocked DEF Guarded
      <4>2. mode' = mode
        BY <1>9, <4>1
      <4> QED BY <1>2, <2>1, <3>3, <3>5, <4>2 DEF WarmFor, InstanceFor, On
    <3> QED BY <3>4, <3>5
  <2>4. FitsBeside'
    <3>1. SUFFICES ASSUME NEW q \in inside, phase'[q] = "starting" \/ Launched(q)'
                   PROVE  Deficits(TargetFor[q], Rivals(q)') = {}
      BY <1>2 DEF FitsBeside
    <3>2. CASE q = r
      <4>1. Launched(r)
        BY <1>2, <1>9, <2>1, <3>1, <3>2 DEF Launched, Occupied, InstanceFor
      <4>2. Deficits(TargetFor[r], Rivals(r)) = {}
        BY <1>2, <4>1 DEF Guarded, FitsBeside
      <4>3. \A i \in Rivals(r)' : i \in Rivals(r)
        BY <1>2, <1>4 DEF Rivals, Occupied, InstanceFor, On
      <4> QED BY <3>2, <4>2, <4>3, FewerRivals
    <3>3. CASE q # r
      BY <1>3, <1>5, <3>1, <3>3 DEF Guarded, FitsBeside
    <3> QED BY <3>2, <3>3
  <2> QED BY <1>2, <1>6, <1>7, <2>2, <2>3, <2>4 DEF Guarded, AllFit, Occupied
<1> QED BY <1>8, <1>9 DEF Stays

(* A probe begins with the status of now. *)
Joins(i) ==
  \/ pending'[i] = pending[i]
  \/ pending[i] = "none" /\ pending'[i] = RuntimeStatus(engine'[i])

LEMMA JoinedStatus ==
  ASSUME NEW i \in Instances, Joins(i)
  PROVE  /\ engine'[i] = "ready" /\ pending[i] \in {"none", "running"} =>
              pending'[i] \in {"none", "running"}
         /\ engine'[i] \in {"stopped", "stopping", "failed"}
              /\ pending[i] \in {"none", "stopped", "stopping"} =>
              pending'[i] \in {"none", "stopped", "stopping"}
<1>1. CASE engine'[i] = "ready"
  <2>1. RuntimeStatus(engine'[i]) = "running"
    BY <1>1 DEF RuntimeStatus
  <2> QED BY <1>1, <2>1 DEF Joins
<1>2. CASE engine'[i] \in {"stopped", "stopping", "failed"}
  <2>1. RuntimeStatus(engine'[i]) \in {"stopped", "stopping"}
    BY <1>2 DEF RuntimeStatus
  <2> QED BY <1>2, <2>1 DEF Joins
<1> QED BY <1>1, <1>2

(* What a step does to the engines if its request then looks again.        *)
LEMMA LooksAtEngines ==
  ASSUME Ordered, NEW r \in Requests, Looks(r)
  PROVE  \/ UNCHANGED engine
         \/ \E i \in Instances :
              /\ \A q \in inside \cup {r} : InstanceFor(q) # i
              /\ engine' = [engine EXCEPT ![i] = "stopping"]
         \/ /\ r \in inside /\ phase[r] = "starting" /\ tried[r]
            /\ engine' = [engine EXCEPT ![InstanceFor(r)] = "starting"]
<1>1. inside \subseteq Requests /\ engine \in [Instances -> EngineStates]
  BY PhaseTypes DEF Ordered
<1>2. CASE Acts(r) /\ StopInstance(r, Head(Todo(r)))
  <2> DEFINE j == InstanceOf[Head(Todo(r)).target]
  <2>1. /\ j \in Instances
        /\ j # InstanceFor(r)
        /\ SharePool(j, InstanceFor(r))
        /\ engine' = [engine EXCEPT ![j] = IF @ \in {"starting", "loading", "ready"}
                                          THEN "stopping" ELSE @]
    BY <1>2, StopsOthers DEF Ordered
  <2>2. r \in inside
    BY <1>2 DEF Acts, Ordered, LockHeld, Inner
  <2> HIDE DEF j
  <2>3. \A q \in inside \cup {r} : InstanceFor(q) # j
    <3>1. SUFFICES ASSUME NEW q \in inside, InstanceFor(q) = j PROVE FALSE
      BY <2>2
    <3>2. SharePool(InstanceFor(q), InstanceFor(r))
      BY <2>1, <3>1
    <3>3. q = r
      BY <2>2, <3>2, PoolsApart DEF Ordered
    <3> QED BY <2>1, <3>1, <3>3
  <2>4. engine' = [engine EXCEPT ![j] = "stopping"] \/ engine' = engine
    BY <1>1, <2>1
  <2> QED BY <2>1, <2>3, <2>4
<1>3. CASE /\ phase[r] = "starting"
           /\ engine' = [engine EXCEPT ![InstanceFor(r)] = "starting"]
  BY <1>3 DEF Ordered, LockHeld, Inner, TriedInside
<1> QED BY <1>2, <1>3 DEF Looks

(* What looking again does to the rest of the state. *)
LEMMA LooksAtRest ==
  ASSUME Ordered, Guarded, NEW r \in Requests, Looks(r)
  PROVE  /\ inside' = inside \cup {r} /\ inside \subseteq Requests
         /\ UNCHANGED <<answer, tried, outcome>>
         /\ phase'[r] = "preview"
         /\ \A t \in Targets : seen'[r][t] = "awaited"
         /\ \A q \in Requests \ {r} : /\ phase'[q] = phase[q] /\ mode'[q] = mode[q]
                                      /\ seen'[q] = seen[q]
         /\ \A i \in Instances : Joins(i)
         /\ tried[r] => r \in inside
         /\ Launched(r) \/ phase[r] = "starting" => mode'[r] # "blocked"
<1>1. /\ phase \in [Requests -> Phases] /\ mode \in [Requests -> Modes]
      /\ seen \in [Requests -> [Targets -> States \cup {"awaited"}]]
      /\ inside \subseteq Requests
  BY PhaseTypes DEF Ordered
<1>2. PICK m \in Modes \ {"initial"} :
        /\ AwaitPreview(r, m, engine')
        /\ m = "blocked" => mode[r] = "blocked" /\ phase[r] = "sleep"
  BY DEF Looks
<1>3. /\ phase' = [phase EXCEPT ![r] = "preview"]
      /\ mode' = [mode EXCEPT ![r] = m]
      /\ seen' = [seen EXCEPT ![r] = [t \in Targets |-> "awaited"]]
      /\ pending' = PendingAfterProbes(engine')
      /\ UNCHANGED answer
  BY <1>2 DEF AwaitPreview
<1>4. tried[r] => r \in inside
  BY DEF Looks, Ordered, TriedInside, LockHeld
<1>5. Launched(r) \/ phase[r] = "starting" => mode'[r] # "blocked"
  <2>1. Launched(r) => mode[r] # "blocked"
    BY <1>4 DEF Launched, Guarded, Warm, WarmFor
  <2> QED BY <1>1, <1>2, <1>3, <2>1
<1>6. \A i \in Instances : Joins(i)
  BY <1>3 DEF PendingAfterProbes, Joins
<1>7. \A t \in Targets : seen'[r][t] = "awaited"
  BY <1>1, <1>3
<1>8. phase'[r] = "preview"
      /\ \A q \in Requests \ {r} : /\ phase'[q] = phase[q] /\ mode'[q] = mode[q]
                                   /\ seen'[q] = seen[q]
  BY <1>1, <1>3
<1> QED BY <1>1, <1>3, <1>4, <1>5, <1>6, <1>7, <1>8 DEF Looks

(* The steps of a request that looks again.                                *)
LEMMA LooksGuarded ==
  ASSUME Ordered, Guarded, NEW r \in Requests, Looks(r)
  PROVE  Guarded'
<1> DEFINE own == InstanceFor(r)
           Starts == /\ r \in inside /\ phase[r] = "starting" /\ tried[r]
                     /\ engine' = [engine EXCEPT ![own] = "starting"]
<1>1. /\ inside' = inside \cup {r} /\ inside \subseteq Requests
      /\ UNCHANGED <<answer, tried, outcome>>
      /\ phase'[r] = "preview"
      /\ \A t \in Targets : seen'[r][t] = "awaited"
      /\ \A q \in Requests \ {r} : /\ phase'[q] = phase[q] /\ mode'[q] = mode[q]
                                   /\ seen'[q] = seen[q]
      /\ \A i \in Instances : Joins(i)
      /\ tried[r] => r \in inside
      /\ Launched(r) \/ phase[r] = "starting" => mode'[r] # "blocked"
  BY LooksAtRest
<1>2. \A q \in Requests : TargetFor[q] \in Targets /\ InstanceFor(q) \in Instances
  BY InstancesOf
<1>3. engine \in [Instances -> EngineStates]
  BY PhaseTypes DEF Ordered
(* The engines: at most one changes, and at most r's own goes up. *)
<1>4. /\ \A i \in Instances : engine'[i] = "ready" => engine[i] = "ready"
      /\ \A i \in Instances : Occupied(i)' => Occupied(i) \/ (Starts /\ i = own)
      /\ \A q \in inside : q # r => engine'[InstanceFor(q)] = engine[InstanceFor(q)]
      /\ engine'[own] = engine[own] \/ Starts
      /\ \A i \in Instances : engine'[i] = engine[i] \/ engine'[i] = "stopping" \/ (Starts /\ i = own)
  <2>1. CASE UNCHANGED engine
    BY <2>1 DEF Occupied
  <2>2. ASSUME NEW i \in Instances,
               \A q \in inside \cup {r} : InstanceFor(q) # i,
               engine' = [engine EXCEPT ![i] = "stopping"]
        PROVE  /\ \A j \in Instances : engine'[j] = "ready" => engine[j] = "ready"
               /\ \A j \in Instances : Occupied(j)' => Occupied(j)
               /\ \A q \in inside \cup {r} : engine'[InstanceFor(q)] = engine[InstanceFor(q)]
               /\ \A j \in Instances : engine'[j] = engine[j] \/ engine'[j] = "stopping"
    BY <1>1, <1>2, <1>3, <2>2 DEF Occupied
  <2>3. CASE Starts
    <3>1. \A q \in inside : q # r => InstanceFor(q) # own
      BY <1>1, <2>3, OneForEach DEF Ordered
    <3> QED BY <1>1, <1>2, <1>3, <2>3, <3>1 DEF Occupied
  <2>4. \/ UNCHANGED engine
        \/ \E i \in Instances :
              /\ \A q \in inside \cup {r} : InstanceFor(q) # i
              /\ engine' = [engine EXCEPT ![i] = "stopping"]
        \/ Starts
    BY LooksAtEngines
  <2> HIDE DEF own, Starts
  <2>5. CASE \E i \in Instances :
              /\ \A q \in inside \cup {r} : InstanceFor(q) # i
              /\ engine' = [engine EXCEPT ![i] = "stopping"]
    BY <1>1, <2>2, <2>5 DEF own
  <2> QED BY <2>1, <2>3, <2>4, <2>5
<1>5. Starts => Cold(own) /\ Deficits(TargetFor[r], Rivals(r)) = {}
  BY DEF Guarded, StartsCold, ToStart, FitsBeside
<1> HIDE DEF Starts
<1>6. \A q \in inside \ {r} : Launched(q)' = Launched(q) /\ ToStart(q)' = ToStart(q)
  <2>1. SUFFICES ASSUME NEW q \in inside \ {r}
                 PROVE  Launched(q)' = Launched(q) /\ ToStart(q)' = ToStart(q)
    OBVIOUS
  <2>2. /\ engine'[InstanceFor(q)] = engine[InstanceFor(q)]
        /\ phase'[q] = phase[q] /\ seen'[q] = seen[q]
    BY <1>1, <1>4
  <2>3. Launched(q)' = Launched(q)
    BY <1>1, <2>2 DEF Launched, Occupied, InstanceFor
  <2> QED BY <1>1, <2>2, <2>3 DEF ToStart
<1>7. Owned'
  <2>1. SUFFICES ASSUME NEW i \in Instances, Unseen(i)'
                 PROVE  \E q \in inside' : /\ InstanceFor(q) = i /\ tried'[q]
                                           /\ ~(phase'[q] = "preview" /\ seen'[q][TargetFor[q]] = "ready")
    BY DEF Owned, SeesReady, InstanceFor
  <2>2. CASE Starts /\ i = own
    BY <1>1, <1>2, <2>2 DEF Starts
  <2>3. CASE ~(Starts /\ i = own)
    <3>1. Occupied(i) /\ engine'[i] = engine[i]
      BY <1>4, <2>1, <2>3 DEF Unseen, Occupied
    <3>2. Unseen(i)
      <4>1. CASE engine[i] # "ready"
        BY <3>1, <4>1 DEF Unseen
      <4>2. CASE engine[i] = "ready"
        <5>1. ~Settled(i)'
          BY <2>1, <3>1, <4>2 DEF Unseen
        <5>2. Settled(i) => Settled(i)'
          BY <1>1, <3>1, <4>2, JoinedStatus DEF Settled, On
        <5> QED BY <3>1, <5>1, <5>2 DEF Unseen
      <4> QED BY <4>1, <4>2
    <3>3. PICK q \in inside : InstanceFor(q) = i /\ tried[q] /\ ~SeesReady(q)
      BY <3>2 DEF Guarded, Owned
    <3>4. CASE q = r
      BY <1>1, <1>2, <3>3, <3>4
    <3>5. CASE q # r
      BY <1>1, <3>3, <3>5 DEF SeesReady
    <3> QED BY <3>4, <3>5
  <2> QED BY <2>2, <2>3
<1>8. Complete'
  <2>1. SUFFICES ASSUME NEW q \in inside', NEW t \in Targets, seen'[q][t] # "awaited"
                 PROVE  CompleteFor(q, t)'
    BY DEF Complete, CompleteFor
  <2>2. q \in inside /\ q # r
    BY <1>1, <2>1
  <2>3. CompleteFor(q, t) /\ phase'[q] = phase[q] /\ seen'[q] = seen[q]
    BY <1>1, <2>2 DEF Guarded, Complete
  <2>4. engine'[InstanceOf[t]] = "ready" => engine[InstanceOf[t]] = "ready"
    BY <1>4, InstancesOf
  <2> QED BY <1>1, <2>3, <2>4 DEF CompleteFor, InstanceFor
<1>9. StartsCold'
  <2>1. SUFFICES ASSUME NEW q \in inside', ToStart(q)' PROVE Cold(InstanceFor(q))'
    BY DEF StartsCold
  <2>2. q \in inside /\ q # r
    BY <1>1, <1>2, <2>1 DEF ToStart
  <2>3. Cold(InstanceFor(q)) /\ engine'[InstanceFor(q)] = engine[InstanceFor(q)]
    BY <1>4, <1>6, <2>1, <2>2 DEF Guarded, StartsCold
  <2>4. InstanceFor(q) \in Instances /\ Joins(InstanceFor(q))
    BY <1>1, <1>2, <2>2
  <2>5. pending'[InstanceFor(q)] \in {"none", "stopped", "stopping"}
    BY <2>3, <2>4, JoinedStatus DEF Cold
  <2> QED BY <1>1, <2>3, <2>5 DEF Cold, On, InstanceFor
<1>10. Warm'
  <2>1. SUFFICES ASSUME NEW q \in inside', Launched(q)' PROVE WarmFor(q)'
    BY DEF Warm
  <2>2. CASE q # r
    <3>1. q \in inside /\ WarmFor(q) /\ engine'[InstanceFor(q)] = engine[InstanceFor(q)]
      BY <1>1, <1>4, <1>6, <2>1, <2>2 DEF Guarded, Warm
    <3>2. phase'[q] = phase[q] /\ mode'[q] = mode[q] /\ seen'[q] = seen[q]
      BY <1>1, <2>2, <3>1
    <3> QED BY <1>1, <3>1, <3>2 DEF WarmFor, On, InstanceFor
  <2>3. CASE q = r /\ Starts
    <3>1. mode'[r] # "blocked" /\ Cold(own)
      BY <1>1, <1>5, <2>3 DEF Starts
    <3>2. \A t \in On(own) : answer'[t] \notin {"error", "ready"}
      BY <1>1, <3>1 DEF Cold
    <3> QED BY <1>1, <1>2, <2>3, <3>1, <3>2 DEF WarmFor, On, InstanceFor
  <2>4. CASE q = r /\ ~Starts
    <3>1. engine'[own] = engine[own]
      BY <1>4, <2>4
    <3>2. Launched(r) /\ r \in inside
      BY <1>1, <2>1, <2>4, <3>1 DEF Launched, Occupied, InstanceFor
    <3>3. WarmFor(r) /\ mode'[r] # "blocked"
      BY <1>1, <3>2 DEF Guarded, Warm
    <3>4. seen'[r][TargetFor[r]] # "error" /\ phase'[r] # "starting"
      BY <1>1, <1>2
    <3> QED BY <1>1, <2>4, <3>1, <3>3, <3>4 DEF WarmFor, On, InstanceFor
  <2> QED BY <2>2, <2>3, <2>4
<1>11. FitsBeside'
  <2>1. SUFFICES ASSUME NEW q \in inside', phase'[q] = "starting" \/ Launched(q)'
                 PROVE  Deficits(TargetFor[q], Rivals(q)') = {}
    BY DEF FitsBeside
  <2>2. q \in Requests
    BY <1>1
  <2>3. Deficits(TargetFor[q], Rivals(q)) = {}
    <3>1. CASE q # r
      <4>1. q \in inside /\ (phase[q] = "starting" \/ Launched(q))
        BY <1>1, <1>6, <2>1, <3>1
      <4> QED BY <4>1 DEF Guarded, FitsBeside
    <3>2. CASE q = r /\ Starts
      BY <1>5, <3>2
    <3>3. CASE q = r /\ ~Starts
      <4>1. engine'[own] = engine[own] /\ phase'[r] # "starting"
        BY <1>1, <1>4, <3>3
      <4>2. Launched(r) /\ r \in inside
        BY <1>1, <2>1, <3>3, <4>1 DEF Launched, Occupied, InstanceFor
      <4> QED BY <3>3, <4>2 DEF Guarded, FitsBeside
    <3> QED BY <3>1, <3>2, <3>3
  <2>4. ASSUME NEW i \in Rivals(q)', SharePool(i, InstanceFor(q))
        PROVE  i \in Rivals(q)
    <3>1. i \in Instances /\ i # InstanceFor(q)
      BY DEF Rivals, InstanceFor
    <3>2. CASE Occupied(i)'
      <4>1. Occupied(i)
        <5>1. SUFFICES ASSUME Starts, i = own PROVE FALSE
          BY <1>4, <3>1, <3>2
        <5>2. q \in inside /\ r \in inside /\ SharePool(InstanceFor(r), InstanceFor(q))
          BY <1>1, <2>4, <5>1 DEF Starts
        <5>3. q = r
          BY <5>2, PoolsApart DEF Ordered
        <5> QED BY <3>1, <5>1, <5>3
      <4> QED BY <3>1, <4>1 DEF Rivals
    <3>3. CASE \E t \in On(i) : answer'[t] = "ready"
      BY <1>1, <3>1, <3>3 DEF Rivals
    <3>4. ASSUME NEW t \in On(i), phase'[q] = "preview", seen'[q][t] = "ready"
          PROVE  i \in Rivals(q)
      <4>1. t \in Targets
        BY DEF On
      <4>2. q # r
        BY <1>1, <3>4, <4>1
      <4>3. phase[q] = "preview" /\ seen[q][t] = "ready"
        BY <1>1, <2>2, <3>4, <4>2
      <4> QED BY <3>1, <4>3 DEF Rivals
    <3>5. Occupied(i)' \/ \E t \in On(i) : \/ answer'[t] = "ready"
                                           \/ phase'[q] = "preview" /\ seen'[q][t] = "ready"
      BY DEF Rivals, On
    <3> QED BY <3>2, <3>3, <3>4, <3>5
  <2> QED BY <2>2, <2>3, <2>4, FewerRivals
<1>12. AllFit'
  <2> DEFINE up == {i \in Instances : Occupied(i)}
             upNext == {i \in Instances : Occupied(i)'}
  <2>1. Fit(up) /\ up \in SUBSET Instances /\ upNext \in SUBSET Instances
    BY DEF Guarded, AllFit
  <2>2. CASE ~Starts
    <3>1. upNext \subseteq up
      BY <1>4, <2>2
    <3>2. Fit(upNext)
      <4> HIDE DEF up, upNext
      <4> QED BY <2>1, <3>1, FewerFit
    <3> QED BY <3>2 DEF AllFit
  <2>3. CASE Starts
    <3>1. upNext \subseteq up \cup {own} /\ own \notin up /\ up \subseteq Rivals(r)
      BY <1>2, <1>4, <1>5, <2>3 DEF Cold, Occupied, Rivals
    <3>2. /\ TargetFor[r] \in Targets /\ IsManaged(TargetFor[r]) /\ own = InstanceOf[TargetFor[r]]
          /\ Rivals(r) \in SUBSET Instances /\ up \cup {own} \in SUBSET Instances
      BY <1>2, ReadinessInputs DEF Rivals, InstanceFor
    <3>3. Deficits(TargetFor[r], Rivals(r)) = {}
      BY <1>5, <2>3
    <3>4. Fit(up \cup {own})
      <4> HIDE DEF up, own, Rivals
      <4> QED BY <2>1, <3>1, <3>2, <3>3, OneMoreFits
    <3>5. Fit(upNext)
      <4> HIDE DEF up, upNext, own
      <4> QED BY <2>1, <3>1, <3>2, <3>4, FewerFit
    <3> QED BY <3>5 DEF AllFit
  <2> QED BY <2>2, <2>3
<1> QED BY <1>7, <1>8, <1>9, <1>10, <1>11, <1>12 DEF Guarded

(* The steps of the probes. *)
LEMMA AnsweredGuarded ==
  ASSUME \A t \in Targets : ~LoadsModels(t), Ordered, Guarded,
         NEW i \in Instances, ProbeAnswered(i)
  PROVE  Guarded'
<1>1. /\ inside \subseteq Requests
      /\ UNCHANGED <<engine, pending, inside, phase, mode, seen, tried>>
      /\ pending[i] # "none"
      /\ pending[i] \in ProcessStatuses \ {"none"} /\ engine[i] \in EngineStates
  BY PhaseTypes DEF ProbeAnswered, Ordered, engineVars, requestVars
<1>2. /\ \A t \in Targets \ On(i) : answer'[t] = answer[t]
      /\ \A t \in On(i) : answer'[t] \in StatesRead(t, pending[i], engine[i])
  BY DEF ProbeAnswered, On
<1>3. \A t \in On(i) :
        /\ pending[i] = "running" /\ engine[i] = "ready" => answer'[t] = "ready"
        /\ pending[i] \in {"stopped", "stopping"} => answer'[t] \in {"stopped", "unknown"}
        /\ answer'[t] = "error" => engine[i] = "failed"
        /\ answer'[t] = "ready" => engine[i] = "ready"
  <2>1. SUFFICES ASSUME NEW t \in On(i)
                 PROVE  /\ pending[i] = "running" /\ engine[i] = "ready" => answer'[t] = "ready"
                        /\ pending[i] \in {"stopped", "stopping"} =>
                             answer'[t] \in {"stopped", "unknown"}
                        /\ answer'[t] = "error" => engine[i] = "failed"
                        /\ answer'[t] = "ready" => engine[i] = "ready"
    OBVIOUS
  <2>2. t \in Targets /\ ~LoadsModels(t)
    BY DEF On
  <2> QED BY <1>1, <1>2, <2>2, PlainReads
<1>4. \A j \in Instances : j # i => On(j) \cap On(i) = {} /\ \A t \in On(j) : answer'[t] = answer[t]
  BY <1>2 DEF On
<1>5. \A t \in Targets : answer'[t] = "ready" => answer[t] = "ready" \/ engine[InstanceOf[t]] = "ready"
  BY <1>2, <1>3 DEF On
<1>6. Owned'
  <2>1. \A j \in Instances : Unseen(j)' => Unseen(j)
    <3>1. SUFFICES ASSUME NEW j \in Instances, Unseen(j)', ~Unseen(j) PROVE FALSE
      OBVIOUS
    <3>2. Occupied(j) /\ engine[j] = "ready" /\ Settled(j) /\ ~Settled(j)'
      BY <1>1, <3>1 DEF Unseen, Occupied
    <3>3. j = i
      BY <1>1, <1>4, <3>2 DEF Settled, On
    <3>4. pending[i] = "running"
      BY <1>1, <3>2, <3>3 DEF Settled
    <3> QED BY <1>1, <1>3, <3>2, <3>3, <3>4 DEF Settled, On
  <2> QED BY <1>1, <2>1 DEF Guarded, Owned, SeesReady, InstanceFor
<1>7. Complete'
  BY <1>1, <1>5 DEF Guarded, Complete, CompleteFor, InstanceFor
<1>8. StartsCold'
  <2>1. SUFFICES ASSUME NEW q \in inside, ToStart(q) PROVE Cold(InstanceFor(q))'
    BY <1>1 DEF StartsCold, ToStart
  <2>2. Cold(InstanceFor(q)) /\ InstanceFor(q) \in Instances
    BY <1>1, <2>1, InstancesOf DEF Guarded, StartsCold
  <2>3. CASE InstanceFor(q) = i
    <3>1. \A t \in On(i) : answer'[t] \in {"stopped", "unknown"}
      BY <1>1, <1>3, <2>2, <2>3 DEF Cold
    <3> QED BY <1>1, <2>2, <2>3, <3>1 DEF Cold, On, InstanceFor
  <2>4. CASE InstanceFor(q) # i
    BY <1>1, <1>4, <2>2, <2>4 DEF Cold, On, InstanceFor
  <2> QED BY <2>3, <2>4
<1>9. Warm'
  <2>1. SUFFICES ASSUME NEW q \in inside, Launched(q) PROVE WarmFor(q)'
    BY <1>1 DEF Warm, Launched, Occupied, InstanceFor
  <2>2. WarmFor(q) /\ InstanceFor(q) \in Instances
    BY <1>1, <2>1, InstancesOf DEF Guarded, Warm
  <2>3. CASE InstanceFor(q) = i
    <3>1. \A t \in On(i) : answer'[t] # "error" /\ (answer'[t] = "ready" => engine[i] = "ready")
      BY <1>3, <2>1, <2>3 DEF Launched, Occupied
    <3> QED BY <1>1, <2>2, <2>3, <3>1 DEF WarmFor, On, InstanceFor
  <2>4. CASE InstanceFor(q) # i
    BY <1>1, <1>4, <2>2, <2>4 DEF WarmFor, On, InstanceFor
  <2> QED BY <2>3, <2>4
<1>10. FitsBeside'
  <2>1. SUFFICES ASSUME NEW q \in inside, phase[q] = "starting" \/ Launched(q)
                 PROVE  Deficits(TargetFor[q], Rivals(q)') = {}
    BY <1>1 DEF FitsBeside, Launched, Occupied, InstanceFor
  <2>2. q \in Requests /\ Deficits(TargetFor[q], Rivals(q)) = {}
    BY <1>1, <2>1 DEF Guarded, FitsBeside
  <2>3. \A j \in Rivals(q)' : j \in Rivals(q)
    BY <1>1, <1>5 DEF Rivals, Occupied, On, InstanceFor
  <2> QED BY <2>2, <2>3, FewerRivals
<1>11. AllFit'
  BY <1>1 DEF Guarded, AllFit, Occupied
<1> QED BY <1>6, <1>7, <1>8, <1>9, <1>10, <1>11 DEF Guarded

LEMMA DoneGuarded ==
  ASSUME Ordered, Guarded, NEW i \in Instances, ProbeDone(i)
  PROVE  Guarded'
<1>1. /\ inside \subseteq Requests
      /\ UNCHANGED <<engine, inside, phase, mode, tried>>
      /\ pending' = [pending EXCEPT ![i] = "none"]
      /\ pending \in [Instances -> ProcessStatuses]
      /\ \A t \in On(i) : answer[t] # "awaited"
  BY PhaseTypes DEF ProbeDone, Ordered, engineVars
<1>2. \A t \in Targets : answer'[t] = IF t \in On(i) THEN "awaited" ELSE answer[t]
  BY DEF ProbeDone
<1>3. \A q \in Requests : \A t \in Targets :
        seen'[q][t] = IF t \in On(i) /\ phase[q] = "preview" /\ seen[q][t] = "awaited"
                      THEN answer[t] ELSE seen[q][t]
  BY DEF ProbeDone
<1>4. \A q \in Requests : TargetFor[q] \in Targets /\ InstanceFor(q) \in Instances
  BY InstancesOf
<1>5. \A j \in Instances : \A t \in On(j) : t \in Targets /\ InstanceOf[t] = j /\ (j # i => t \notin On(i))
  BY DEF On
(* An engine that is up, and that nobody else inside has started, is read ready. *)
<1>6. ASSUME NEW q \in inside, Occupied(i), SharePool(i, InstanceFor(q)),
             ~(InstanceFor(q) = i /\ tried[q])
      PROVE  \A t \in On(i) : answer[t] = "ready"
  <2>1. ~Unseen(i)
    <3>1. SUFFICES ASSUME Unseen(i) PROVE FALSE
      OBVIOUS
    <3>2. PICK k \in inside : InstanceFor(k) = i /\ tried[k]
      BY <3>1 DEF Guarded, Owned
    <3>3. k = q
      BY <1>6, <3>2, PoolsApart DEF Ordered, SharePool
    <3> QED BY <1>6, <3>2, <3>3
  <2> QED BY <1>1, <1>6, <2>1 DEF Unseen, Settled
<1>7. Owned'
  <2>1. SUFFICES ASSUME NEW j \in Instances, Unseen(j)'
                 PROVE  \E q \in inside : /\ InstanceFor(q) = j /\ tried[q]
                                          /\ ~(phase[q] = "preview" /\ seen'[q][TargetFor[q]] = "ready")
    BY <1>1 DEF Owned, SeesReady, InstanceFor
  <2>2. Unseen(j) /\ (j = i => engine[i] # "ready")
    <3>1. CASE j = i
      <4>1. Settled(i)'
        BY <1>1, <1>2, <1>5 DEF Settled, On
      <4> QED BY <1>1, <2>1, <3>1, <4>1 DEF Unseen, Occupied
    <3>2. CASE j # i
      <4>1. Settled(j) => Settled(j)'
        BY <1>1, <1>2, <1>5, <3>2 DEF Settled, On
      <4> QED BY <1>1, <2>1, <3>2, <4>1 DEF Unseen, Occupied
    <3> QED BY <3>1, <3>2
  <2>3. PICK q \in inside : InstanceFor(q) = j /\ tried[q] /\ ~SeesReady(q)
    BY <2>2 DEF Guarded, Owned
  <2>4. SUFFICES ASSUME phase[q] = "preview", seen'[q][TargetFor[q]] = "ready" PROVE FALSE
    BY <2>3
  <2>5. TargetFor[q] \in On(i) /\ answer[TargetFor[q]] = "ready"
    BY <1>1, <1>3, <1>4, <2>3, <2>4 DEF SeesReady
  <2>6. j = i
    BY <2>3, <2>5 DEF On, InstanceFor
  <2>7. Launched(q)
    BY <2>2, <2>3 DEF Launched, Unseen
  <2>8. engine[i] = "ready"
    BY <2>3, <2>5, <2>6, <2>7 DEF Guarded, Warm, WarmFor
  <2> QED BY <2>2, <2>6, <2>8
<1>8. Complete'
  <2>1. SUFFICES ASSUME NEW q \in inside, NEW t \in Targets, seen'[q][t] # "awaited",
                        phase[q] = "preview",
                        SharePool(InstanceOf[t], InstanceFor(q)),
                        InstanceOf[t] # InstanceFor(q) \/ ~tried[q],
                        engine[InstanceOf[t]] = "ready" \/ answer'[t] = "ready"
                 PROVE  seen'[q][t] = "ready"
    BY <1>1 DEF Complete, CompleteFor, InstanceFor
  <2>2. q \in Requests
    BY <1>1
  <2>3. CASE seen[q][t] = "awaited"
    <3>1. t \in On(i) /\ seen'[q][t] = answer[t]
      BY <1>3, <2>1, <2>2, <2>3
    <3>2. answer'[t] = "awaited" /\ InstanceOf[t] = i
      BY <1>2, <3>1 DEF On
    <3>3. Occupied(i)
      BY <2>1, <3>2 DEF Occupied
    <3> QED BY <1>6, <2>1, <3>1, <3>2, <3>3
  <2>4. CASE seen[q][t] # "awaited"
    <3>1. seen'[q][t] = seen[q][t] /\ (answer'[t] = "ready" => answer[t] = "ready")
      BY <1>2, <1>3, <2>2, <2>4
    <3> QED BY <2>1, <2>4, <3>1 DEF Guarded, Complete, CompleteFor
  <2> QED BY <2>3, <2>4
<1>9. StartsCold'
  <2>1. SUFFICES ASSUME NEW q \in inside, ToStart(q)' PROVE Cold(InstanceFor(q))'
    BY <1>1 DEF StartsCold
  <2>2. q \in Requests /\ TargetFor[q] \in Targets /\ InstanceFor(q) \in Instances
    BY <1>1, <1>4
  <2>3. CASE ToStart(q)
    <3>1. Cold(InstanceFor(q))
      BY <2>3 DEF Guarded, StartsCold
    <3> QED BY <1>1, <1>2, <2>2, <3>1 DEF Cold, On, InstanceFor
  <2>4. CASE ~ToStart(q)
    <3>1. /\ phase[q] = "preview" /\ ~tried[q]
          /\ TargetFor[q] \in On(i) /\ answer[TargetFor[q]] \in {"stopped", "unknown"}
      BY <1>1, <1>3, <2>1, <2>2, <2>4 DEF ToStart
    <3>2. InstanceFor(q) = i
      BY <3>1 DEF On, InstanceFor
    <3>3. SharePool(i, InstanceFor(q))
      BY <2>2, <3>2, ReadinessInputs DEF SharePool, InstanceFor
    <3>4. ~Occupied(i)
      BY <1>6, <3>1, <3>3
    <3>5. engine[i] \in {"stopped", "stopping", "failed"}
      <4>1. engine[i] \in EngineStates
        BY PhaseTypes DEF Ordered
      <4> QED BY <3>4, <4>1 DEF Occupied, EngineStates
    <3>6. \A t \in On(i) : answer'[t] = "awaited"
      BY <1>2 DEF On
    <3> QED BY <1>1, <3>2, <3>5, <3>6 DEF Cold, On, InstanceFor
  <2> QED BY <2>3, <2>4
<1>10. Warm'
  <2>1. SUFFICES ASSUME NEW q \in inside, Launched(q) PROVE WarmFor(q)'
    BY <1>1 DEF Warm, Launched, Occupied, InstanceFor
  <2>2. WarmFor(q) /\ q \in Requests /\ TargetFor[q] \in Targets
    BY <1>1, <1>4, <2>1 DEF Guarded, Warm
  <2>3. phase[q] = "preview" => seen'[q][TargetFor[q]] # "error"
    <3>1. TargetFor[q] \in On(InstanceFor(q))
      BY <2>2 DEF On, InstanceFor
    <3> QED BY <1>3, <2>2, <3>1 DEF WarmFor
  <2>4. \A t \in On(InstanceFor(q)) : answer'[t] = answer[t] \/ answer'[t] = "awaited"
    BY <1>2 DEF On
  <2> QED BY <1>1, <2>2, <2>3, <2>4 DEF WarmFor, On, InstanceFor
<1>11. FitsBeside'
  <2>1. SUFFICES ASSUME NEW q \in inside, phase[q] = "starting" \/ Launched(q)
                 PROVE  Deficits(TargetFor[q], Rivals(q)') = {}
    BY <1>1 DEF FitsBeside, Launched, Occupied, InstanceFor
  <2>2. q \in Requests /\ Deficits(TargetFor[q], Rivals(q)) = {}
    BY <1>1, <2>1 DEF Guarded, FitsBeside
  <2>3. \A t \in Targets : /\ answer'[t] = "ready" => answer[t] = "ready"
                           /\ seen'[q][t] = "ready" => seen[q][t] = "ready" \/ answer[t] = "ready"
    BY <1>2, <1>3, <2>2
  <2>4. \A j \in Rivals(q)' : j \in Rivals(q)
    BY <1>1, <2>3 DEF Rivals, Occupied, On, InstanceFor
  <2> QED BY <2>2, <2>4, FewerRivals
<1>12. AllFit'
  BY <1>1 DEF Guarded, AllFit, Occupied
<1> QED BY <1>7, <1>8, <1>9, <1>10, <1>11, <1>12 DEF Guarded

LEMMA ReconcileGuarded ==
  ASSUME Ordered, Guarded, NEW i \in Instances, Reconcile(i)
  PROVE  Guarded'
<1>1. /\ inside \subseteq Requests /\ pending \in [Instances -> ProcessStatuses]
      /\ UNCHANGED <<engine, answer, inside, phase, mode, seen, tried>>
      /\ \A j \in Instances : Joins(j)
  <2>1. pending \in [Instances -> ProcessStatuses] /\ inside \subseteq Requests
    BY PhaseTypes DEF Ordered
  <2> QED BY <2>1 DEF Reconcile, engineVars, requestVars, Joins
<1>2. Owned'
  <2>1. \A j \in Instances : Unseen(j)' => Unseen(j)
    <3>1. SUFFICES ASSUME NEW j \in Instances, Unseen(j)', ~Unseen(j) PROVE FALSE
      OBVIOUS
    <3>2. Occupied(j) /\ engine[j] = "ready" /\ Settled(j) /\ ~Settled(j)'
      BY <1>1, <3>1 DEF Unseen, Occupied
    <3> QED BY <1>1, <3>2, JoinedStatus DEF Settled, On
  <2> QED BY <1>1, <2>1 DEF Guarded, Owned, SeesReady, InstanceFor
<1>3. Complete'
  BY <1>1 DEF Guarded, Complete, CompleteFor, InstanceFor
<1>4. StartsCold'
  <2>1. SUFFICES ASSUME NEW q \in inside, ToStart(q) PROVE Cold(InstanceFor(q))'
    BY <1>1 DEF StartsCold, ToStart
  <2>2. Cold(InstanceFor(q)) /\ InstanceFor(q) \in Instances
    BY <1>1, <2>1, InstancesOf DEF Guarded, StartsCold
  <2>3. pending'[InstanceFor(q)] \in {"none", "stopped", "stopping"}
    BY <1>1, <2>2, JoinedStatus DEF Cold
  <2> QED BY <1>1, <2>2, <2>3 DEF Cold, On, InstanceFor
<1>5. Warm'
  BY <1>1 DEF Guarded, Warm, WarmFor, Launched, Occupied, InstanceFor, On
<1>6. FitsBeside'
  <2>1. SUFFICES ASSUME NEW q \in inside, phase[q] = "starting" \/ Launched(q)
                 PROVE  Deficits(TargetFor[q], Rivals(q)') = {}
    BY <1>1 DEF FitsBeside, Launched, Occupied, InstanceFor
  <2>2. q \in Requests /\ Deficits(TargetFor[q], Rivals(q)) = {}
    BY <1>1, <2>1 DEF Guarded, FitsBeside
  <2>3. \A j \in Rivals(q)' : j \in Rivals(q)
    BY <1>1 DEF Rivals, Occupied, On, InstanceFor
  <2> QED BY <2>2, <2>3, FewerRivals
<1>7. AllFit'
  BY <1>1 DEF Guarded, AllFit, Occupied
<1> QED BY <1>2, <1>3, <1>4, <1>5, <1>6, <1>7 DEF Guarded

(* The steps of the engines.                                               *)
LEMMA EngineGuarded ==
  ASSUME Ordered, Guarded, NEW i \in Instances, EngineNext(i)
  PROVE  Guarded'
<1>1. /\ inside \subseteq Requests /\ engine \in [Instances -> EngineStates]
      /\ UNCHANGED <<pending, answer, inside, phase, mode, seen, tried>>
      /\ \A j \in Instances \ {i} : engine'[j] = engine[j]
  <2>1. engine \in [Instances -> EngineStates] /\ inside \subseteq Requests
    BY PhaseTypes DEF Ordered
  <2> QED BY <2>1 DEF EngineNext, Spawned, Loaded, Exited, Crash, EngineStep, probeVars, requestVars
<1>2. \/ engine[i] = "starting" /\ engine'[i] = "loading"
      \/ engine[i] = "loading" /\ engine'[i] = "ready"
      \/ engine[i] = "stopping" /\ engine'[i] = "stopped"
      \/ engine[i] \in {"starting", "loading", "ready"} /\ engine'[i] = "failed"
  BY <1>1 DEF EngineNext, Spawned, Loaded, Exited, Crash, EngineStep
<1>3. \A j \in Instances : /\ Occupied(j)' => Occupied(j)
                           /\ engine'[j] = "ready" => \/ engine[j] = "ready"
                                                      \/ j = i /\ Unseen(j)
                           /\ Unseen(j)' => Unseen(j)
                           /\ Cold(j) => Cold(j)'
  <2>1. SUFFICES ASSUME NEW j \in Instances
                 PROVE  /\ Occupied(j)' => Occupied(j)
                        /\ engine'[j] = "ready" => \/ engine[j] = "ready"
                                                   \/ j = i /\ Unseen(j)
                        /\ Unseen(j)' => Unseen(j)
                        /\ Cold(j) => Cold(j)'
    OBVIOUS
  <2>2. Settled(j)' = Settled(j)
    BY <1>1 DEF Settled, On
  <2>3. CASE j # i
    <3>1. engine'[j] = engine[j]
      BY <1>1, <2>3
    <3> QED BY <1>1, <2>2, <2>3, <3>1 DEF Occupied, Unseen, Cold, On
  <2>4. CASE j = i
    <3>1. /\ Occupied(j)' => Occupied(j)
          /\ Unseen(j)' => Unseen(j)
          /\ engine'[j] = "ready" => engine[j] = "ready" \/ Unseen(j)
      BY <1>2, <2>2, <2>4 DEF Occupied, Unseen
    <3>2. Cold(j) => Cold(j)'
      BY <1>1, <1>2, <2>4 DEF Cold, On
    <3> QED BY <2>4, <3>1, <3>2
  <2> QED BY <2>3, <2>4
<1>4. \A q \in inside : InstanceFor(q) \in Instances /\ (Launched(q)' => Launched(q))
  <2>1. \A q \in inside : InstanceFor(q) \in Instances
    BY <1>1, InstancesOf
  <2> QED BY <1>1, <1>3, <2>1 DEF Launched, InstanceFor
<1>5. Owned'
  BY <1>1, <1>3 DEF Guarded, Owned, SeesReady, InstanceFor
<1>6. Complete'
  <2>1. SUFFICES ASSUME NEW q \in inside, NEW t \in Targets, phase[q] = "preview",
                        seen[q][t] # "awaited",
                        SharePool(InstanceOf[t], InstanceFor(q)),
                        InstanceOf[t] # InstanceFor(q) \/ ~tried[q],
                        engine'[InstanceOf[t]] = "ready" \/ answer[t] = "ready"
                 PROVE  seen[q][t] = "ready"
    BY <1>1 DEF Complete, CompleteFor, InstanceFor
  <2>2. CASE engine[InstanceOf[t]] = "ready" \/ answer[t] = "ready"
    BY <2>1, <2>2 DEF Guarded, Complete, CompleteFor
  <2>3. CASE engine'[InstanceOf[t]] = "ready" /\ engine[InstanceOf[t]] # "ready"
    <3>1. InstanceOf[t] \in Instances /\ Unseen(InstanceOf[t])
      BY <1>3, <2>3, InstancesOf
    <3>2. PICK k \in inside : InstanceFor(k) = InstanceOf[t] /\ tried[k]
      BY <3>1 DEF Guarded, Owned
    <3>3. k = q
      BY <2>1, <3>2, PoolsApart DEF Ordered, SharePool
    <3> QED BY <2>1, <3>2, <3>3
  <2> QED BY <2>1, <2>2, <2>3
<1>7. StartsCold'
  BY <1>1, <1>3, <1>4 DEF Guarded, StartsCold, ToStart, InstanceFor
<1>8. Warm'
  <2>1. SUFFICES ASSUME NEW q \in inside, Launched(q)' PROVE WarmFor(q)'
    BY <1>1 DEF Warm
  <2>2. WarmFor(q) /\ InstanceFor(q) \in Instances
    BY <1>4, <2>1 DEF Guarded, Warm
  <2>3. engine[InstanceFor(q)] = "ready" => engine'[InstanceFor(q)] = "ready"
    BY <1>1, <1>2, <2>1, <2>2 DEF Launched, Occupied, InstanceFor
  <2> QED BY <1>1, <2>2, <2>3 DEF WarmFor, On, InstanceFor
<1>9. FitsBeside'
  <2>1. SUFFICES ASSUME NEW q \in inside, phase[q] = "starting" \/ Launched(q)
                 PROVE  Deficits(TargetFor[q], Rivals(q)') = {}
    BY <1>1, <1>4 DEF FitsBeside
  <2>2. q \in Requests /\ Deficits(TargetFor[q], Rivals(q)) = {}
    BY <1>1, <2>1 DEF Guarded, FitsBeside
  <2>3. \A j \in Rivals(q)' : j \in Rivals(q)
    BY <1>1, <1>3 DEF Rivals, On, InstanceFor
  <2> QED BY <2>2, <2>3, FewerRivals
<1>10. AllFit'
  <2> DEFINE up == {j \in Instances : Occupied(j)}
             upNext == {j \in Instances : Occupied(j)'}
  <2>1. Fit(up) /\ up \in SUBSET Instances /\ upNext \in SUBSET Instances /\ upNext \subseteq up
    BY <1>3 DEF Guarded, AllFit
  <2>2. Fit(upNext)
    <3> HIDE DEF up, upNext
    <3> QED BY <2>1, FewerFit
  <2> QED BY <2>2 DEF AllFit
<1> QED BY <1>5, <1>6, <1>7, <1>8, <1>9, <1>10 DEF Guarded

(* The steps of nobody's request. *)
LEMMA SystemGuarded ==
  ASSUME \A t \in Targets : ~LoadsModels(t), Ordered, Guarded, Next \/ UNCHANGED vars,
         \A r \in Requests : ~RequestNext(r)
  PROVE  Guarded'
<1>1. CASE \E i \in Instances : ProbeAnswered(i) \/ ProbeDone(i) \/ Reconcile(i) \/ EngineNext(i)
  BY <1>1, AnsweredGuarded, DoneGuarded, ReconcileGuarded, EngineGuarded
<1>2. CASE (\E t \in Targets : (ModelLoaded(t) \/ ModelFails(t))) \/ UNCHANGED vars
  <2>1. UNCHANGED <<engine, pending, answer, inside, phase, mode, seen, tried>>
    BY <1>2 DEF ModelLoaded, ModelFails, ModelStep, vars, engineVars, probeVars, requestVars
  <2>2. Owned' /\ Complete' /\ StartsCold' /\ Warm'
    BY <2>1 DEF Guarded, Owned, Complete, StartsCold, Warm, Unseen, Settled, SeesReady, CompleteFor,
                Cold, ToStart, WarmFor, Launched, Occupied, InstanceFor, On
  <2>3. FitsBeside' /\ AllFit'
    BY <2>1 DEF Guarded, FitsBeside, AllFit, Launched, Rivals, Occupied, InstanceFor, On
  <2> QED BY <2>2, <2>3 DEF Guarded
<1> QED BY <1>1, <1>2 DEF Next

LEMMA TriedInsideStep ==
  ASSUME FirstLive = {}, Typed, LockHeld, TriedInside, [Next]_vars
  PROVE  TriedInside'
<1>1. /\ phase \in [Requests -> Phases] /\ tried \in [Requests -> BOOLEAN]
      /\ outcome \in [Requests -> Outcomes]
  BY PhaseTypes
<1>2. ASSUME NEW r \in Requests, RequestNext(r), NEW q \in Requests
      PROVE  /\ phase'[q] = "starting" => tried'[q]
             /\ tried'[q] => phase'[q] \in Inner \cup {"serving", "ended"}
  <2>1. /\ phase[q] = "starting" => tried[q]
        /\ tried[q] => phase[q] \in Inner \cup {"serving", "ended"}
    BY DEF TriedInside
  <2>2. CASE Leaves(r)
    <3>1. PICK to \in {"queued", "lock", "serving", "ended"} : phase' = [phase EXCEPT ![r] = to]
      BY <2>2 DEF Leaves
    <3>2. phase'[q] = (IF q = r THEN to ELSE phase[q]) /\ tried' = tried
      BY <1>1, <2>2, <3>1 DEF Leaves
    <3>3. phase[r] \in {"new", "queued"} \/ phase'[r] \in {"serving", "ended"}
      BY <2>2 DEF Leaves
    <3> QED BY <2>1, <3>2, <3>3 DEF Inner
  <2>3. CASE Stays(r)
    <3>1. /\ \A k \in Requests \ {r} : phase'[k] = phase[k] /\ tried'[k] = tried[k]
          /\ phase'[r] \in {"sleep", "asking"} \/ (phase'[r] = "starting" /\ tried'[r])
      BY <1>1, <2>3 DEF Stays
    <3> QED BY <2>1, <3>1 DEF Inner
  <2>4. CASE Looks(r)
    <3>1. phase' = [phase EXCEPT ![r] = "preview"] /\ tried' = tried
      BY <2>4 DEF Looks, AwaitPreview
    <3> QED BY <1>1, <2>1, <3>1 DEF Inner
  <2> QED BY <1>2, <2>2, <2>3, <2>4, StepKinds
<1>3. ASSUME NEW r \in Requests, RequestNext(r) PROVE TriedInside'
  BY <1>2, <1>3 DEF TriedInside
<1>4. CASE \A r \in Requests : ~RequestNext(r)
  <2>1. UNCHANGED <<phase, tried>>
    BY <1>4, OtherSteps
  <2> QED BY <2>1 DEF TriedInside
<1> QED BY <1>3, <1>4

(* While no executor has given up, what is loaded is guarded. *)
LEMMA GuardedStep ==
  ASSUME FirstLive = {}, \A t \in Targets : ~LoadsModels(t),
         Ordered, Clean => Guarded, [Next]_vars, Clean'
  PROVE  Guarded'
<1>1. Guarded
  <2>1. outcome \in [Requests -> Outcomes]
    BY PhaseTypes DEF Ordered
  <2>2. ASSUME NEW r \in Requests, RequestNext(r) PROVE Clean
    <3>1. UNCHANGED outcome \/ (phase[r] \notin {"serving", "ended"}
                                /\ \E result \in Outcomes : outcome' = [outcome EXCEPT ![r] = result])
      BY <2>2, StepKinds DEF Ordered, Leaves, Stays, Looks
    <3>2. CASE UNCHANGED outcome
      BY <3>2 DEF Clean
    <3>3. CASE /\ phase[r] \notin {"serving", "ended"}
               /\ \E result \in Outcomes : outcome' = [outcome EXCEPT ![r] = result]
      <4>1. outcome[r] = "none" /\ \A q \in Requests \ {r} : outcome'[q] = outcome[q]
        BY <2>1, <3>3 DEF Ordered, LockHeld
      <4> QED BY <4>1 DEF Clean
    <3> QED BY <3>1, <3>2, <3>3
  <2>3. CASE \A r \in Requests : ~RequestNext(r)
    <3>1. UNCHANGED outcome
      BY <2>3, OtherSteps DEF Ordered
    <3> QED BY <3>1 DEF Clean
  <2> QED BY <2>2, <2>3
<1>2. ASSUME NEW r \in Requests, RequestNext(r) PROVE Guarded'
  BY <1>1, <1>2, StepKinds, LeavesGuarded, StaysGuarded, LooksGuarded DEF Ordered
<1>3. CASE \A r \in Requests : ~RequestNext(r)
  BY <1>1, <1>3, SystemGuarded
<1> QED BY <1>2, <1>3

LEMMA InitGuarded ==
  ASSUME Fit(Up \cap Instances), Init
  PROVE  Ordered /\ Guarded
<1>1. Typed /\ UnloadsSeen
  BY InitTypes, InitSeen
<1>2. LockHeld /\ OnePerPool /\ TriedInside
  BY DEF Init, LockHeld, Inner, OnePerPool, TriedInside
<1>3. /\ \A i \in Instances : Occupied(i) <=> i \in Up
      /\ \A i \in Instances : Occupied(i) => engine[i] = "ready"
      /\ \A i \in Instances : Settled(i)
  BY DEF Init, Occupied, Settled, On
<1>4. Owned
  BY <1>3 DEF Owned, Unseen
<1>5. Complete /\ StartsCold /\ Warm /\ FitsBeside
  BY DEF Init, Complete, StartsCold, Warm, FitsBeside
<1>6. AllFit
  <2>1. {i \in Instances : Occupied(i)} = Up \cap Instances
    BY <1>3
  <2> QED BY <2>1 DEF AllFit
<1> QED BY <1>1, <1>2, <1>4, <1>5, <1>6 DEF Ordered, Guarded

(* Where every request is admitted before it previews, no engine is a      *)
(* router with models to load, and what is up in the beginning fits: as    *)
(* long as no executor has failed or given up, the engines that are        *)
(* starting, loading or ready fit into the pools together, although a plan *)
(* counts only those that its preview has seen ready.  What exceeds a pool *)
(* is engines that were told to stop and have not gone yet.                *)
THEOREM LoadedTogetherFits ==
  ASSUME FirstLive = {}, \A t \in Targets : ~LoadsModels(t), Fit(Up \cap Instances)
  PROVE  Spec => []OnlyVictimsExceed
<1> DEFINE Inv == Ordered /\ (Clean => Guarded)
<1>1. Init => Inv
  BY InitGuarded
<1>2. Inv /\ [Next]_vars => Inv'
  <2>1. SUFFICES ASSUME Inv, [Next]_vars PROVE Inv'
    OBVIOUS
  <2>2. Typed' /\ UnloadsSeen'
    BY <2>1, TypedStep, UnloadsSeenStep DEF Ordered
  <2>3. LockHeld' /\ OnePerPool' /\ TriedInside'
    BY <2>1, LockHeldStep, OnePerPoolStep, TriedInsideStep DEF Ordered
  <2>4. Clean' => Guarded'
    BY <2>1, GuardedStep
  <2> QED BY <2>2, <2>3, <2>4 DEF Ordered
<1>3. Inv => OnlyVictimsExceed
  BY DEF Guarded, AllFit, OnlyVictimsExceed, Clean
<1> QED BY <1>1, <1>2, <1>3, PTL DEF Spec

-----------------------------------------------------------------------------
(* The lock is used as its promise asks for.                               *)

(* Where a request is in the eyes of the lock. *)
Place(r) ==
  IF r \in inside THEN "inside"
  ELSE IF phase[r] = "lock" THEN "asking"
  ELSE IF r \in swaps /\ phase[r] \in {"serving", "ended"} THEN "left"
  ELSE "outside"
Places == [r \in Requests |-> Place(r)]

Lock == INSTANCE ExclusiveAccess
          WITH Callers <- Requests, DomainsWanted <- [r \in Requests |-> Domains(r)],
               phase <- Places

(* Who has asked for the lock had a first preview that needs it. *)
SwapsAsk ==
  \A r \in Requests :
    /\ phase[r] = "new" => r \notin swaps
    /\ phase[r] \in Inner \cup {"lock"} => r \in swaps

(* Only its first preview makes a request one that swaps. *)
LEMMA SwapsAtFirst ==
  ASSUME Typed, NEW r \in Requests, RequestNext(r), phase[r] # "new"
  PROVE  UNCHANGED swaps
<1>1. ASSUME NEW m, NEW e, AwaitPreview(r, m, e) PROVE UNCHANGED swaps
  BY <1>1 DEF AwaitPreview
<1>2. CASE Decide(r)
  <2>1. CASE Quiet(r)
    BY <2>1 DEF Quiet, Finish, WaitForLock, Await
  <2>2. CASE Acts(r)
    <3> DEFINE a == Head(Todo(r))
    <3>1. AskEngine(r, a) \/ StopInstance(r, a) \/ StartInstance(r, a)
          \/ WaitReady(r, a)
      BY <2>2 DEF Acts
    <3> HIDE DEF a
    <3> QED BY <1>1, <3>1 DEF AskEngine, StopInstance, StartInstance, WaitReady, Finish
  <2> QED BY <1>2, <2>1, <2>2, DecideSteps
<1>3. CASE Begin(r)
  BY <1>3 DEF Begin
<1>4. CASE Admitted(r)
  BY <1>4 DEF Admitted, WaitForLock, Finish
<1>5. CASE TakeLock(r) \/ Poll(r)
  BY <1>1, <1>5 DEF TakeLock, Poll
<1>6. CASE GiveUp(r) \/ EndRequest(r)
  BY <1>6 DEF GiveUp, EndRequest, Finish
<1>7. CASE CompleteStart(r)
  BY <1>1, <1>7 DEF CompleteStart, Finish
<1>8. CASE \E ok \in BOOLEAN : AnswerSlot(r, ok) \/ AnswerModel(r, ok)
  BY <1>1, <1>8 DEF AnswerSlot, AnswerModel, Finish
<1> QED BY <1>2, <1>3, <1>4, <1>5, <1>6, <1>7, <1>8 DEF RequestNext, Proceeds

(* What a request does that has no lock. *)
LEMMA OutsideSteps ==
  ASSUME FirstLive = {}, Typed, LockHeld, SwapsAsk, NEW r \in Requests, RequestNext(r), r \notin inside
  PROVE  \/ /\ phase[r] = "new" /\ inside' = inside
            /\ \/ phase' = [phase EXCEPT ![r] = "ended"] /\ swaps' = swaps
               \/ phase' = [phase EXCEPT ![r] = "queued"] /\ swaps' \in {swaps, swaps \cup {r}}
         \/ /\ phase[r] = "queued" /\ inside' = inside /\ swaps' = swaps
            /\ \/ phase' = [phase EXCEPT ![r] = "lock"] /\ r \in swaps
               \/ phase' = [phase EXCEPT ![r] = "serving"] /\ r \notin swaps
         \/ /\ phase[r] = "lock" /\ inside' = inside \cup {r} /\ swaps' = swaps
            /\ phase' = [phase EXCEPT ![r] = "preview"]
            /\ \A q \in inside : Domains(q) \cap Domains(r) = {}
         \/ /\ phase[r] = "serving" /\ inside' = inside /\ swaps' = swaps
            /\ phase' = [phase EXCEPT ![r] = "ended"]
<1>1. phase[r] \notin Inner /\ inside \ {r} = inside
  BY DEF LockHeld
<1>2. CASE Begin(r)
  BY <1>1, <1>2 DEF Begin, Finish
<1>3. CASE Admitted(r)
  BY <1>1, <1>3 DEF Admitted, WaitForLock, Finish
<1>4. CASE TakeLock(r)
  BY <1>4 DEF TakeLock, AwaitPreview
<1>5. CASE EndRequest(r)
  BY <1>5 DEF EndRequest
<1>6. ~(Decide(r) \/ Poll(r) \/ GiveUp(r) \/ CompleteStart(r)
         \/ \E ok \in BOOLEAN : AnswerSlot(r, ok) \/ AnswerModel(r, ok))
  BY <1>1 DEF Inner, Decide, Poll, GiveUp, CompleteStart, AnswerSlot, AnswerModel
<1> QED BY <1>2, <1>3, <1>4, <1>5, <1>6 DEF RequestNext, Proceeds

(* What it does under the lock: it keeps it, or it leaves it for good. *)
LEMMA InsideSteps ==
  ASSUME FirstLive = {}, Typed, LockHeld, NEW r \in inside, RequestNext(r)
  PROVE  /\ UNCHANGED swaps
         /\ \E to \in Inner \cup {"serving", "ended"} :
              /\ phase' = [phase EXCEPT ![r] = to]
              /\ inside' = IF to \in Inner THEN inside ELSE inside \ {r}
<1>1. r \in Requests /\ phase[r] \in Inner /\ phase \in [Requests -> Phases]
  BY PhaseTypes DEF LockHeld
<1>2. UNCHANGED swaps
  BY <1>1, SwapsAtFirst DEF Inner
<1>3. CASE Leaves(r)
  <2>1. PICK to \in {"queued", "lock", "serving", "ended"} : phase' = [phase EXCEPT ![r] = to]
    BY <1>3 DEF Leaves
  <2>2. phase'[r] \in {"serving", "ended"} /\ inside' = inside \ {r}
    BY <1>3 DEF Leaves
  <2>3. to \in {"serving", "ended"}
    BY <1>1, <2>1, <2>2
  <2> QED BY <1>2, <2>1, <2>2, <2>3 DEF Inner
<1>4. CASE Stays(r)
  <2>1. PICK to \in {"sleep", "asking", "starting"} : phase' = [phase EXCEPT ![r] = to]
    BY <1>4 DEF Stays
  <2>2. inside' = inside
    BY <1>4 DEF Stays
  <2> QED BY <1>2, <2>1, <2>2 DEF Inner
<1>5. CASE Looks(r)
  BY <1>2, <1>5 DEF Looks, AwaitPreview, Inner
<1> QED BY <1>1, <1>3, <1>4, <1>5, StepKinds

LEMMA PlacesOfRest ==
  ASSUME FirstLive = {}, Typed, LockHeld, SwapsAsk, NEW r \in Requests, RequestNext(r)
  PROVE  /\ \A q \in Requests \ {r} :
              /\ phase'[q] = phase[q]
              /\ q \in inside' <=> q \in inside
              /\ q \in swaps' <=> q \in swaps
              /\ Place(q)' = Place(q)
         /\ Places' = [Places EXCEPT ![r] = Place(r)']
<1>1. phase \in [Requests -> Phases] /\ inside \subseteq Requests
  BY PhaseTypes
<1>2. \A q \in Requests \ {r} : /\ phase'[q] = phase[q]
                                /\ q \in inside' <=> q \in inside
                                /\ q \in swaps' <=> q \in swaps
  <2>1. CASE r \in inside
    BY <1>1, <2>1, InsideSteps
  <2>2. CASE r \notin inside
    BY <1>1, <2>2, OutsideSteps
  <2> QED BY <2>1, <2>2
<1>3. \A q \in Requests \ {r} : Place(q)' = Place(q)
  BY <1>2 DEF Place
<1> QED BY <1>2, <1>3 DEF Places

LEMMA SwapsAskStep ==
  ASSUME FirstLive = {}, Typed, LockHeld, SwapsAsk, [Next]_vars
  PROVE  SwapsAsk'
<1>1. ASSUME NEW r \in Requests, RequestNext(r) PROVE SwapsAsk'
  <2>1. phase \in [Requests -> Phases] /\ inside \subseteq Requests
    BY PhaseTypes
  <2>2. phase'[r] # "new" /\ (phase'[r] \in Inner \cup {"lock"} => r \in swaps')
    <3>1. CASE r \in inside
      <4>1. r \in swaps /\ swaps' = swaps
        BY <1>1, <3>1, InsideSteps DEF SwapsAsk, LockHeld
      <4>2. phase'[r] \in Inner \cup {"serving", "ended"}
        BY <1>1, <2>1, <3>1, InsideSteps
      <4> QED BY <4>1, <4>2 DEF Inner
    <3>2. CASE r \notin inside
      <4>1. phase[r] = "lock" => r \in swaps
        BY DEF SwapsAsk
      <4> QED BY <1>1, <2>1, <3>2, <4>1, OutsideSteps DEF Inner
    <3> QED BY <3>1, <3>2
  <2> QED BY <1>1, <2>2, PlacesOfRest DEF SwapsAsk
<1>2. CASE \A r \in Requests : ~RequestNext(r)
  <2>1. UNCHANGED phase
    BY <1>2, OtherSteps
  <2>2. UNCHANGED swaps
    BY <1>2 DEF Next, ProbeAnswered, ProbeDone, Reconcile, EngineNext, Spawned, Loaded, Exited, Crash,
                EngineStep, ModelLoaded, ModelFails, ModelStep, vars, requestVars
  <2> QED BY <2>1, <2>2 DEF SwapsAsk
<1> QED BY <1>1, <1>2

(* Each step asks for the lock, enters, leaves, or is nothing to it.       *)
LEMMA LockStep ==
  ASSUME FirstLive = {}, Typed, LockHeld, SwapsAsk, [Next]_vars
  PROVE  [Lock!Next]_Places
<1>1. ASSUME NEW r \in Requests, RequestNext(r) PROVE Lock!Next \/ Places' = Places
  <2>1. phase \in [Requests -> Phases] /\ inside \subseteq Requests
    BY PhaseTypes
  <2>2. Places' = [Places EXCEPT ![r] = Place(r)'] /\ Places[r] = Place(r)
    BY <1>1, PlacesOfRest DEF Places
  <2>3. CASE r \in inside
    <3>1. r \in swaps /\ Place(r) = "inside"
      BY <2>3 DEF SwapsAsk, LockHeld, Place
    <3>2. Place(r)' \in {"inside", "left"}
      <4>1. PICK to \in Inner \cup {"serving", "ended"} :
              /\ phase' = [phase EXCEPT ![r] = to]
              /\ inside' = IF to \in Inner THEN inside ELSE inside \ {r}
        BY <1>1, <2>3, InsideSteps
      <4>2. phase'[r] = to /\ r \in swaps'
        BY <1>1, <2>1, <2>3, <3>1, <4>1, InsideSteps
      <4> QED BY <2>3, <4>1, <4>2 DEF Place, Inner
    <3>3. Place(r)' = "left" => Lock!Leave(r)
      BY <2>2, <3>1 DEF Lock!Leave
    <3>4. Place(r)' = "inside" => Places' = Places
      BY <2>2, <3>1 DEF Places
    <3> QED BY <3>2, <3>3, <3>4 DEF Lock!Next
  <2>4. CASE r \notin inside /\ phase[r] = "lock"
    <3>1. /\ inside' = inside \cup {r}
          /\ \A q \in inside : Domains(q) \cap Domains(r) = {}
      BY <1>1, <2>4, OutsideSteps
    <3>2. Place(r) = "asking" /\ Place(r)' = "inside"
      BY <2>4, <3>1 DEF Place
    <3>3. ASSUME NEW q \in Requests, Places[q] = "inside" PROVE ~Lock!Conflict(r, q)
      <4>1. q \in inside
        BY <3>3 DEF Places, Place
      <4>2. [k \in Requests |-> Domains(k)][q] \cap [k \in Requests |-> Domains(k)][r] = {}
        BY <3>1, <4>1
      <4> QED BY <4>2 DEF Lock!Conflict
    <3>4. Lock!Enter(r)
      BY <2>2, <3>2, <3>3 DEF Lock!Enter
    <3> QED BY <3>4 DEF Lock!Next
  <2>5. CASE r \notin inside /\ phase[r] # "lock"
    <3>1. CASE phase[r] = "queued" /\ phase' = [phase EXCEPT ![r] = "lock"] /\ inside' = inside
      <4>1. Place(r) = "outside" /\ Place(r)' = "asking"
        BY <2>1, <2>5, <3>1 DEF Place
      <4>2. Lock!Ask(r)
        BY <2>2, <4>1 DEF Lock!Ask
      <4> QED BY <4>2 DEF Lock!Next
    <3>2. CASE ~(phase[r] = "queued" /\ phase' = [phase EXCEPT ![r] = "lock"] /\ inside' = inside)
      <4>1. phase[r] = "new" => r \notin swaps
        BY DEF SwapsAsk
      <4>2. Place(r)' = Place(r)
        BY <1>1, <2>1, <2>5, <3>2, <4>1, OutsideSteps DEF Place
      <4> QED BY <2>2, <4>2 DEF Places
    <3> QED BY <3>1, <3>2
  <2> QED BY <2>3, <2>4, <2>5
<1>2. CASE \A r \in Requests : ~RequestNext(r)
  <2>1. UNCHANGED <<phase, inside>>
    BY <1>2, OtherSteps
  <2>2. UNCHANGED swaps
    BY <1>2 DEF Next, ProbeAnswered, ProbeDone, Reconcile, EngineNext, Spawned, Loaded, Exited, Crash,
                EngineStep, ModelLoaded, ModelFails, ModelStep, vars, requestVars
  <2> QED BY <2>1, <2>2 DEF Places, Place
<1> QED BY <1>1, <1>2

(* The executors use the lock as callers of ExclusiveAccess, the promise   *)
(* that the swap coordinator keeps: each asks once, goes in when nobody    *)
(* inside has one of its domains, and leaves for good.                     *)
THEOREM UsesLockAsPromised ==
  ASSUME FirstLive = {}
  PROVE  Spec => Lock!SafeSpec
<1> DEFINE Inv == Typed /\ LockHeld /\ SwapsAsk
<1>1. Init => Inv /\ Lock!Init
  <2>1. SUFFICES ASSUME Init PROVE Inv /\ Lock!Init
    OBVIOUS
  <2>2. Typed /\ LockHeld
    BY <2>1, InitUntouched DEF Untouched
  <2>3. SwapsAsk
    BY <2>1 DEF Init, SwapsAsk, Inner
  <2>4. \A r \in Requests : Place(r) = "outside"
    BY <2>1 DEF Init, Place
  <2> QED BY <2>2, <2>3, <2>4 DEF Lock!Init, Places
<1>2. Inv /\ [Next]_vars => Inv'
  BY TypedStep, LockHeldStep, SwapsAskStep
<1>3. Inv /\ [Next]_vars => [Lock!Next]_Places
  BY LockStep
<1> QED BY <1>1, <1>2, <1>3, PTL DEF Spec, Lock!SafeSpec

=============================================================================
