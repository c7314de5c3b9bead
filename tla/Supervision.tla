---------------------------- MODULE Supervision ----------------------------
(* The engines a manager launches, the rows it keeps about them and the    *)
(* objects it watches them with: process/supervised-child.ts,              *)
(* supervisor.ts, managed-lifecycle.ts, stale.ts, reconcile.ts, the run    *)
(* rows of runs-repository.ts and the DELETE route of an instance.         *)
(*                                                                         *)
(* Engines are detached: they outlive the manager. The rows are durable,   *)
(* the children (one per instance) and the calls in progress are not. A    *)
(* pid may be taken by another process once its engine is gone: one that   *)
(* has nothing to do with the engines, or one that has the path of their   *)
(* binary among its arguments. (All instances run one binary.)             *)
EXTENDS Integers, FiniteSets

CONSTANTS
  Instances,   \* names an instance definition may have
  Pids,        \* pids of the operating system
  NoPid,       \* a row or a child without a pid
  Callers,     \* requests that may be in progress at once
  MaxRuns,     \* bound: launches
  MaxCrashes   \* bound: ends of the manager

ASSUME SupervisionAssumption ==
  /\ MaxRuns \in Nat /\ MaxCrashes \in Nat
  /\ NoPid \notin Pids /\ "none" \notin Instances

Runs == 1..MaxRuns

VARIABLES
  manager,     \* "up", "closing" (in shutdownAll) or "down"
  crashes,     \* how often it has ended
  defined,     \* instances with a valid definition
  broken,      \* instances whose definition file is quarantined
  proc,        \* what runs under each pid
  rows,        \* process_runs, by run
  launched,    \* how many runs there have been
  child,       \* supervisor.processes
  starting,    \* supervisor.startingInstances
  op,          \* the calls in progress
  deferred,    \* history: runs a reconcile has left alone
  passedOver   \* history: runs it has passed over for a later one

durable == <<defined, broken, rows, launched, deferred, passedOver>>
vars == <<manager, crashes, defined, broken, proc, rows, launched, child,
          starting, op, deferred, passedOver>>

-----------------------------------------------------------------------------
(* Shapes *)

(* What runs under a pid: the engine of a run, or something else that has  *)
(* the engines' binary in its command line or has not.                     *)
Stranger == 0
Lookalike == -1
Free == [run |-> Stranger, signal |-> "free"]   \* no process has the pid
Proc == {Free} \cup [run : -1..MaxRuns, signal : {"none", "term", "kill", "zombie"}]

NoRow == [inst |-> "none", pid |-> NoPid, status |-> "none"]
OpenStatus == {"running", "stopping", "stale"}
Row == {NoRow} \cup [inst : Instances, pid : Pids, status : OpenStatus]
               \cup [inst : Instances, pid : {NoPid}, status : {"exited", "error"}]

NoChild == [run |-> 0, pid |-> NoPid, status |-> "none", adopted |-> FALSE, timer |-> "off"]
Child == {NoChild} \cup
  [run : Runs, pid : Pids \cup {NoPid}, status : {"running", "stopping", "exited", "error"},
   adopted : BOOLEAN, timer : {"off", "armed", "fired"}]

Idle == [goal |-> "none", at |-> "idle", inst |-> "none", run |-> 0, pid |-> NoPid]
Op == {Idle} \cup
  [goal : {"start", "stop", "restart", "delete"},
   at : {"preflight", "launch", "stale", "killed", "exit", "again"},
   inst : Instances, run : 0..MaxRuns, pid : Pids \cup {NoPid}]

Call(goal, at, i) == [goal |-> goal, at |-> at, inst |-> i, run |-> 0, pid |-> NoPid]

(* isPidAlive: a process that has exited answers until it is reaped. *)
Alive(p) == p \in Pids /\ proc[p] # Free

(* !isTerminal(), for a child that exists *)
Watching(i) == child[i].status \in {"running", "stopping"}

(* liveStaleProcessRun: the latest open row that is stale and whose pid    *)
(* answers, or 0                                                           *)
StaleRuns(i) ==
  {r \in Runs : rows[r].inst = i /\ rows[r].status = "stale" /\ Alive(rows[r].pid)}
LatestOf(R) == IF R = {} THEN 0 ELSE CHOOSE r \in R : \A s \in R : s <= r
StaleRun(i) == LatestOf(StaleRuns(i))

(* A signal is sent to whatever has the pid. *)
Signalled(ps, signal) ==
  [p \in Pids |->
    IF p \in ps /\ proc[p].signal \in {"none", "term"}
    THEN [proc[p] EXCEPT !.signal = signal] ELSE proc[p]]

(* updateProcessRun: no effect on a row that has been deleted *)
Marked(R, status) ==
  [r \in Runs |->
    IF r \in R /\ rows[r] # NoRow THEN [rows[r] EXCEPT !.status = status] ELSE rows[r]]
BadClosed(r, status) ==
  [s \in Runs |->
    IF s = r /\ rows[s] # NoRow THEN [rows[s] EXCEPT !.status = status] ELSE rows[s]]
Closed(r, status) ==
  [s \in Runs |->
    IF s = r /\ rows[s] # NoRow
    THEN [rows[s] EXCEPT !.status = status, !.pid = NoPid] ELSE rows[s]]

-----------------------------------------------------------------------------
(* A child: SupervisedChild *)

(* Pids come round again, but not within the second between two polls. *)
Available(p) ==
  /\ proc[p] = Free
  /\ \A i \in Instances : child[i].pid # p
  /\ \A c \in Callers : op[c].pid # p

BadAsked(S) == {i \in S : child[i].status \notin {"none", "stopping"}}

(* requestStop for the instances S: nothing for a child that is over;      *)
(* SIGTERM the first time only; one force-kill timer in a child's life.    *)
Asked(S) == {i \in S : child[i].status = "running"}
BadStopChildren(S) ==
  [i \in Instances |->
    IF i \in S /\ Watching(i)
    THEN [child[i] EXCEPT !.status = "stopping",
                          !.timer = IF child[i].adopted THEN @ ELSE "armed"]
    ELSE child[i]]
StopChildren(S) ==
  [i \in Instances |->
    IF i \in S /\ Watching(i)
    THEN [child[i] EXCEPT !.status = "stopping",
                          !.timer = IF @ = "off" THEN "armed" ELSE @]
    ELSE child[i]]
AskedRuns(S) == {child[i].run : i \in Asked(S)}
AskedPids(S) == {child[i].pid : i \in Asked(S)}

RequestStop(S) ==
  /\ child' = StopChildren(S)
  /\ rows' = Marked(AskedRuns(S), "stopping")
  /\ proc' = Signalled(AskedPids(S), "term")

(* finalize, from the 'exit' event of a child or the poll of an adopted one *)
Finalize(i) ==
  LET status == IF child[i].status = "stopping" THEN "exited" ELSE "error"
  IN /\ child' = [child EXCEPT ![i] = [@ EXCEPT !.status = status, !.pid = NoPid, !.timer = "off"]]
     /\ rows' = Closed(child[i].run, status)
     /\ UNCHANGED <<manager, crashes, defined, broken, launched, starting, op, deferred, passedOver>>

(* Node reaps the process and reports its exit. *)
ExitEvent(i) ==
  /\ Watching(i) /\ ~child[i].adopted
  /\ proc[child[i].pid].signal = "zombie"
  /\ proc' = [proc EXCEPT ![child[i].pid] = Free]
  /\ Finalize(i)

BadAdoptedPoll(i) ==
  /\ Watching(i) /\ child[i].adopted
  /\ child[i].status = "stopping" \/ ~Alive(child[i].pid)
  /\ UNCHANGED proc
  /\ Finalize(i)

(* An adopted process is not ours to reap; it is polled every second. *)
AdoptedPoll(i) ==
  /\ Watching(i) /\ child[i].adopted
  /\ ~Alive(child[i].pid)
  /\ UNCHANGED proc
  /\ Finalize(i)

ForceKill(i) ==
  /\ child[i].status = "stopping" /\ child[i].timer = "armed"
  /\ child' = [child EXCEPT ![i].timer = "fired"]
  /\ proc' = Signalled({child[i].pid}, "kill")
  /\ UNCHANGED <<manager, crashes, defined, broken, rows, launched, starting, op, deferred, passedOver>>

-----------------------------------------------------------------------------
(* The supervisor: start and its joined preflight, launch *)

BadSupervisorStart(c, goal, i) ==
  /\ op' = [op EXCEPT ![c] = Call(goal, "launch", i)]
  /\ starting' = [starting EXCEPT ![i] = TRUE]

(* supervisor.start for the call c, whose other changes are in the caller: *)
(* it returns an active child, or awaits the launch, its own or another's. *)
SupervisorStart(c, goal, i) ==
  IF Watching(i)
  THEN op' = [op EXCEPT ![c] = Idle] /\ UNCHANGED starting
  ELSE /\ op' = [op EXCEPT ![c] = Call(goal, "launch", i)]
       /\ starting' = [starting EXCEPT ![i] = TRUE]

(* Everyone who awaits the launch of i returns. *)
Returned(i) ==
  [c \in Callers |-> IF op[c].at = "launch" /\ op[c].inst = i THEN Idle ELSE op[c]]

LaunchRefused(i) ==
  /\ manager # "down" /\ starting[i]
  /\ starting' = [starting EXCEPT ![i] = FALSE]
  /\ op' = Returned(i)
  /\ UNCHANGED <<manager, crashes, defined, broken, proc, rows, launched, child, deferred, passedOver>>

(* spawn, createRun and the 'spawn' event of the same turn *)
Launch(i, p) ==
  /\ manager # "down" /\ starting[i]
  /\ launched < MaxRuns /\ Available(p)
  /\ launched' = launched + 1
  /\ proc' = [proc EXCEPT ![p] = [run |-> launched + 1, signal |-> "none"]]
  /\ rows' = [rows EXCEPT ![launched + 1] = [inst |-> i, pid |-> p, status |-> "running"]]
  /\ child' = [child EXCEPT ![i] =
                [run |-> launched + 1, pid |-> p, status |-> "running",
                 adopted |-> FALSE, timer |-> "off"]]
  /\ starting' = [starting EXCEPT ![i] = FALSE]
  /\ op' = Returned(i)
  /\ UNCHANGED <<manager, crashes, defined, broken, deferred, passedOver>>

(* spawn fails: no pid, and the 'error' event of the same turn finalizes *)
LaunchFails(i) ==
  /\ manager # "down" /\ starting[i]
  /\ launched < MaxRuns
  /\ launched' = launched + 1
  /\ rows' = [rows EXCEPT ![launched + 1] = [inst |-> i, pid |-> NoPid, status |-> "error"]]
  /\ child' = [child EXCEPT ![i] =
                [run |-> launched + 1, pid |-> NoPid, status |-> "error",
                 adopted |-> FALSE, timer |-> "off"]]
  /\ starting' = [starting EXCEPT ![i] = FALSE]
  /\ op' = Returned(i)
  /\ UNCHANGED <<manager, crashes, defined, broken, proc, deferred, passedOver>>

-----------------------------------------------------------------------------
(* Calls: start, stop, restart and delete of an instance *)

(* startManagedInstance: refused while a stale process lives; its          *)
(* preflight and the arguments of its workers are awaited                  *)
StartCall(c, i) ==
  /\ manager = "up" /\ op[c] = Idle
  /\ i \in defined /\ StaleRun(i) = 0
  /\ op' = [op EXCEPT ![c] = Call("start", "preflight", i)]
  /\ UNCHANGED <<manager, crashes, proc, child, starting>> /\ UNCHANGED durable

(* stopManagedInstance: the supervised child if there ever was one, else   *)
(* the stale process, else 404                                             *)
StopCall(c, i) ==
  /\ manager = "up" /\ op[c] = Idle
  /\ IF child[i] # NoChild
     THEN RequestStop({i}) /\ UNCHANGED op
     ELSE LET r == StaleRun(i)
          IN /\ r # 0
             /\ op' = [op EXCEPT ![c] = [goal |-> "stop", at |-> "stale", inst |-> i,
                                          run |-> r, pid |-> rows[r].pid]]
             /\ proc' = Signalled({rows[r].pid}, "term")
             /\ rows' = Marked({r}, "stopping")
             /\ UNCHANGED child
  /\ UNCHANGED <<manager, crashes, defined, broken, launched, starting, deferred, passedOver>>

RestartCall(c, i) ==
  /\ manager = "up" /\ op[c] = Idle
  /\ i \in defined
  /\ op' = [op EXCEPT ![c] = Call("restart", "preflight", i)]
  /\ UNCHANGED <<manager, crashes, proc, child, starting>> /\ UNCHANGED durable

(* deleteInstance: the definition and every row of it *)
Removed(i, table) ==
  /\ defined' = defined \ {i}
  /\ rows' = IF i \in defined
             THEN [r \in Runs |-> IF table[r].inst = i THEN NoRow ELSE table[r]]
             ELSE table

(* DELETE /api/instances/:id asks the child to stop and does not wait for  *)
(* it; it waits for a stale process only.                                  *)
DeleteCall(c, i) ==
  /\ manager = "up" /\ op[c] = Idle
  /\ LET r == StaleRun(i)
     IN IF r = 0
        THEN /\ Removed(i, Marked(AskedRuns({i}), "stopping"))
             /\ child' = StopChildren({i})
             /\ proc' = Signalled(AskedPids({i}), "term")
             /\ UNCHANGED op
        ELSE /\ op' = [op EXCEPT ![c] = [goal |-> "delete", at |-> "stale", inst |-> i,
                                          run |-> r, pid |-> rows[r].pid]]
             /\ child' = StopChildren({i})
             /\ proc' = Signalled({rows[r].pid} \cup AskedPids({i}), "term")
             /\ rows' = Marked({r} \cup AskedRuns({i}), "stopping")
             /\ UNCHANGED defined
  /\ UNCHANGED <<manager, crashes, broken, launched, starting, deferred, passedOver>>

(* A preflight refuses the call: an error answer. *)
CallRefused(c) ==
  /\ manager # "down" /\ op[c].at \in {"preflight", "again"}
  /\ op' = [op EXCEPT ![c] = Idle]
  /\ UNCHANGED <<manager, crashes, proc, child, starting>> /\ UNCHANGED durable

StartProceeds(c) ==
  /\ manager # "down"
  /\ op[c].at = "again" \/ (op[c].at = "preflight" /\ op[c].goal = "start")
  /\ SupervisorStart(c, op[c].goal, op[c].inst)
  /\ UNCHANGED <<manager, crashes, proc, child>> /\ UNCHANGED durable

(* restartManagedInstance after its preflight: a stale process is stopped  *)
(* first; otherwise supervisor.restart asks the child to stop and waits    *)
RestartProceeds(c) ==
  LET i == op[c].inst
      r == StaleRun(i)
  IN /\ manager # "down" /\ op[c].at = "preflight" /\ op[c].goal = "restart"
     /\ \/ /\ r # 0
           /\ op' = [op EXCEPT ![c] = [@ EXCEPT !.at = "stale", !.run = r, !.pid = rows[r].pid]]
           /\ proc' = Signalled({rows[r].pid}, "term")
           /\ rows' = Marked({r}, "stopping")
           /\ UNCHANGED <<child, starting>>
        \/ /\ r = 0 /\ Watching(i)
           /\ RequestStop({i})
           /\ op' = [op EXCEPT ![c] = [@ EXCEPT !.at = "exit", !.run = child[i].run]]
           /\ UNCHANGED starting
        \/ /\ r = 0 /\ ~Watching(i)
           /\ SupervisorStart(c, "restart", i)
           /\ UNCHANGED <<child, rows, proc>>
     /\ UNCHANGED <<manager, crashes, defined, broken, launched, deferred, passedOver>>

(* waitForExit of the child: it is over, or 7 seconds have passed. Then    *)
(* supervisor.start, which returns a child that is still stopping.         *)
ExitWaited(c) ==
  /\ manager # "down" /\ op[c].at = "exit"
  /\ SupervisorStart(c, "restart", op[c].inst)
  /\ UNCHANGED <<manager, crashes, proc, child>> /\ UNCHANGED durable

-----------------------------------------------------------------------------
(* stopStaleProcess: SIGTERM (sent when it began), a wait, SIGKILL, a wait *)

StaleGone(c) ==
  /\ manager # "down" /\ op[c].at \in {"stale", "killed"}
  /\ ~Alive(op[c].pid)
  /\ LET i == op[c].inst
         r == op[c].run
     IN CASE op[c].goal = "stop" ->
               /\ rows' = Closed(r, "exited")
               /\ op' = [op EXCEPT ![c] = Idle]
               /\ UNCHANGED defined
          [] op[c].goal = "restart" ->
               /\ rows' = Closed(r, "exited")
               /\ op' = [op EXCEPT ![c] = Call("restart", "again", i)]
               /\ UNCHANGED defined
          [] op[c].goal = "delete" ->
               /\ Removed(i, Closed(r, "exited"))
               /\ op' = [op EXCEPT ![c] = Idle]
  /\ UNCHANGED <<manager, crashes, broken, proc, launched, child, starting, deferred, passedOver>>

StaleKill(c) ==
  /\ manager # "down" /\ op[c].at = "stale"
  /\ Alive(op[c].pid)
  /\ proc' = Signalled({op[c].pid}, "kill")
  /\ op' = [op EXCEPT ![c].at = "killed"]
  /\ UNCHANGED <<manager, crashes, child, starting>> /\ UNCHANGED durable

StaleGiveUp(c) ==
  /\ manager # "down" /\ op[c].at = "killed"
  /\ Alive(op[c].pid)
  /\ rows' = Marked({op[c].run}, "stale")
  /\ op' = [op EXCEPT ![c] = Idle]
  /\ UNCHANGED <<manager, crashes, defined, broken, proc, launched, child, starting, deferred, passedOver>>

-----------------------------------------------------------------------------
(* The operating system and the definition files *)

(* An engine exits, of a signal or of itself. A child of this manager      *)
(* stays until it is reaped. Another process may exit as well.             *)
ProcessExits(p) ==
  /\ proc[p].signal \in {"none", "term", "kill"}
  /\ proc' = [proc EXCEPT ![p] =
                IF \E i \in Instances : child[i].pid = p /\ ~child[i].adopted
                THEN [@ EXCEPT !.signal = "zombie"] ELSE Free]
  /\ UNCHANGED <<manager, crashes, child, starting, op>> /\ UNCHANGED durable

(* Another process gets the pid of an engine. *)
PidReused(p) ==
  /\ Available(p)
  /\ \E r \in Runs : rows[r].pid = p
  /\ \E other \in {Stranger, Lookalike} :
       proc' = [proc EXCEPT ![p] = [run |-> other, signal |-> "none"]]
  /\ UNCHANGED <<manager, crashes, child, starting, op>> /\ UNCHANGED durable

(* A definition is created; its file is edited by hand and reloaded:       *)
(* broken, repaired or gone.                                               *)
Define(i) ==
  /\ i \notin defined
  /\ defined' = defined \cup {i} /\ broken' = broken \ {i}
  /\ UNCHANGED <<manager, crashes, proc, rows, launched, child, starting, op, deferred, passedOver>>

Break(i) ==
  /\ i \in defined
  /\ defined' = defined \ {i} /\ broken' = broken \cup {i}
  /\ UNCHANGED <<manager, crashes, proc, rows, launched, child, starting, op, deferred, passedOver>>

Discard(i) ==
  /\ i \in broken
  /\ broken' = broken \ {i}
  /\ UNCHANGED <<manager, crashes, defined, proc, rows, launched, child, starting, op, deferred, passedOver>>

-----------------------------------------------------------------------------
(* The end of the manager and its next start *)

Orphaned(procs) ==
  [p \in Pids |-> IF procs[p].signal = "zombie" THEN Free ELSE procs[p]]

Ends(procs) ==
  /\ crashes < MaxCrashes
  /\ crashes' = crashes + 1
  /\ manager' = "down"
  /\ proc' = Orphaned(procs)
  /\ child' = [i \in Instances |-> NoChild]
  /\ starting' = [i \in Instances |-> FALSE]
  /\ op' = [c \in Callers |-> Idle]
  /\ UNCHANGED <<defined, broken, rows, deferred, passedOver>>

(* A crash, or an exit that leaves the engines running *)
Crash ==
  /\ manager # "down"
  /\ Ends(proc) /\ UNCHANGED launched

(* A crash between spawn and createRun: an engine without a row *)
CrashInLaunch(i, p) ==
  /\ manager # "down" /\ starting[i]
  /\ launched < MaxRuns /\ Available(p)
  /\ launched' = launched + 1
  /\ Ends([proc EXCEPT ![p] = [run |-> launched + 1, signal |-> "none"]])

(* ARRIERO_STOP_MANAGED_ON_EXIT: shutdownSupervisedChildren *)
ShutdownAll ==
  /\ manager = "up"
  /\ manager' = "closing"
  /\ RequestStop(Instances)
  /\ UNCHANGED <<crashes, defined, broken, launched, starting, op, deferred, passedOver>>

(* Each child that was asked is over, or is force-killed at the timeout    *)
(* and waited for once more; then the process exits.                       *)
ShutdownEnds ==
  /\ manager = "closing"
  /\ Ends(Signalled({child[i].pid : i \in {j \in Instances : child[j].status = "stopping"}},
                    "kill"))
  /\ UNCHANGED launched

BadMatchesSnapshot(r) == TRUE
(* processCommandMatchesBinary against the launch snapshot: whatever has   *)
(* the pid now and the binary in its command line, also another engine.    *)
MatchesSnapshot(r) == proc[rows[r].pid].run # Stranger

(* reconcileProcessRuns, over the open rows, the latest first *)
OpenRuns == {r \in Runs : rows[r].status \in OpenStatus}
LiveOpenRuns == {r \in OpenRuns : Alive(rows[r].pid)}
Deferred == {r \in LiveOpenRuns : rows[r].inst \in broken /\ MatchesSnapshot(r)}
Adoptable == {r \in LiveOpenRuns : rows[r].inst \in defined /\ MatchesSnapshot(r)}
BadAdopted == {r \in Adoptable : \A s \in Adoptable : rows[s].inst = rows[r].inst => s >= r}
Adopted == {r \in Adoptable : \A s \in Adoptable : rows[s].inst = rows[r].inst => s <= r}

Boot ==
  /\ manager = "down"
  /\ manager' = "up"
  /\ rows' = [r \in Runs |->
       CASE r \in OpenRuns \ LiveOpenRuns -> [rows[r] EXCEPT !.status = "exited", !.pid = NoPid]
         [] r \in Adopted -> [rows[r] EXCEPT !.status = "running"]
         [] r \in LiveOpenRuns \ (Adoptable \cup Deferred) -> [rows[r] EXCEPT !.status = "stale"]
         [] OTHER -> rows[r]]
  /\ child' = [i \in Instances |->
       LET R == {r \in Adopted : rows[r].inst = i}
       IN IF R = {} THEN NoChild
          ELSE [run |-> LatestOf(R), pid |-> rows[LatestOf(R)].pid, status |-> "running",
                adopted |-> TRUE, timer |-> "off"]]
  /\ deferred' = deferred \cup Deferred
  /\ passedOver' = passedOver \cup (Adoptable \ Adopted)
  /\ UNCHANGED <<crashes, defined, broken, proc, launched, starting, op>>

-----------------------------------------------------------------------------
Init ==
  /\ manager = "up" /\ crashes = 0
  /\ defined = Instances /\ broken = {}
  /\ proc = [p \in Pids |-> Free]
  /\ rows = [r \in Runs |-> NoRow]
  /\ launched = 0
  /\ child = [i \in Instances |-> NoChild]
  /\ starting = [i \in Instances |-> FALSE]
  /\ op = [c \in Callers |-> Idle]
  /\ deferred = {} /\ passedOver = {}

CallStep(c) ==
  \/ CallRefused(c) \/ StartProceeds(c) \/ RestartProceeds(c) \/ ExitWaited(c)
  \/ StaleGone(c) \/ StaleKill(c) \/ StaleGiveUp(c)

Settle(i) ==
  \/ LaunchRefused(i) \/ LaunchFails(i) \/ \E p \in Pids : Launch(i, p)

Next ==
  \/ \E c \in Callers, i \in Instances :
       StartCall(c, i) \/ StopCall(c, i) \/ RestartCall(c, i) \/ DeleteCall(c, i)
  \/ \E c \in Callers : CallStep(c)
  \/ \E i \in Instances :
       ExitEvent(i) \/ AdoptedPoll(i) \/ ForceKill(i) \/ Settle(i)
         \/ Define(i) \/ Break(i) \/ Discard(i)
  \/ \E p \in Pids : ProcessExits(p) \/ PidReused(p)
  \/ \E i \in Instances, p \in Pids : CrashInLaunch(i, p)
  \/ Crash \/ ShutdownAll \/ ShutdownEnds \/ Boot

Spec == Init /\ [][Next]_vars

-----------------------------------------------------------------------------
(* Properties *)

(* Every record keeps its shape: what the manager has in memory, what it   *)
(* has on disk and what the system runs.                                   *)
TypeOK ==
  /\ manager \in {"up", "closing", "down"} /\ crashes \in 0..MaxCrashes
  /\ defined \subseteq Instances /\ broken \subseteq Instances
  /\ proc \in [Pids -> Proc]
  /\ rows \in [Runs -> Row]
  /\ launched \in 0..MaxRuns
  /\ child \in [Instances -> Child]
  /\ starting \in [Instances -> BOOLEAN]
  /\ op \in [Callers -> Op]
  /\ deferred \subseteq Runs /\ passedOver \subseteq Runs

(* The engine of run r runs: it has not exited. *)
Lives(p, r) == r # 0 /\ proc[p].run = r /\ proc[p].signal \in {"none", "term", "kill"}

(* What the manager believes of an engine is the same in memory and on     *)
(* disk: the row of a child that watches is open with its pid and status,  *)
(* unless the instance has been deleted, and that of one that is over is   *)
(* closed, whatever calls, exits and restarts have come between.           *)
RowsAgree ==
  \A i \in Instances :
    LET r == child[i].run IN
    r # 0 /\ rows[r] # NoRow =>
      rows[r].status = child[i].status /\ rows[r].pid = child[i].pid

(* A run that is recorded as over is over: no engine lives on behind a     *)
(* closed row or a child that has ended.                                   *)
OverMeansDead ==
  \A p \in Pids :
    /\ \A r \in Runs : Lives(p, r) => rows[r].status \notin {"exited", "error"}
    /\ \A i \in Instances : Lives(p, child[i].run) => Watching(i) /\ child[i].pid = p

(* Nobody starts a second engine under the first: of the engines of one    *)
(* instance that have a row, all but one have been told to stop. A run     *)
(* left alone because its definition was broken does not count.            *)
OneEngine ==
  \A p, q \in Pids : \A r, s \in Runs \ deferred :
    /\ Lives(p, r) /\ proc[p].signal = "none"
    /\ Lives(q, s) /\ proc[q].signal = "none"
    /\ rows[r] # NoRow /\ rows[s].inst = rows[r].inst
    => r = s

(* While the manager is up, an engine with a row is watched by a child or  *)
(* flagged as stale, or a call in progress is stopping it: no restart,     *)
(* lost race or failed stop leaves one that nobody would notice.  Only a   *)
(* reconcile does: it adopts the latest run of an instance, and an earlier *)
(* one, told to stop by a manager that ended before it was gone, is left.  *)
NobodyForgotten ==
  \A p \in Pids : \A r \in Runs \ deferred :
    /\ manager # "down" /\ Lives(p, r) /\ rows[r] # NoRow
    => \/ rows[r].status = "stale"
       \/ \E i \in Instances : child[i].run = r /\ Watching(i)
       \/ \E c \in Callers : op[c].at \in {"stale", "killed"} /\ op[c].run = r /\ op[c].pid = p
       \/ r \in passedOver /\ proc[p].signal # "none"

(* A process without the engines' binary in its command line is only ever  *)
(* signalled when its pid is that of a run flagged as stale: adoption      *)
(* looks at the command line, and nothing a child does outlives its        *)
(* process.  (A process that has the binary may be adopted, and then       *)
(* stopped, as the engine that had its pid before.)                        *)
SparesOthers ==
  [][\A p \in Pids :
       proc[p].run = Stranger /\ proc[p].signal = "none" /\ proc'[p].signal \in {"term", "kill"}
       => \E r \in Runs : rows[r].status = "stale" /\ rows[r].pid = p]_vars

(* A child that was asked to stop cannot hang: its force-kill timer is     *)
(* armed, or the kill has been sent to its engine, or the engine is gone.  *)
(* SIGTERM may be ignored and calls may ask again at any time, but a child *)
(* sets its timer only once.                                               *)
StopCannotHang ==
  \A i \in Instances : child[i].status = "stopping" =>
    \/ child[i].timer = "armed"
    \/ ~Alive(child[i].pid)
    \/ proc[child[i].pid].signal \in {"kill", "zombie"}
=============================================================================
