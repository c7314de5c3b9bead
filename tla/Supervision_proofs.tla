------------------------- MODULE Supervision_proofs -------------------------
(* Safety of Supervision for every set of instances, pids and callers. *)
EXTENDS Supervision, WellFoundedInduction, TLAPS

-----------------------------------------------------------------------------
(* The inductive invariant *)

(* Nothing is in memory while the manager is down. *)
DownIdle ==
  manager = "down" =>
    /\ \A i \in Instances : child[i] = NoChild /\ ~starting[i]
    /\ \A c \in Callers : op[c] = Idle

(* A run has one process at most, and none before it is launched. *)
OneProcess ==
  \A p \in Pids :
    /\ proc[p].run <= launched
    /\ \A q \in Pids : proc[p].run = proc[q].run /\ proc[p].run \in Runs => p = q

(* Nothing is known of a run that has not been launched. *)
NothingAhead ==
  /\ \A r \in Runs : r > launched => rows[r] = NoRow
  /\ \A i \in Instances : child[i].run <= launched
  /\ \A c \in Callers : op[c].run <= launched

(* The row of a live engine has its pid. *)
RowHasPid ==
  \A p \in Pids : \A r \in Runs : Lives(p, r) /\ rows[r] # NoRow => rows[r].pid = p

(* A child has a run of its own, which is recorded for its instance. *)
ChildOwnsRun ==
  \A i \in Instances : child[i].run # 0 =>
    /\ rows[child[i].run] # NoRow => rows[child[i].run].inst = i
    /\ \A j \in Instances : child[j].run = child[i].run => j = i

(* Under the pid of a watching child is an engine, or what looks like one, *)
(* or nothing any more.                                                    *)
WatchesEngine ==
  \A i \in Instances : Watching(i) =>
    /\ child[i].pid \in Pids
    /\ proc[child[i].pid].run # Stranger \/ proc[child[i].pid] = Free

(* No engine outlives its child. *)
ChildOutlives ==
  \A p \in Pids : \A i \in Instances :
    Lives(p, child[i].run) => Watching(i) /\ child[i].pid = p

(* A call that stops a stale process has the run to itself. *)
Stopping(c) == op[c].at \in {"stale", "killed"}
StopOwnsRun ==
  \A c \in Callers : Stopping(c) =>
    /\ op[c].run \in Runs /\ op[c].pid \in Pids /\ op[c].goal # "start"
    /\ rows[op[c].run] \in {NoRow, [inst |-> op[c].inst, pid |-> op[c].pid, status |-> "stopping"]}
    /\ \A i \in Instances : child[i].run # op[c].run
    /\ \A d \in Callers : Stopping(d) /\ op[d].run = op[c].run => d = c
    /\ Lives(op[c].pid, op[c].run) => proc[op[c].pid].signal # "none"

(* What has the pid has been sent SIGTERM, whatever it is. *)
ToldToStop ==
  \A c \in Callers : Stopping(c) => proc[op[c].pid].signal # "none"

(* An engine nobody has told to stop, with a row a reconcile has judged *)
Undisturbed(p, r) ==
  Lives(p, r) /\ proc[p].signal = "none" /\ rows[r] # NoRow /\ r \notin deferred

(* is flagged as stale or watched. *)
Minded ==
  \A p \in Pids : \A r \in Runs : manager # "down" /\ Undisturbed(p, r) =>
    \/ rows[r].status = "stale"
    \/ \E i \in Instances : child[i].run = r /\ Watching(i)

(* It is the latest run of its instance. *)
Newest ==
  \A p \in Pids : \A r \in Runs : Undisturbed(p, r) =>
    \A s \in Runs : rows[s] # NoRow /\ rows[s].inst = rows[r].inst => s <= r

(* There is none while its instance is being launched. *)
LaunchesAlone ==
  \A i \in Instances : starting[i] =>
    /\ ~Watching(i)
    /\ \A p \in Pids : \A r \in Runs : ~(Undisturbed(p, r) /\ rows[r].inst = i)

(* A call that is past the test for stale processes finds none later on. *)
PastStaleTest(c) ==
  op[c].goal = "start" \/ (op[c].goal = "restart" /\ op[c].at # "preflight")
NoneStale ==
  \A c \in Callers : PastStaleTest(c) =>
    \A p \in Pids : \A r \in Runs :
      Undisturbed(p, r) /\ rows[r].inst = op[c].inst => rows[r].status # "stale"

(* What a call waits for fits what it is for. *)
CallsFit ==
  \A c \in Callers :
    /\ op[c].at \in {"preflight", "launch", "exit", "again"} => op[c].goal \in {"start", "restart"}
    /\ op[c].at \in {"exit", "again"} => op[c].goal = "restart"

(* The force-kill timer is not armed before the child is asked to stop. *)
TimerAfterStop ==
  \A i \in Instances : child[i].status = "running" => child[i].timer = "off"

IInv ==
  /\ TypeOK /\ DownIdle /\ OneProcess /\ NothingAhead /\ RowHasPid
  /\ ChildOwnsRun /\ RowsAgree /\ WatchesEngine /\ ChildOutlives /\ StopOwnsRun /\ ToldToStop
  /\ Newest /\ LaunchesAlone /\ NoneStale /\ Minded /\ NobodyForgotten
  /\ CallsFit /\ TimerAfterStop /\ StopCannotHang

(* What runs under a pid and is not an engine of this manager has no run.  *)
NotEngines == {Stranger, Lookalike}
USE DEF Stranger, Lookalike


-----------------------------------------------------------------------------
(* What the operators on the records do *)

(* Signals leave a process where it is, and never take a signal back. *)
LEMMA Signals ==
  ASSUME proc \in [Pids -> Proc], NEW ps, NEW signal \in {"term", "kill"}
  PROVE  /\ Signalled(ps, signal) \in [Pids -> Proc]
         /\ \A p \in Pids : LET new == Signalled(ps, signal)[p] IN
              /\ new.run = proc[p].run
              /\ new = Free <=> proc[p] = Free
              /\ new.signal \in {"none", "term", "kill"}
                   <=> proc[p].signal \in {"none", "term", "kill"}
              /\ new.signal = "none" => proc[p].signal = "none" /\ p \notin ps
              /\ proc[p].signal \in {"kill", "zombie"} => new = proc[p]
              /\ signal = "kill" /\ p \in ps => new.signal \in {"kill", "zombie", "free"}
<1> DEFINE new == Signalled(ps, signal)
<1>1. ASSUME NEW p \in Pids
      PROVE  /\ new[p] = IF p \in ps /\ proc[p].signal \in {"none", "term"}
                         THEN [proc[p] EXCEPT !.signal = signal] ELSE proc[p]
             /\ proc[p] \in Proc
  BY DEF Signalled
<1>2. ASSUME NEW p \in Pids PROVE new[p] \in Proc
  <2>1. CASE proc[p] = Free
    <3>1. proc[p].signal = "free"
      BY <2>1 DEF Free
    <3> QED
      BY <1>1, <3>1
  <2>2. CASE proc[p] \in [run : -1..MaxRuns, signal : {"none", "term", "kill", "zombie"}]
    BY <1>1, <2>2 DEF Proc
  <2> QED
    BY <1>1, <2>1, <2>2 DEF Proc
<1>3. new \in [Pids -> Proc]
  BY <1>2 DEF Signalled
<1> QED
  BY <1>1, <1>3 DEF Proc, Free

(* updateProcessRun keeps the instance and the pid of an open row. *)
LEMMA Marks ==
  ASSUME rows \in [Runs -> Row], NEW R, NEW status \in OpenStatus,
         \A r \in R : r \in Runs /\ rows[r] # NoRow => rows[r].status \in OpenStatus
  PROVE  /\ Marked(R, status) \in [Runs -> Row]
         /\ \A r \in Runs : LET new == Marked(R, status)[r] IN
              /\ new.inst = rows[r].inst /\ new.pid = rows[r].pid
              /\ new.status = IF r \in R /\ rows[r] # NoRow THEN status ELSE rows[r].status
              /\ new = NoRow <=> rows[r] = NoRow
<1> DEFINE new == Marked(R, status)
<1>1. ASSUME NEW r \in Runs
      PROVE  /\ new[r] = IF r \in R /\ rows[r] # NoRow
                         THEN [rows[r] EXCEPT !.status = status] ELSE rows[r]
             /\ rows[r] \in Row
  BY DEF Marked
<1>2. ASSUME NEW r \in Runs PROVE new[r] \in Row
  <2>1. CASE r \in R /\ rows[r] # NoRow
    <3>1. rows[r] \in [inst : Instances, pid : Pids, status : OpenStatus]
      BY <1>1, <2>1 DEF Row, OpenStatus
    <3> QED
      BY <1>1, <2>1, <3>1 DEF Row
  <2> QED
    BY <1>1, <2>1
<1>3. new \in [Runs -> Row]
  BY <1>2 DEF Marked
<1> QED
  BY <1>1, <1>3 DEF Row, NoRow, OpenStatus

(* Finalizing a run closes its row. *)
LEMMA Closes ==
  ASSUME rows \in [Runs -> Row], NEW r \in Runs, NEW status \in {"exited", "error"}
  PROVE  /\ Closed(r, status) \in [Runs -> Row]
         /\ \A s \in Runs : LET new == Closed(r, status)[s] IN
              /\ new.inst = rows[s].inst
              /\ s # r => new = rows[s]
              /\ rows[r] # NoRow => Closed(r, status)[r].status = status
                                   /\ Closed(r, status)[r].pid = NoPid
              /\ new = NoRow <=> rows[s] = NoRow
<1> DEFINE new == Closed(r, status)
<1>1. ASSUME NEW s \in Runs
      PROVE  /\ new[s] = IF s = r /\ rows[s] # NoRow
                         THEN [rows[s] EXCEPT !.status = status, !.pid = NoPid] ELSE rows[s]
             /\ rows[s] \in Row
  BY DEF Closed
<1>2. ASSUME NEW s \in Runs PROVE new[s] \in Row
  BY <1>1 DEF Row, NoRow
<1>3. new \in [Runs -> Row]
  BY <1>2 DEF Closed
<1>4. ASSUME NEW s \in Runs
      PROVE  /\ new[s].inst = rows[s].inst
             /\ s # r => new[s] = rows[s]
             /\ s = r /\ rows[s] # NoRow => new[s].status = status /\ new[s].pid = NoPid
             /\ new[s] = NoRow <=> rows[s] = NoRow
  <2>1. CASE s = r /\ rows[s] # NoRow
    <3>1. rows[s] \in [inst : Instances, pid : Pids, status : OpenStatus]
            \cup [inst : Instances, pid : {NoPid}, status : {"exited", "error"}]
      BY <1>1, <2>1 DEF Row
    <3>2. /\ new[s].inst = rows[s].inst /\ new[s].status = status /\ new[s].pid = NoPid
      BY <1>1, <2>1, <3>1
    <3>3. NoRow.status = "none"
      BY DEF NoRow
    <3> QED
      BY <2>1, <3>2, <3>3
  <2> QED
    BY <1>1, <2>1
<1> QED
  BY <1>3, <1>4

(* requestStop turns the status of a watching child and arms its timer. *)
LEMMA StopsChildren ==
  ASSUME child \in [Instances -> Child], NEW S \in SUBSET Instances
  PROVE  /\ StopChildren(S) \in [Instances -> Child]
         /\ \A i \in Instances : LET new == StopChildren(S)[i] IN
              /\ new.run = child[i].run /\ new.pid = child[i].pid
              /\ new.status = IF i \in S /\ Watching(i) THEN "stopping" ELSE child[i].status
              /\ i \in S /\ Watching(i) /\ new.timer # "armed" => child[i].timer # "off" /\ new.timer = child[i].timer
              /\ ~(i \in S /\ Watching(i)) => new = child[i]
<1> DEFINE new == StopChildren(S)
<1>1. ASSUME NEW i \in Instances
      PROVE  /\ new[i] = IF i \in S /\ Watching(i)
                         THEN [child[i] EXCEPT !.status = "stopping",
                                               !.timer = IF @ = "off" THEN "armed" ELSE @]
                         ELSE child[i]
             /\ child[i] \in Child
  BY DEF StopChildren
<1>2. ASSUME NEW i \in Instances PROVE new[i] \in Child
  <2>1. CASE child[i] = NoChild
    <3>1. ~Watching(i)
      BY <2>1 DEF NoChild, Watching
    <3> QED
      BY <1>1, <3>1
  <2>2. CASE child[i] \in
          [run : Runs, pid : Pids \cup {NoPid},
           status : {"running", "stopping", "exited", "error"},
           adopted : BOOLEAN, timer : {"off", "armed", "fired"}]
    BY <1>1, <2>2 DEF Child
  <2> QED
    BY <1>1, <2>1, <2>2 DEF Child
<1>3. new \in [Instances -> Child]
  BY <1>2 DEF StopChildren
<1>4. ASSUME NEW i \in Instances
      PROVE  /\ new[i].run = child[i].run /\ new[i].pid = child[i].pid
             /\ new[i].status = IF i \in S /\ Watching(i) THEN "stopping" ELSE child[i].status
             /\ i \in S /\ Watching(i) /\ new[i].timer # "armed"
                  => child[i].timer # "off" /\ new[i].timer = child[i].timer
             /\ ~(i \in S /\ Watching(i)) => new[i] = child[i]
  <2>1. CASE child[i] = NoChild
    BY <1>1, <2>1 DEF NoChild, Watching
  <2>2. CASE child[i] \in
          [run : Runs, pid : Pids \cup {NoPid},
           status : {"running", "stopping", "exited", "error"},
           adopted : BOOLEAN, timer : {"off", "armed", "fired"}]
    BY <1>1, <2>2 DEF Watching
  <2> QED
    BY <1>1, <2>1, <2>2 DEF Child
<1> QED
  BY <1>3, <1>4


-----------------------------------------------------------------------------
(* Type correctness *)

(* The runs a stop is asked of are open. *)
LEMMA AskedOpen ==
  ASSUME TypeOK, RowsAgree, NEW S \in SUBSET Instances
  PROVE  \A r \in AskedRuns(S) : r \in Runs /\ (rows[r] # NoRow => rows[r].status = "running")
<1> SUFFICES ASSUME NEW i \in Asked(S)
             PROVE  /\ child[i].run \in Runs
                    /\ rows[child[i].run] # NoRow => rows[child[i].run].status = "running"
  BY DEF AskedRuns
<1>1. i \in Instances /\ child[i].status = "running" /\ child[i] \in Child
  BY DEF Asked, TypeOK
<1>2. child[i].run \in Runs
  BY <1>1 DEF Child, NoChild
<1>3. child[i].run # 0
  BY <1>2, SupervisionAssumption DEF Runs
<1> QED
  BY <1>1, <1>2, <1>3 DEF RowsAgree

(* Among some runs one is the latest. *)
LEMMA Latest ==
  ASSUME NEW R \in SUBSET Runs, R # {}
  PROVE  \E r \in R : \A s \in R : s <= r
<1> DEFINE D == {MaxRuns - r : r \in R}
           less == OpToRel(<, Nat)
<1>1. \A r \in R : r \in Nat /\ MaxRuns - r \in Nat
  BY SupervisionAssumption DEF Runs
<1>2. D \in SUBSET Nat /\ D # {}
  BY <1>1
<1>3. PICK d \in D : \A e \in D : ~(<<e, d>> \in less)
  <2>1. IsWellFoundedOn(less, Nat)
    BY NatLessThanWellFounded
  <2> HIDE DEF less, D
  <2> QED
    BY <1>2, <2>1, WFMin
<1>4. PICK r \in R : d = MaxRuns - r
  BY <1>3
<1>5. ASSUME NEW s \in R PROVE s <= r
  <2>1. MaxRuns - s \in D /\ ~(MaxRuns - s < MaxRuns - r)
    BY <1>1, <1>3, <1>4 DEF OpToRel
  <2> QED
    BY <1>1, <2>1, SupervisionAssumption
<1> QED
  BY <1>5

(* A stale run has an open row with a pid. *)
LEMMA StaleOpen ==
  ASSUME TypeOK, NEW i \in Instances, StaleRun(i) # 0
  PROVE  /\ StaleRun(i) \in Runs /\ rows[StaleRun(i)].status = "stale"
         /\ rows[StaleRun(i)].inst = i /\ rows[StaleRun(i)].pid \in Pids
         /\ \A s \in StaleRuns(i) : s <= StaleRun(i)
<1>1. StaleRuns(i) # {}
  BY DEF StaleRun, LatestOf
<1>2. \E r \in StaleRuns(i) : \A s \in StaleRuns(i) : s <= r
  BY <1>1, Latest DEF StaleRuns
<1>3. StaleRun(i) \in StaleRuns(i) /\ \A s \in StaleRuns(i) : s <= StaleRun(i)
  BY <1>1, <1>2 DEF StaleRun, LatestOf
<1> QED
  BY <1>3 DEF StaleRuns, Alive


(* What a call in progress is, and a child that exists. *)
LEMMA CallShape ==
  ASSUME TypeOK, NEW c \in Callers, op[c].at # "idle"
  PROVE  op[c] \in [goal : {"start", "stop", "restart", "delete"},
                    at : {"preflight", "launch", "stale", "killed", "exit", "again"},
                    inst : Instances, run : 0..MaxRuns, pid : Pids \cup {NoPid}]
<1>1. op[c] # Idle
  BY DEF Idle
<1> QED
  BY <1>1 DEF TypeOK, Op

(* What a child is that exists *)
LEMMA ChildShape ==
  ASSUME TypeOK, NEW i \in Instances, child[i] # NoChild
  PROVE  child[i] \in [run : Runs, pid : Pids \cup {NoPid},
                       status : {"running", "stopping", "exited", "error"},
                       adopted : BOOLEAN, timer : {"off", "armed", "fired"}]
  BY DEF TypeOK, Child

(* A child that watches exists, and one that exists has a run. *)
LEMMA Watches ==
  ASSUME TypeOK, NEW i \in Instances
  PROVE  /\ Watching(i) => child[i] # NoChild
         /\ child[i].run = 0 <=> child[i] = NoChild
<1> USE SupervisionAssumption
<1>1. CASE child[i] = NoChild
  BY <1>1 DEF NoChild, Watching
<1>2. CASE child[i] # NoChild
  <2>1. child[i].run \in Runs
    BY <1>2, ChildShape
  <2> QED
    BY <1>2, <2>1 DEF Runs
<1> QED
  BY <1>1, <1>2

(* requestStop *)
LEMMA StopTypes ==
  ASSUME TypeOK, RowsAgree, NEW S \in SUBSET Instances, RequestStop(S)
  PROVE  /\ proc' \in [Pids -> Proc] /\ rows' \in [Runs -> Row]
         /\ child' \in [Instances -> Child]
<1>1. \A r \in AskedRuns(S) : r \in Runs /\ (rows[r] # NoRow => rows[r].status = "running")
  BY AskedOpen
<1>2. Marked(AskedRuns(S), "stopping") \in [Runs -> Row]
  BY <1>1, Marks DEF TypeOK, OpenStatus
<1> QED
  BY <1>2, Signals, StopsChildren DEF RequestStop, TypeOK

(* supervisor.start keeps the types of the calls. *)
LEMMA StartTypes ==
  ASSUME TypeOK, NEW c \in Callers, NEW goal \in {"start", "stop", "restart", "delete"},
         NEW i \in Instances,
         SupervisorStart(c, goal, i)
  PROVE  op' \in [Callers -> Op] /\ starting' \in [Instances -> BOOLEAN]
<1>1. Call(goal, "launch", i) \in Op /\ Idle \in Op
  BY SupervisionAssumption DEF Call, Op
<1> QED
  BY <1>1 DEF SupervisorStart, TypeOK

(* finalize keeps the types. *)
LEMMA FinalizeTypes ==
  ASSUME TypeOK, NEW i \in Instances, Watching(i), Finalize(i), proc' \in [Pids -> Proc]
  PROVE  TypeOK'
<1> DEFINE status == IF child[i].status = "stopping" THEN "exited" ELSE "error"
<1>1. child[i] \in [run : Runs, pid : Pids \cup {NoPid},
                    status : {"running", "stopping", "exited", "error"},
                    adopted : BOOLEAN, timer : {"off", "armed", "fired"}]
  BY Watches, ChildShape
<1>2. child' \in [Instances -> Child]
  BY <1>1 DEF Finalize, TypeOK, Child
<1>3. rows' \in [Runs -> Row]
  BY <1>1, Closes DEF Finalize, TypeOK
<1> QED
  BY <1>2, <1>3 DEF Finalize, TypeOK

(* Every step keeps the types. *)
LEMMA Typing == IInv /\ [Next]_vars => TypeOK'
<1> SUFFICES ASSUME IInv, [Next]_vars PROVE TypeOK'
  OBVIOUS
<1> USE SupervisionAssumption
<1>0. TypeOK /\ RowsAgree /\ StopOwnsRun
  BY DEF IInv
<1>1. ASSUME NEW c \in Callers, NEW i \in Instances, StartCall(c, i) PROVE TypeOK'
  BY <1>0, <1>1 DEF TypeOK, StartCall, Op, Call, durable
<1>2. ASSUME NEW c \in Callers, NEW i \in Instances, StopCall(c, i) PROVE TypeOK'
  <2>1. CASE child[i] # NoChild
    <3>1. RequestStop({i}) /\ UNCHANGED op
      BY <1>2, <2>1 DEF StopCall
    <3>2. /\ proc' \in [Pids -> Proc] /\ rows' \in [Runs -> Row]
          /\ child' \in [Instances -> Child]
      BY <1>0, <3>1, StopTypes
    <3> QED
      BY <1>0, <1>2, <3>1, <3>2 DEF StopCall, TypeOK
  <2>2. CASE child[i] = NoChild
    <3>1. /\ StaleRun(i) \in Runs /\ rows[StaleRun(i)].status = "stale"
          /\ rows[StaleRun(i)].pid \in Pids
      BY <1>0, <1>2, <2>2, StaleOpen DEF StopCall
    <3>2. proc' \in [Pids -> Proc] /\ rows' \in [Runs -> Row]
      BY <1>0, <1>2, <2>2, <3>1, Signals, Marks DEF StopCall, TypeOK, OpenStatus
    <3>3. op' \in [Callers -> Op]
      BY <1>0, <1>2, <2>2, <3>1 DEF StopCall, TypeOK, Op, Runs
    <3> QED
      BY <1>0, <1>2, <2>2, <3>2, <3>3 DEF StopCall, TypeOK
  <2> QED
    BY <2>1, <2>2
<1>3. ASSUME NEW c \in Callers, NEW i \in Instances, RestartCall(c, i) PROVE TypeOK'
  BY <1>0, <1>3 DEF TypeOK, RestartCall, Op, Call, durable
<1>4. ASSUME NEW c \in Callers, NEW i \in Instances, DeleteCall(c, i) PROVE TypeOK'
  <2>1. CASE StaleRun(i) = 0
    <3>1. proc' \in [Pids -> Proc] /\ child' \in [Instances -> Child]
      BY <1>0, <1>4, <2>1, Signals, StopsChildren DEF DeleteCall, TypeOK
    <3>2. Marked(AskedRuns({i}), "stopping") \in [Runs -> Row]
      <4>1. \A r \in AskedRuns({i}) : r \in Runs /\ (rows[r] # NoRow => rows[r].status = "running")
        BY <1>0, AskedOpen
      <4> QED
        BY <1>0, <4>1, Marks DEF TypeOK, OpenStatus
    <3>3. rows' \in [Runs -> Row]
      BY <1>0, <1>4, <2>1, <3>2 DEF DeleteCall, Removed, Row
    <3> QED
      BY <1>0, <1>4, <2>1, <3>1, <3>3 DEF DeleteCall, Removed, TypeOK
  <2>2. CASE StaleRun(i) # 0
    <3>1. /\ StaleRun(i) \in Runs /\ rows[StaleRun(i)].status = "stale"
          /\ rows[StaleRun(i)].pid \in Pids
      BY <1>0, <2>2, StaleOpen
    <3>2. proc' \in [Pids -> Proc] /\ child' \in [Instances -> Child]
      BY <1>0, <1>4, <2>2, Signals, StopsChildren DEF DeleteCall, TypeOK
    <3>3. rows' \in [Runs -> Row]
      BY <1>0, <1>4, <2>2, <3>1, AskedOpen, Marks DEF DeleteCall, TypeOK, OpenStatus
    <3>4. op' \in [Callers -> Op]
      BY <1>0, <1>4, <2>2, <3>1 DEF DeleteCall, TypeOK, Op, Runs
    <3> QED
      BY <1>0, <1>4, <2>2, <3>2, <3>3, <3>4 DEF DeleteCall, TypeOK
  <2> QED
    BY <2>1, <2>2
<1>5. ASSUME NEW c \in Callers, CallRefused(c) PROVE TypeOK'
  BY <1>0, <1>5 DEF TypeOK, CallRefused, Op, durable
<1>6. ASSUME NEW c \in Callers, StartProceeds(c) PROVE TypeOK'
  <2>1. op[c].inst \in Instances /\ op[c].goal \in {"start", "stop", "restart", "delete"}
    BY <1>0, <1>6, CallShape DEF StartProceeds
  <2> QED
    BY <1>0, <1>6, <2>1, StartTypes DEF StartProceeds, TypeOK, durable
<1>7. ASSUME NEW c \in Callers, RestartProceeds(c) PROVE TypeOK'
  <2> DEFINE i == op[c].inst
             r == StaleRun(i)
  <2>1. i \in Instances
    BY <1>0, <1>7 DEF RestartProceeds, TypeOK, Op, Idle
  <2>5. op[c] \in [goal : {"start", "stop", "restart", "delete"},
                    at : {"preflight", "launch", "stale", "killed", "exit", "again"},
                    inst : Instances, run : 0..MaxRuns, pid : Pids \cup {NoPid}]
    BY <1>0, <1>7, CallShape DEF RestartProceeds
  <2>2. CASE r # 0
    <3>1. r \in Runs /\ rows[r].status = "stale" /\ rows[r].pid \in Pids
      BY <1>0, <2>1, <2>2, StaleOpen
    <3>2. proc' \in [Pids -> Proc] /\ rows' \in [Runs -> Row]
      BY <1>0, <1>7, <2>2, <3>1, Signals, Marks DEF RestartProceeds, TypeOK, OpenStatus
    <3>3. op' \in [Callers -> Op]
      <4>1. [op[c] EXCEPT !.at = "stale", !.run = r, !.pid = rows[r].pid] \in Op
        <5>1. r \in 0..MaxRuns
          BY <3>1 DEF Runs
        <5> HIDE DEF r
        <5>2. [op[c] EXCEPT !.at = "stale", !.run = r, !.pid = rows[r].pid] \in
                [goal : {"start", "stop", "restart", "delete"},
                 at : {"preflight", "launch", "stale", "killed", "exit", "again"},
                 inst : Instances, run : 0..MaxRuns, pid : Pids \cup {NoPid}]
          BY <2>5, <3>1, <5>1
        <5> QED
          BY <5>2 DEF Op
      <4> QED
        BY <1>0, <1>7, <2>2, <4>1 DEF RestartProceeds, TypeOK
    <3> QED
      BY <1>0, <1>7, <2>2, <3>2, <3>3 DEF RestartProceeds, TypeOK
  <2>3. CASE r = 0 /\ Watching(i)
    <3>1. op' \in [Callers -> Op]
      <4>1. child[i].run \in Runs
        BY <1>0, <2>1, <2>3, Watches, ChildShape
      <4>2. [op[c] EXCEPT !.at = "exit", !.run = child[i].run] \in Op
        <5>1. child[i].run \in 0..MaxRuns
          BY <4>1 DEF Runs
        <5>2. [op[c] EXCEPT !.at = "exit", !.run = child[i].run] \in
                [goal : {"start", "stop", "restart", "delete"},
                 at : {"preflight", "launch", "stale", "killed", "exit", "again"},
                 inst : Instances, run : 0..MaxRuns, pid : Pids \cup {NoPid}]
          BY <2>5, <5>1
        <5> QED
          BY <5>2 DEF Op
      <4> QED
        BY <1>0, <1>7, <2>3, <4>2 DEF RestartProceeds, TypeOK
    <3>2. /\ proc' \in [Pids -> Proc] /\ rows' \in [Runs -> Row]
          /\ child' \in [Instances -> Child]
      BY <1>0, <1>7, <2>1, <2>3, StopTypes DEF RestartProceeds
    <3> QED
      BY <1>0, <1>7, <2>3, <3>1, <3>2 DEF RestartProceeds, TypeOK
  <2>4. CASE r = 0 /\ ~Watching(i)
    BY <1>0, <1>7, <2>1, <2>4, StartTypes DEF RestartProceeds, TypeOK
  <2> QED
    BY <2>2, <2>3, <2>4
<1>8. ASSUME NEW c \in Callers, ExitWaited(c) PROVE TypeOK'
  <2>1. op[c].inst \in Instances
    BY <1>0, <1>8 DEF ExitWaited, TypeOK, Op, Idle
  <2> QED
    BY <1>0, <1>8, <2>1, StartTypes DEF ExitWaited, TypeOK, durable
<1>9. ASSUME NEW c \in Callers, StaleGone(c) PROVE TypeOK'
  <2>1. op[c].run \in Runs /\ op[c].inst \in Instances
    BY <1>0, <1>9, CallShape DEF StaleGone, StopOwnsRun, Stopping
  <2>2. Closed(op[c].run, "exited") \in [Runs -> Row]
    BY <1>0, <2>1, Closes DEF TypeOK
  <2>3. Idle \in Op /\ Call("restart", "again", op[c].inst) \in Op
    BY <2>1 DEF Op, Call
  <2>4. op[c].goal \in {"stop", "restart", "delete"}
    BY <1>0, <1>9, CallShape DEF StaleGone, StopOwnsRun, Stopping
  <2>5. CASE op[c].goal = "stop"
    BY <1>0, <1>9, <2>2, <2>3, <2>5 DEF StaleGone, TypeOK
  <2>6. CASE op[c].goal = "restart"
    BY <1>0, <1>9, <2>2, <2>3, <2>6 DEF StaleGone, TypeOK
  <2>7. CASE op[c].goal = "delete"
    BY <1>0, <1>9, <2>2, <2>3, <2>7 DEF StaleGone, Removed, TypeOK, Row
  <2> QED
    BY <2>4, <2>5, <2>6, <2>7
<1>10. ASSUME NEW c \in Callers, StaleKill(c) PROVE TypeOK'
  <2>1. op' \in [Callers -> Op]
    BY <1>0, <1>10 DEF StaleKill, TypeOK, Op, Idle
  <2> QED
    BY <1>0, <1>10, <2>1, Signals DEF StaleKill, TypeOK, durable
<1>11. ASSUME NEW c \in Callers, StaleGiveUp(c) PROVE TypeOK'
  <2>1. op[c].run \in Runs /\ (rows[op[c].run] # NoRow => rows[op[c].run].status = "stopping")
    <3>1. Stopping(c)
      BY <1>11 DEF StaleGiveUp, Stopping
    <3>2. rows[op[c].run] \in {NoRow, [inst |-> op[c].inst, pid |-> op[c].pid, status |-> "stopping"]}
      BY <1>0, <3>1 DEF StopOwnsRun
    <3> QED
      BY <1>0, <3>1, <3>2 DEF StopOwnsRun
  <2>2. rows' \in [Runs -> Row]
    BY <1>0, <1>11, <2>1, Marks DEF StaleGiveUp, TypeOK, OpenStatus
  <2> QED
    BY <1>0, <1>11, <2>2 DEF StaleGiveUp, TypeOK, Op
<1>12. ASSUME NEW i \in Instances, ExitEvent(i) PROVE TypeOK'
  <2>1. proc' \in [Pids -> Proc]
    BY <1>0, <1>12 DEF ExitEvent, TypeOK, Proc
  <2> QED
    BY <1>0, <1>12, <2>1, FinalizeTypes DEF ExitEvent, TypeOK
<1>13. ASSUME NEW i \in Instances, AdoptedPoll(i) PROVE TypeOK'
  BY <1>0, <1>13, FinalizeTypes DEF AdoptedPoll, TypeOK
<1>14. ASSUME NEW i \in Instances, ForceKill(i) PROVE TypeOK'
  <2>1. child' \in [Instances -> Child]
    BY <1>0, <1>14 DEF ForceKill, TypeOK, Child, NoChild
  <2> QED
    BY <1>0, <1>14, <2>1, Signals DEF ForceKill, TypeOK
<1>15. ASSUME NEW i \in Instances, LaunchRefused(i) PROVE TypeOK'
  BY <1>0, <1>15 DEF TypeOK, LaunchRefused, Returned, Op, Idle
<1>16. ASSUME NEW i \in Instances, LaunchFails(i) PROVE TypeOK'
  BY <1>0, <1>16 DEF TypeOK, LaunchFails, Returned, Op, Idle, Runs, Row, Child
<1>17. ASSUME NEW i \in Instances, NEW p \in Pids, Launch(i, p) PROVE TypeOK'
  BY <1>0, <1>17 DEF TypeOK, Launch, Returned, Available, Op, Idle, Runs, Row, Child, Proc, OpenStatus
<1>18. ASSUME NEW i \in Instances, Define(i) PROVE TypeOK'
  BY <1>0, <1>18 DEF TypeOK, Define
<1>19. ASSUME NEW i \in Instances, Break(i) PROVE TypeOK'
  BY <1>0, <1>19 DEF TypeOK, Break
<1>20. ASSUME NEW i \in Instances, Discard(i) PROVE TypeOK'
  BY <1>0, <1>20 DEF TypeOK, Discard
<1>21. ASSUME NEW p \in Pids, ProcessExits(p) PROVE TypeOK'
  <2>1. proc[p] # Free /\ proc[p] \in Proc
    BY <1>0, <1>21 DEF ProcessExits, Free, TypeOK
  <2>2. [proc[p] EXCEPT !.signal = "zombie"] \in Proc /\ Free \in Proc
    BY <2>1 DEF Proc
  <2> QED
    BY <1>0, <1>21, <2>2 DEF TypeOK, ProcessExits, durable
<1>22. ASSUME NEW p \in Pids, PidReused(p) PROVE TypeOK'
  <2>1. PICK other \in NotEngines : proc' = [proc EXCEPT ![p] = [run |-> other, signal |-> "none"]]
    BY <1>22 DEF PidReused, NotEngines
  <2>2. [run |-> other, signal |-> "none"] \in Proc
    BY SupervisionAssumption DEF Proc, NotEngines
  <2> QED
    BY <1>0, <1>22, <2>1, <2>2 DEF TypeOK, PidReused, durable
<1>23. ASSUME NEW i \in Instances, NEW p \in Pids, CrashInLaunch(i, p) PROVE TypeOK'
  BY <1>0, <1>23 DEF TypeOK, CrashInLaunch, Ends, Available, Orphaned, Proc, Child, Op
<1>24. ASSUME Crash PROVE TypeOK'
  BY <1>0, <1>24 DEF TypeOK, Crash, Ends, Orphaned, Proc, Child, Op
<1>25. ASSUME ShutdownAll PROVE TypeOK'
  BY <1>0, <1>25, StopTypes DEF ShutdownAll, TypeOK
<1>26. ASSUME ShutdownEnds PROVE TypeOK'
  <2> DEFINE S == {child[i].pid : i \in {j \in Instances : child[j].status = "stopping"}}
  <2>1. Signalled(S, "kill") \in [Pids -> Proc]
    BY <1>0, Signals DEF TypeOK
  <2>2. proc' \in [Pids -> Proc]
    BY <1>0, <1>26, <2>1 DEF ShutdownEnds, Ends, Orphaned, Proc
  <2> QED
    BY <1>0, <1>26, <2>2 DEF ShutdownEnds, Ends, TypeOK, Child, Op
<1>27. ASSUME Boot PROVE TypeOK'
  <2>1. rows' \in [Runs -> Row]
    <3>1. ASSUME NEW r \in OpenRuns
          PROVE  rows[r] \in [inst : Instances, pid : Pids, status : OpenStatus]
      BY <1>0 DEF OpenRuns, TypeOK, Row, NoRow, OpenStatus
    <3>2. ASSUME NEW r \in Runs PROVE rows'[r] \in Row
      <4>1. CASE r \notin OpenRuns
        BY <1>0, <1>27, <4>1 DEF Boot, LiveOpenRuns, Adopted, Adoptable, TypeOK
      <4>2. CASE r \in OpenRuns
        BY <1>0, <1>27, <3>1, <4>2 DEF Boot, TypeOK, Row, OpenStatus
      <4> QED
        BY <4>1, <4>2
    <3> QED
      BY <1>27, <3>2 DEF Boot
  <2>2. child' \in [Instances -> Child]
    <3>1. ASSUME NEW i \in Instances PROVE child'[i] \in Child
      <4> DEFINE R == {r \in Adopted : rows[r].inst = i}
      <4>1. CASE R = {}
        BY <1>0, <1>27, <4>1 DEF Boot, Child
      <4>2. CASE R # {}
        <5>1. LatestOf(R) \in R
          BY <4>2, Latest DEF LatestOf, Adopted, Adoptable, LiveOpenRuns, OpenRuns
        <5>2. LatestOf(R) \in Runs /\ rows[LatestOf(R)].pid \in Pids
          BY <5>1 DEF Adopted, Adoptable, LiveOpenRuns, OpenRuns, Alive
        <5> QED
          BY <1>0, <1>27, <4>2, <5>2 DEF Boot, Child
      <4> QED
        BY <4>1, <4>2
    <3> QED
      BY <1>0, <1>27, <3>1 DEF Boot
  <2>3. Deferred \subseteq Runs /\ Adoptable \subseteq Runs
    BY DEF Deferred, Adoptable, LiveOpenRuns, OpenRuns
  <2> QED
    BY <1>0, <1>27, <2>1, <2>2, <2>3 DEF Boot, TypeOK
<1>28. CASE UNCHANGED vars
  BY <1>0, <1>28 DEF TypeOK, vars
<1> QED
  BY <1>1, <1>2, <1>3, <1>4, <1>5, <1>6, <1>7, <1>8, <1>9, <1>10, <1>11, <1>12, <1>13, <1>14, <1>15, <1>16, <1>17, <1>18, <1>19, <1>20, <1>21, <1>22, <1>23, <1>24, <1>25, <1>26, <1>27, <1>28 DEF Next, CallStep, Settle

-----------------------------------------------------------------------------
(* The kinds of steps *)

(* Processes and children are at most told to stop, rows are deleted or    *)
(* marked as stopping.                                                     *)
OnlySignalled ==
  /\ UNCHANGED <<launched, deferred, crashes>>
  /\ manager' = "down" <=> manager = "down"
  /\ manager = "down" => UNCHANGED <<child, starting, op>>
  /\ \A p \in Pids :
       /\ proc'[p].run = proc[p].run
       /\ proc'[p] = Free <=> proc[p] = Free
       /\ proc'[p].signal \in {"none", "term", "kill"} <=> proc[p].signal \in {"none", "term", "kill"}
       /\ proc'[p].signal = "none" => proc[p].signal = "none"
       /\ proc[p].signal \in {"kill", "zombie"} => proc'[p] = proc[p]
  /\ \A r \in Runs : rows'[r] # NoRow =>
       /\ rows[r] # NoRow
       /\ rows'[r].inst = rows[r].inst /\ rows'[r].pid = rows[r].pid
       /\ \/ rows'[r].status = rows[r].status
          \/ /\ rows'[r].status = "stopping"
             /\ \/ rows[r].status = "running"
                \/ rows[r].pid \in Pids /\ proc'[rows[r].pid].signal # "none"
  /\ \A i \in Instances :
       /\ child'[i].run = child[i].run /\ child'[i].pid = child[i].pid
       /\ Watching(i)' <=> Watching(i)
       /\ child'[i].status \in {child[i].status, "stopping"}
       /\ child[i].run \in Runs /\ rows'[child[i].run] # NoRow =>
            \/ /\ child'[i].status = child[i].status
               /\ rows'[child[i].run].status = rows[child[i].run].status
            \/ /\ child'[i].status = "stopping"
               /\ rows'[child[i].run].status = "stopping"
       /\ child'[i].status = "running" => child'[i].timer = child[i].timer
       /\ child'[i].status = "stopping" =>
            \/ child'[i].timer = "armed"
            \/ child'[i].timer = child[i].timer /\ child[i].status = "stopping"
            \/ child[i].pid \in Pids => proc'[child[i].pid].signal \in {"kill", "zombie", "free"}

(* The manager has ended. *)
Ended ==
  /\ manager' = "down"
  /\ child' = [i \in Instances |-> NoChild]
  /\ starting' = [i \in Instances |-> FALSE]
  /\ op' = [c \in Callers |-> Idle]
  /\ UNCHANGED <<rows, deferred, passedOver>>
  /\ launched' \in {launched, launched + 1}
  /\ \A p \in Pids :
       \/ /\ proc'[p].run = proc[p].run
          /\ proc'[p].signal \in {"none", "term", "kill"} => proc[p].signal \in {"none", "term", "kill"}
          /\ proc'[p].signal = "none" => proc[p].signal = "none"
       \/ proc'[p].run \in NotEngines
       \/ proc'[p].run = launched + 1 /\ launched' = launched + 1
  /\ \A p, q \in Pids :
       proc'[p].run = launched + 1 /\ proc'[q].run = launched + 1 => p = q

(* Some children are told to stop, and the processes of some stale runs. *)
LEMMA Tells ==
  ASSUME TypeOK, RowsAgree, ChildOwnsRun, TimerAfterStop,
         NEW S \in SUBSET Instances, NEW R \in SUBSET Runs, NEW ps,
         \A r \in R : rows[r].status = "stale" /\ rows[r].pid \in Pids /\ rows[r].pid \in ps,
         child' = StopChildren(S), proc' = Signalled(ps, "term"),
         \A r \in Runs : rows'[r] # NoRow =>
           /\ rows[r] # NoRow
           /\ rows'[r].inst = rows[r].inst /\ rows'[r].pid = rows[r].pid
           /\ rows'[r].status = IF r \in AskedRuns(S) \cup R THEN "stopping" ELSE rows[r].status,
         UNCHANGED <<launched, deferred, crashes>>, manager # "down", manager' # "down"
  PROVE  OnlySignalled
<1> USE SupervisionAssumption
<1>1. \A r \in AskedRuns(S) : r \in Runs /\ (rows[r] # NoRow => rows[r].status = "running")
  BY AskedOpen
<1>2. \A p \in Pids :
        /\ proc'[p].run = proc[p].run
        /\ proc'[p] = Free <=> proc[p] = Free
        /\ proc'[p].signal \in {"none", "term", "kill"} <=> proc[p].signal \in {"none", "term", "kill"}
        /\ proc'[p].signal = "none" => proc[p].signal = "none" /\ p \notin ps
        /\ proc[p].signal \in {"kill", "zombie"} => proc'[p] = proc[p]
  BY Signals DEF TypeOK
<1>3. ASSUME NEW r \in Runs, rows'[r] # NoRow
      PROVE  \/ rows'[r].status = rows[r].status
             \/ /\ rows'[r].status = "stopping"
                /\ \/ rows[r].status = "running"
                   \/ rows[r].pid \in Pids /\ proc'[rows[r].pid].signal # "none"
  BY <1>1, <1>2, <1>3
<1>4. ASSUME NEW i \in Instances
      PROVE  /\ child'[i].run = child[i].run /\ child'[i].pid = child[i].pid
             /\ Watching(i)' <=> Watching(i)
             /\ child'[i].status = "running" => child'[i].timer = child[i].timer
             /\ child'[i].status = "stopping" =>
                  \/ child'[i].timer = "armed"
                  \/ child'[i].timer = child[i].timer /\ child[i].status = "stopping"
             /\ child'[i].status = IF i \in S /\ Watching(i) THEN "stopping" ELSE child[i].status
  BY StopsChildren DEF TypeOK, Watching, TimerAfterStop
<1>5. ASSUME NEW i \in Instances, child[i].run \in Runs, rows'[child[i].run] # NoRow
      PROVE  \/ /\ child'[i].status = child[i].status
                /\ rows'[child[i].run].status = rows[child[i].run].status
             \/ /\ child'[i].status = "stopping"
                /\ rows'[child[i].run].status = "stopping"
  <2>1. child[i].run # 0 /\ child[i].run \notin R
    <3>1. child[i].run # 0
      BY <1>5 DEF Runs
    <3>2. rows[child[i].run].status = child[i].status
      BY <1>5, <3>1 DEF RowsAgree
    <3>3. child[i].status # "stale"
      BY <3>1, Watches, ChildShape
    <3> QED
      BY <3>1, <3>2, <3>3
  <2>2. child[i].run \in AskedRuns(S) <=> i \in Asked(S)
    BY <2>1 DEF AskedRuns, Asked, ChildOwnsRun
  <2>3. CASE i \in Asked(S)
    BY <1>4, <1>5, <2>2, <2>3 DEF Asked, Watching
  <2>4. CASE i \notin Asked(S)
    BY <1>4, <1>5, <2>1, <2>2, <2>4 DEF Asked, Watching
  <2> QED
    BY <2>3, <2>4
<1> QED
  BY <1>2, <1>3, <1>4, <1>5 DEF OnlySignalled

(* The children of some instances are asked to stop. *)
LEMMA StopSignals ==
  ASSUME TypeOK, RowsAgree, ChildOwnsRun, TimerAfterStop,
         NEW S \in SUBSET Instances, RequestStop(S),
         UNCHANGED <<launched, deferred, crashes>>, manager # "down", manager' # "down"
  PROVE  OnlySignalled
<1>1. \A r \in AskedRuns(S) : r \in Runs /\ (rows[r] # NoRow => rows[r].status = "running")
  BY AskedOpen
<1>2. \A r \in Runs : rows'[r] # NoRow =>
        /\ rows[r] # NoRow
        /\ rows'[r].inst = rows[r].inst /\ rows'[r].pid = rows[r].pid
        /\ rows'[r].status = IF r \in AskedRuns(S) \cup {} THEN "stopping" ELSE rows[r].status
  BY <1>1, Marks DEF RequestStop, TypeOK, OpenStatus
<1>3. child' = StopChildren(S) /\ proc' = Signalled(AskedPids(S), "term")
  BY DEF RequestStop
<1> QED
  BY <1>2, <1>3, Tells

(* A stale process is asked to stop. *)
LEMMA StaleSignals ==
  ASSUME TypeOK, RowsAgree, ChildOwnsRun, TimerAfterStop, NEW i \in Instances, StaleRun(i) # 0,
         proc' = Signalled({rows[StaleRun(i)].pid}, "term"),
         rows' = Marked({StaleRun(i)}, "stopping"),
         UNCHANGED <<launched, deferred, crashes, child, manager>>, manager # "down"
  PROVE  OnlySignalled
<1>1. StaleRun(i) \in Runs /\ rows[StaleRun(i)].status = "stale" /\ rows[StaleRun(i)].pid \in Pids
  BY StaleOpen
<1>2. AskedRuns({}) = {}
  BY DEF AskedRuns, Asked
<1>3. \A r \in Runs : rows'[r] # NoRow =>
        /\ rows[r] # NoRow
        /\ rows'[r].inst = rows[r].inst /\ rows'[r].pid = rows[r].pid
        /\ rows'[r].status = IF r \in AskedRuns({}) \cup {StaleRun(i)}
                             THEN "stopping" ELSE rows[r].status
  BY <1>1, <1>2, Marks DEF TypeOK, OpenStatus
<1>4. child' = StopChildren({})
  BY DEF StopChildren, TypeOK
<1>5. {StaleRun(i)} \in SUBSET Runs /\ {} \in SUBSET Instances
  BY <1>1
<1>6. \A r \in {StaleRun(i)} : /\ rows[r].status = "stale" /\ rows[r].pid \in Pids
                                /\ rows[r].pid \in {rows[StaleRun(i)].pid}
  BY <1>1
<1> QED
  BY <1>3, <1>4, <1>5, <1>6, Tells

(* Every step is of one of these kinds. *)
LEMMA Kinds ==
  ASSUME IInv, [Next]_vars
  PROVE  \/ OnlySignalled \/ Ended \/ Boot
         \/ \E c \in Callers : StaleGone(c) \/ StaleGiveUp(c)
         \/ \E i \in Instances : ExitEvent(i) \/ AdoptedPoll(i) \/ LaunchFails(i)
         \/ \E i \in Instances, p \in Pids : Launch(i, p)
         \/ \E p \in Pids : ProcessExits(p) \/ PidReused(p)
<1> USE SupervisionAssumption
<1>0. TypeOK /\ RowsAgree /\ DownIdle /\ ChildOwnsRun /\ TimerAfterStop
  BY DEF IInv
<1>1. ASSUME UNCHANGED <<manager, crashes, proc, rows, launched, child, deferred, passedOver>>,
             manager = "down" => UNCHANGED <<starting, op>>
      PROVE  OnlySignalled
  BY <1>1 DEF OnlySignalled, Watching
<1>2. ASSUME NEW c \in Callers, NEW i \in Instances, StopCall(c, i) PROVE OnlySignalled
  <2>1. CASE child[i] # NoChild
    <3>1. RequestStop({i}) /\ manager # "down" /\ UNCHANGED <<manager, launched, deferred, crashes>>
      BY <1>2, <2>1 DEF StopCall
    <3> QED
      BY <1>0, <3>1, StopSignals
  <2>2. CASE child[i] = NoChild
    BY <1>0, <1>2, <2>2, StaleSignals DEF StopCall
  <2> QED
    BY <2>1, <2>2
<1>3. ASSUME NEW c \in Callers, RestartProceeds(c) PROVE OnlySignalled
  <2>1. op[c].inst \in Instances
    BY <1>0, <1>3, CallShape DEF RestartProceeds
  <2>2. CASE StaleRun(op[c].inst) # 0
    BY <1>0, <1>3, <2>1, <2>2, StaleSignals DEF RestartProceeds
  <2>3. CASE StaleRun(op[c].inst) = 0 /\ Watching(op[c].inst)
    <3>1. RequestStop({op[c].inst}) /\ manager # "down" /\ UNCHANGED <<manager, launched, deferred, crashes>>
      BY <1>3, <2>3 DEF RestartProceeds
    <3> QED
      BY <1>0, <2>1, <3>1, StopSignals
  <2>4. CASE StaleRun(op[c].inst) = 0 /\ ~Watching(op[c].inst)
    BY <1>1, <1>3, <2>4 DEF RestartProceeds
  <2> QED
    BY <2>2, <2>3, <2>4
<1>4. ASSUME NEW c \in Callers, NEW i \in Instances, DeleteCall(c, i) PROVE OnlySignalled
  <2>1. /\ child' = StopChildren({i}) /\ manager # "down"
        /\ UNCHANGED <<manager, launched, deferred, crashes>>
    BY <1>4 DEF DeleteCall
  <2>2. \A r \in AskedRuns({i}) : r \in Runs /\ (rows[r] # NoRow => rows[r].status = "running")
    BY <1>0, AskedOpen
  <2>3. rows \in [Runs -> Row] /\ "stopping" \in OpenStatus /\ {i} \in SUBSET Instances
    BY <1>0 DEF TypeOK, OpenStatus
  <2>4. CASE StaleRun(i) = 0
    <3> DEFINE table == Marked(AskedRuns({i}), "stopping")
               R == AskedRuns({i})
    <3>1. rows' \in {table, [r \in Runs |-> IF table[r].inst = i THEN NoRow ELSE table[r]]}
      BY <1>4, <2>4 DEF DeleteCall, Removed
    <3>2. \A r \in Runs :
            /\ table[r].inst = rows[r].inst /\ table[r].pid = rows[r].pid
            /\ table[r].status = IF r \in R /\ rows[r] # NoRow THEN "stopping" ELSE rows[r].status
            /\ table[r] = NoRow <=> rows[r] = NoRow
      <4>1. \A r \in R : r \in Runs /\ (rows[r] # NoRow => rows[r].status \in OpenStatus)
        BY <2>2 DEF OpenStatus
      <4>2. table = Marked(R, "stopping")
        OBVIOUS
      <4> HIDE DEF R, table
      <4> QED
        BY <2>3, <4>1, <4>2, Marks
    <3> HIDE DEF table
    <3>3. \A r \in Runs : rows'[r] # NoRow =>
            /\ rows[r] # NoRow
            /\ rows'[r].inst = rows[r].inst /\ rows'[r].pid = rows[r].pid
            /\ rows'[r].status = IF r \in AskedRuns({i}) \cup {} THEN "stopping" ELSE rows[r].status
      BY <3>1, <3>2
    <3>4. proc' = Signalled(AskedPids({i}), "term")
      BY <1>4, <2>4 DEF DeleteCall
    <3> QED
      BY <1>0, <2>1, <2>3, <3>3, <3>4, Tells
  <2>5. CASE StaleRun(i) # 0
    <3> DEFINE r == StaleRun(i)
               R == {r} \cup AskedRuns({i})
               ps == {rows[r].pid} \cup AskedPids({i})
    <3>1. r \in Runs /\ rows[r].status = "stale" /\ rows[r].pid \in Pids
      BY <1>0, <2>5, StaleOpen
    <3>2. rows' = Marked(R, "stopping") /\ proc' = Signalled(ps, "term")
      BY <1>4, <2>5 DEF DeleteCall
    <3>3. \A s \in R : s \in Runs /\ (rows[s] # NoRow => rows[s].status \in OpenStatus)
      BY <2>2, <3>1 DEF OpenStatus
    <3>4. {r} \in SUBSET Runs /\ \A s \in {r} : /\ rows[s].status = "stale" /\ rows[s].pid \in Pids
                                                /\ rows[s].pid \in ps
      BY <3>1
    <3>5. R = AskedRuns({i}) \cup {r}
      OBVIOUS
    <3> HIDE DEF R, r, ps
    <3>6. \A s \in Runs : rows'[s] # NoRow =>
            /\ rows[s] # NoRow
            /\ rows'[s].inst = rows[s].inst /\ rows'[s].pid = rows[s].pid
            /\ rows'[s].status = IF s \in AskedRuns({i}) \cup {r} THEN "stopping" ELSE rows[s].status
      <4>1. \A s \in Runs :
              /\ rows'[s].inst = rows[s].inst /\ rows'[s].pid = rows[s].pid
              /\ rows'[s].status = IF s \in R /\ rows[s] # NoRow THEN "stopping" ELSE rows[s].status
              /\ rows'[s] = NoRow <=> rows[s] = NoRow
        BY <2>3, <3>2, <3>3, Marks
      <4> QED
        BY <3>5, <4>1
    <3> QED
      BY <1>0, <2>1, <2>3, <3>2, <3>4, <3>6, Tells
  <2> QED
    BY <2>4, <2>5
<1>5. ASSUME NEW c \in Callers, StaleKill(c) PROVE OnlySignalled
  BY <1>0, <1>5, Signals DEF StaleKill, OnlySignalled, TypeOK, Watching, durable
<1>6. ASSUME NEW i \in Instances, ForceKill(i) PROVE OnlySignalled
  <2>1. \A j \in Instances :
          /\ child'[j].run = child[j].run /\ child'[j].pid = child[j].pid
          /\ child'[j].status = child[j].status
          /\ j # i => child'[j].timer = child[j].timer
    BY <1>0, <1>6 DEF ForceKill, TypeOK
  <2>2. manager # "down"
    BY <1>0, <1>6 DEF ForceKill, DownIdle, NoChild
  <2>3. /\ proc' = Signalled({child[i].pid}, "kill") /\ child[i].status = "stopping"
        /\ UNCHANGED <<manager, crashes, rows, launched, deferred, passedOver>>
    BY <1>6 DEF ForceKill
  <2>4. \A p \in Pids :
          /\ proc'[p].run = proc[p].run
          /\ proc'[p] = Free <=> proc[p] = Free
          /\ proc'[p].signal \in {"none", "term", "kill"} <=> proc[p].signal \in {"none", "term", "kill"}
          /\ proc'[p].signal = "none" => proc[p].signal = "none"
          /\ proc[p].signal \in {"kill", "zombie"} => proc'[p] = proc[p]
          /\ p = child[i].pid => proc'[p].signal \in {"kill", "zombie", "free"}
    BY <1>0, <2>3, Signals DEF TypeOK
  <2> QED
    BY <1>0, <2>1, <2>2, <2>3, <2>4 DEF OnlySignalled, Watching
<1>7. ASSUME ShutdownAll PROVE OnlySignalled
  BY <1>0, <1>7, StopSignals DEF ShutdownAll
<1>8. ASSUME Crash PROVE Ended
  BY <1>0, <1>8 DEF Crash, Ends, Ended, Orphaned, TypeOK, Free, IInv, OneProcess, NotEngines
<1>9. ASSUME NEW i \in Instances, NEW p \in Pids, CrashInLaunch(i, p) PROVE Ended
  BY <1>0, <1>9 DEF CrashInLaunch, Ends, Ended, Orphaned, TypeOK, Free, Proc, IInv, OneProcess,
     NotEngines
<1>10. ASSUME ShutdownEnds PROVE Ended
  BY <1>0, <1>10, Signals DEF ShutdownEnds, Ends, Ended, Orphaned, TypeOK, Free, IInv, OneProcess,
     NotEngines
<1>11. ASSUME NEW c \in Callers, NEW i \in Instances, StartCall(c, i) \/ RestartCall(c, i)
       PROVE  OnlySignalled
  BY <1>1, <1>11 DEF StartCall, RestartCall, durable
<1>12. ASSUME NEW c \in Callers, CallRefused(c) \/ StartProceeds(c) \/ ExitWaited(c)
       PROVE  OnlySignalled
  BY <1>1, <1>12 DEF CallRefused, StartProceeds, ExitWaited, durable
<1>13. ASSUME NEW i \in Instances, LaunchRefused(i) \/ Define(i) \/ Break(i) \/ Discard(i)
       PROVE  OnlySignalled
  BY <1>1, <1>13 DEF LaunchRefused, Define, Break, Discard
<1>14. CASE UNCHANGED vars
  BY <1>1, <1>14 DEF vars
<1> QED
  BY <1>2, <1>3, <1>4, <1>5, <1>6, <1>7, <1>8, <1>9, <1>10, <1>11, <1>12, <1>13, <1>14
     DEF Next, CallStep, Settle

(* What can have become of the process under a pid *)
LEMMA Engines ==
  ASSUME IInv, TypeOK', [Next]_vars
  PROVE  /\ launched' \in {launched, launched + 1}
         /\ \A p \in Pids :
              \/ /\ proc'[p].run = proc[p].run
                 /\ proc'[p].signal \in {"none", "term", "kill"} => proc[p].signal \in {"none", "term", "kill"}
                 /\ proc'[p].signal = "none" => proc[p].signal = "none"
              \/ proc'[p].run \in NotEngines
              \/ proc'[p].run = launched + 1 /\ launched' = launched + 1
         /\ \A p, q \in Pids :
              proc'[p].run = launched + 1 /\ proc'[q].run = launched + 1 => p = q
<1> USE SupervisionAssumption
<1>0. TypeOK /\ OneProcess
  BY DEF IInv
<1>0a. \A p \in Pids : proc[p].run \in Int /\ proc[p].run # launched + 1
  BY <1>0 DEF TypeOK, OneProcess, Proc, Free
<1>1. CASE OnlySignalled
  BY <1>0a, <1>1 DEF OnlySignalled
<1>2. CASE Ended
  BY <1>2 DEF Ended
<1>3. CASE UNCHANGED <<proc, launched>>
  BY <1>0a, <1>3
<1>4. ASSUME NEW i \in Instances, ExitEvent(i) PROVE UNCHANGED launched /\ \E p \in Pids : proc' = [proc EXCEPT ![p] = Free]
  BY <1>0, <1>4, Watches, ChildShape DEF ExitEvent, Finalize, IInv, WatchesEngine
<1>5. ASSUME NEW p \in Pids, UNCHANGED launched,
             \/ proc' = [proc EXCEPT ![p] = Free]
             \/ proc' = [proc EXCEPT ![p].signal = "zombie"]
             \/ \E other \in NotEngines : proc' = [proc EXCEPT ![p] = [run |-> other, signal |-> "none"]]
      PROVE  \A q \in Pids :
               \/ /\ proc'[q].run = proc[q].run
                  /\ proc'[q].signal \in {"none", "term", "kill"} => proc[q].signal \in {"none", "term", "kill"}
                  /\ proc'[q].signal = "none" => proc[q].signal = "none"
               \/ proc'[q].run \in NotEngines
  <2>1. proc \in [Pids -> Proc] /\ Free.run = 0
    BY <1>0 DEF TypeOK, Free
  <2>2. \A q \in Pids : q # p => proc'[q] = proc[q]
    BY <1>5, <2>1
  <2>3. CASE proc' = [proc EXCEPT ![p].signal = "zombie"]
    <3>1. proc'[p].run = proc[p].run /\ proc'[p].signal = "zombie"
      BY <2>1, <2>3 DEF Proc, Free
    <3> QED
      BY <2>2, <3>1
  <2>4. CASE proc' # [proc EXCEPT ![p].signal = "zombie"]
    <3>1. proc'[p].run \in NotEngines
      BY <1>5, <2>1, <2>4 DEF NotEngines
    <3> QED
      BY <2>2, <3>1
  <2> QED
    BY <2>3, <2>4
<1>6. ASSUME NEW p \in Pids, ProcessExits(p) \/ PidReused(p)
      PROVE  /\ UNCHANGED launched
             /\ \/ proc' = [proc EXCEPT ![p] = Free]
                \/ proc' = [proc EXCEPT ![p].signal = "zombie"]
                \/ \E other \in NotEngines : proc' = [proc EXCEPT ![p] = [run |-> other, signal |-> "none"]]
  BY <1>6 DEF ProcessExits, PidReused, durable, NotEngines
<1>7. ASSUME NEW i \in Instances, NEW p \in Pids, Launch(i, p)
      PROVE  /\ launched' = launched + 1
             /\ \A q \in Pids : q # p => proc'[q] = proc[q]
             /\ proc'[p].run = launched + 1
  BY <1>0, <1>7 DEF Launch, TypeOK
<1>8. ASSUME NEW i \in Instances, LaunchFails(i)
      PROVE  launched' = launched + 1 /\ UNCHANGED proc
  BY <1>8 DEF LaunchFails
<1>9. ASSUME NEW c \in Callers, StaleGone(c) \/ StaleGiveUp(c) PROVE UNCHANGED <<proc, launched>>
  BY <1>9 DEF StaleGone, StaleGiveUp
<1>10. ASSUME NEW i \in Instances, AdoptedPoll(i) PROVE UNCHANGED <<proc, launched>>
  BY <1>10 DEF AdoptedPoll, Finalize
<1>11. CASE Boot
  BY <1>3, <1>11 DEF Boot
<1>12. launched \in Nat /\ launched + 1 \notin NotEngines /\ Free.run \in NotEngines
  BY <1>0, SupervisionAssumption DEF TypeOK, NotEngines, Free
<1>13. ASSUME \E p \in Pids : UNCHANGED launched /\
             (\/ proc' = [proc EXCEPT ![p] = Free]
              \/ proc' = [proc EXCEPT ![p].signal = "zombie"]
              \/ \E other \in NotEngines : proc' = [proc EXCEPT ![p] = [run |-> other, signal |-> "none"]])
       PROVE  /\ UNCHANGED launched
              /\ \A q \in Pids : proc'[q].run # launched + 1
              /\ \A q \in Pids :
                   \/ /\ proc'[q].run = proc[q].run
                      /\ proc'[q].signal \in {"none", "term", "kill"} => proc[q].signal \in {"none", "term", "kill"}
                      /\ proc'[q].signal = "none" => proc[q].signal = "none"
                   \/ proc'[q].run \in NotEngines
  BY <1>0, <1>0a, <1>5, <1>12, <1>13 DEF TypeOK
<1> QED
  BY <1>0a, <1>1, <1>2, <1>3, <1>4, <1>6, <1>7, <1>8, <1>9, <1>10, <1>11, <1>13, Kinds

(* Launches take new runs, so a run keeps to one process. *)
LEMMA OneProcessKept == ASSUME IInv, TypeOK', [Next]_vars PROVE OneProcess'
<1>1. \A p \in Pids : proc[p].run \in Int /\ proc'[p].run \in Int
  BY SupervisionAssumption DEF IInv, TypeOK, Proc, Free
<1>2. launched \in Nat /\ launched' \in Nat
  BY SupervisionAssumption DEF IInv, TypeOK
<1>3. OneProcess
  BY DEF IInv
<1> QED
  BY <1>1, <1>2, <1>3, Engines DEF OneProcess, NotEngines, Runs

(* A live engine was live before the step, or it has just been launched. *)
LEMMA LivesBefore ==
  ASSUME IInv, TypeOK', [Next]_vars, NEW p \in Pids, NEW r \in Runs, Lives(p, r)'
  PROVE  \/ Lives(p, r) /\ (proc'[p].signal = "none" => proc[p].signal = "none")
         \/ r = launched + 1 /\ launched' = launched + 1
  BY Engines DEF Lives, NotEngines, Runs

(* A child that is finalized has no engine left. *)
LEMMA FinalizedDead ==
  ASSUME IInv, NEW i \in Instances, ExitEvent(i) \/ AdoptedPoll(i), NEW p \in Pids,
         NEW r \in Runs, r = child[i].run
  PROVE  ~Lives(p, r) /\ ~Lives(p, r)'
<1> USE SupervisionAssumption
<1>0. TypeOK /\ WatchesEngine /\ ChildOutlives
  BY DEF IInv
<1>1. child[i].run \in Runs /\ child[i].run # 0 /\ Free.run = 0
  BY <1>0, Watches, ChildShape DEF ExitEvent, AdoptedPoll, Runs, Free
<1>2. child[i].pid \in Pids
  BY <1>0 DEF ExitEvent, AdoptedPoll, WatchesEngine
<1>3. CASE ExitEvent(i)
  <2>1. proc' = [proc EXCEPT ![child[i].pid] = Free] /\ proc[child[i].pid].signal = "zombie"
    BY <1>3 DEF ExitEvent
  <2>2. ~Lives(p, r)
    BY <1>0, <2>1 DEF ChildOutlives, Lives
  <2>3. proc'[p] \in {proc[p], Free}
    BY <1>0, <2>1 DEF TypeOK
  <2> QED
    BY <1>1, <2>2, <2>3 DEF Lives
<1>4. CASE AdoptedPoll(i)
  <2>1. UNCHANGED proc /\ proc[child[i].pid] = Free
    BY <1>2, <1>4 DEF AdoptedPoll, Alive
  <2>2. ~Lives(p, r)
    BY <1>0, <1>1, <2>1 DEF ChildOutlives, Lives
  <2> QED
    BY <2>1, <2>2 DEF Lives
<1> QED
  BY <1>3, <1>4

(* The rows when a stale process is gone, when its stop is given up, and   *)
(* when a child is finalized                                               *)
LEMMA StaleGoneRows ==
  ASSUME IInv, NEW c \in Callers, StaleGone(c), NEW r \in Runs, rows'[r] # NoRow
  PROVE  /\ rows[r] # NoRow /\ rows'[r].inst = rows[r].inst
         /\ rows'[r] = rows[r] \/ (r = op[c].run /\ \A p \in Pids : ~Lives(p, r)')
<1> USE SupervisionAssumption
<1>0. TypeOK /\ RowHasPid /\ StopOwnsRun
  BY DEF IInv
<1>1. op[c].run \in Runs /\ op[c].pid \in Pids /\ op[c].goal \in {"stop", "restart", "delete"}
  BY <1>0, CallShape DEF StaleGone, StopOwnsRun, Stopping
<1> DEFINE table == Closed(op[c].run, "exited")
<1>2. /\ table[r].inst = rows[r].inst
      /\ table[r] = NoRow <=> rows[r] = NoRow
      /\ r # op[c].run => table[r] = rows[r]
  BY <1>0, <1>1, Closes DEF TypeOK
<1>3. \/ rows' = table
      \/ rows' = [s \in Runs |-> IF table[s].inst = op[c].inst THEN NoRow ELSE table[s]]
  BY <1>1 DEF StaleGone, Removed
<1> HIDE DEF table
<1>4. rows[r] # NoRow /\ rows'[r].inst = rows[r].inst /\ rows'[r] = table[r]
  BY <1>2, <1>3
<1>5. ASSUME r = op[c].run, NEW p \in Pids, Lives(p, r)' PROVE FALSE
  <2>1. Lives(p, r)
    BY <1>5 DEF StaleGone, Lives
  <2>2. rows[r].pid = p
    BY <1>0, <1>4, <2>1 DEF RowHasPid
  <2>3. rows[r].pid = op[c].pid
    <3>1. Stopping(c)
      BY DEF Stopping, StaleGone
    <3>2. rows[r] \in {NoRow, [inst |-> op[c].inst, pid |-> op[c].pid, status |-> "stopping"]}
      BY <1>0, <1>5, <3>1 DEF StopOwnsRun
    <3> QED
      BY <1>4, <3>2
  <2>4. proc[p] = Free
    BY <2>2, <2>3 DEF StaleGone, Alive
  <2> QED
    BY <2>1, <2>4 DEF Lives, Free
<1> QED
  BY <1>2, <1>4, <1>5

(* A stop that is given up flags the run as stale again. *)
LEMMA GiveUpRows ==
  ASSUME IInv, NEW c \in Callers, StaleGiveUp(c), NEW r \in Runs
  PROVE  /\ op[c].run \in Runs /\ Stopping(c)
         /\ r # op[c].run => rows'[r] = rows[r]
         /\ rows'[r] # NoRow => /\ rows[r] # NoRow
                                /\ rows'[r].inst = rows[r].inst /\ rows'[r].pid = rows[r].pid
                                /\ r = op[c].run => rows'[r].status = "stale"
<1>0. TypeOK /\ StopOwnsRun
  BY DEF IInv
<1>1. Stopping(c)
  BY DEF StaleGiveUp, Stopping
<1>2. rows[op[c].run] \in {NoRow, [inst |-> op[c].inst, pid |-> op[c].pid, status |-> "stopping"]}
  BY <1>0, <1>1 DEF StopOwnsRun
<1>3. op[c].run \in Runs /\ (rows[op[c].run] # NoRow => rows[op[c].run].status = "stopping")
  BY <1>0, <1>1, <1>2 DEF StopOwnsRun
<1>4. rows' = Marked({op[c].run}, "stale")
  BY DEF StaleGiveUp
<1>5. r # op[c].run => rows'[r] = rows[r]
  BY <1>4 DEF Marked
<1> QED
  BY <1>0, <1>1, <1>3, <1>4, <1>5, Marks DEF TypeOK, OpenStatus

(* A child that is finalized is over, in memory and in its row. *)
LEMMA FinalRows ==
  ASSUME IInv, NEW i \in Instances, ExitEvent(i) \/ AdoptedPoll(i)
  PROVE  /\ child[i].run \in Runs /\ child[i].pid \in Pids
         /\ child'[i].run = child[i].run /\ child'[i].pid = NoPid /\ child'[i].timer = "off"
         /\ child'[i].status \in {"exited", "error"}
         /\ \A j \in Instances : j # i => child'[j] = child[j]
         /\ \A r \in Runs : r # child[i].run => rows'[r] = rows[r]
         /\ \A r \in Runs : rows'[r] # NoRow => rows[r] # NoRow /\ rows'[r].inst = rows[r].inst
         /\ rows'[child[i].run] # NoRow => /\ rows'[child[i].run].pid = NoPid
                                           /\ rows'[child[i].run].status = child'[i].status
         /\ \A p \in Pids : proc'[p] \in {proc[p], Free}
         /\ UNCHANGED <<manager, crashes, launched, starting, op, deferred, passedOver>> /\ manager # "down"
<1> DEFINE status == IF child[i].status = "stopping" THEN "exited" ELSE "error"
<1>0. TypeOK /\ WatchesEngine /\ DownIdle
  BY DEF IInv
<1>1. child[i] # NoChild
  BY <1>0, Watches DEF ExitEvent, AdoptedPoll
<1>2. child[i] \in [run : Runs, pid : Pids \cup {NoPid},
                    status : {"running", "stopping", "exited", "error"},
                    adopted : BOOLEAN, timer : {"off", "armed", "fired"}]
  BY <1>0, <1>1, ChildShape
<1>3. child[i].pid \in Pids
  BY <1>0 DEF ExitEvent, AdoptedPoll, WatchesEngine
<1>4. /\ child' = [child EXCEPT ![i] = [@ EXCEPT !.status = status, !.pid = NoPid, !.timer = "off"]]
      /\ rows' = Closed(child[i].run, status)
      /\ UNCHANGED <<manager, crashes, launched, starting, op, deferred, passedOver>>
  BY DEF ExitEvent, AdoptedPoll, Finalize
<1>5. /\ child'[i].run = child[i].run /\ child'[i].pid = NoPid /\ child'[i].timer = "off"
      /\ child'[i].status = status /\ status \in {"exited", "error"}
      /\ \A j \in Instances : j # i => child'[j] = child[j]
  BY <1>0, <1>2, <1>4 DEF TypeOK
<1>6. \A p \in Pids : proc'[p] \in {proc[p], Free}
  BY <1>0, <1>3 DEF ExitEvent, AdoptedPoll, TypeOK
<1>7. manager # "down"
  BY <1>0, <1>1 DEF DownIdle
<1> HIDE DEF status
<1>8. /\ \A r \in Runs : r # child[i].run => rows'[r] = rows[r]
      /\ \A r \in Runs : rows'[r] # NoRow => rows[r] # NoRow /\ rows'[r].inst = rows[r].inst
      /\ rows'[child[i].run] # NoRow => /\ rows'[child[i].run].pid = NoPid
                                        /\ rows'[child[i].run].status = status
  BY <1>0, <1>2, <1>4, <1>5, Closes DEF TypeOK
<1> QED
  BY <1>2, <1>3, <1>4, <1>5, <1>6, <1>7, <1>8

(* What can have become of a row *)
LEMMA RowsBefore ==
  ASSUME IInv, TypeOK', [Next]_vars, NEW r \in Runs, rows'[r] # NoRow
  PROVE  \/ /\ rows[r] # NoRow /\ rows'[r].inst = rows[r].inst
            /\ rows'[r].pid = rows[r].pid \/ \A p \in Pids : ~Lives(p, r)'
         \/ /\ r = launched + 1 /\ launched' = launched + 1
            /\ \E i \in Instances : starting[i] /\ rows'[r].inst = i
            /\ \A p \in Pids : Lives(p, r)' => rows'[r].pid = p
<1> USE SupervisionAssumption
<1>0. TypeOK /\ OneProcess /\ RowHasPid /\ StopOwnsRun
  BY DEF IInv
<1>1. CASE OnlySignalled
  BY <1>1 DEF OnlySignalled
<1>2. CASE UNCHANGED rows
  BY <1>2
<1>3. ASSUME NEW c \in Callers, StaleGone(c)
      PROVE  /\ rows[r] # NoRow /\ rows'[r].inst = rows[r].inst
             /\ rows'[r].pid = rows[r].pid \/ \A p \in Pids : ~Lives(p, r)'
  BY <1>3, StaleGoneRows
<1>4. ASSUME NEW c \in Callers, StaleGiveUp(c)
      PROVE  rows[r] # NoRow /\ rows'[r].inst = rows[r].inst /\ rows'[r].pid = rows[r].pid
  BY <1>4, GiveUpRows
<1>5. ASSUME NEW i \in Instances, ExitEvent(i) \/ AdoptedPoll(i)
      PROVE  /\ rows[r] # NoRow /\ rows'[r].inst = rows[r].inst
             /\ rows'[r].pid = rows[r].pid \/ \A p \in Pids : ~Lives(p, r)'
  BY <1>5, FinalRows, FinalizedDead
<1>6. ASSUME NEW i \in Instances, LaunchFails(i)
      PROVE  \/ rows'[r] = rows[r]
             \/ /\ r = launched + 1 /\ launched' = launched + 1
                /\ starting[i] /\ rows'[r].inst = i
                /\ \A p \in Pids : ~Lives(p, r)'
  <2>1. \A p \in Pids : proc[p].run <= launched /\ proc[p].run \in Int /\ launched \in Int
    BY <1>0 DEF OneProcess, TypeOK, Proc, Free
  <2> QED
    BY <1>0, <1>6, <2>1 DEF LaunchFails, TypeOK, Lives
<1>7. ASSUME NEW i \in Instances, NEW q \in Pids, Launch(i, q)
      PROVE  \/ rows'[r] = rows[r]
             \/ /\ r = launched + 1 /\ launched' = launched + 1
                /\ starting[i] /\ rows'[r].inst = i
                /\ \A p \in Pids : Lives(p, r)' => rows'[r].pid = p
  <2>1. \A p \in Pids : proc[p].run <= launched /\ proc[p].run \in Int /\ launched \in Int
    BY <1>0 DEF OneProcess, TypeOK, Proc, Free
  <2> QED
    BY <1>0, <1>7, <2>1 DEF Launch, TypeOK, Lives
<1>8. CASE Boot
  <2>1. rows[r] # NoRow
    <3>1. r \notin OpenRuns => rows'[r] = rows[r]
      BY <1>8 DEF Boot, Adopted, Adoptable, LiveOpenRuns
    <3> QED
      BY <3>1 DEF OpenRuns, OpenStatus, NoRow
  <2>2. rows'[r].inst = rows[r].inst
    <3>1. rows'[r] \in {rows[r], [rows[r] EXCEPT !.status = "exited", !.pid = NoPid],
                       [rows[r] EXCEPT !.status = "running"],
                       [rows[r] EXCEPT !.status = "stale"]}
      BY <1>8 DEF Boot
    <3>2. rows[r].inst = [rows[r] EXCEPT !.status = "stale"].inst
      BY <1>0, <2>1 DEF TypeOK, Row
    <3> QED
      BY <1>0, <2>1, <3>1 DEF TypeOK, Row
  <2>3. CASE r \in OpenRuns \ LiveOpenRuns
    <3>1. ASSUME NEW p \in Pids, Lives(p, r)' PROVE FALSE
      <4>1. Lives(p, r) /\ rows[r].pid = p
        BY <1>0, <1>8, <2>1, <3>1 DEF Boot, Lives, RowHasPid
      <4> QED
        BY <2>3, <4>1 DEF LiveOpenRuns, Alive, Lives, Free
    <3> QED
      BY <2>1, <2>2, <3>1
  <2>4. CASE r \notin OpenRuns \ LiveOpenRuns
    BY <1>0, <1>8, <2>1, <2>2, <2>4 DEF Boot, TypeOK, Row
  <2> QED
    BY <2>3, <2>4
<1>9. CASE Ended
  BY <1>2, <1>9 DEF Ended
<1>10. ASSUME NEW p \in Pids, ProcessExits(p) \/ PidReused(p) PROVE UNCHANGED rows
  BY <1>10 DEF ProcessExits, PidReused, durable
<1> QED
  BY <1>1, <1>2, <1>3, <1>4, <1>5, <1>6, <1>7, <1>8, <1>9, <1>10, Kinds

(* The pid in a row changes only when the engine is dead. *)
LEMMA RowHasPidKept == ASSUME IInv, TypeOK', [Next]_vars PROVE RowHasPid'
<1> SUFFICES ASSUME NEW p \in Pids, NEW r \in Runs, Lives(p, r)', rows'[r] # NoRow
             PROVE  rows'[r].pid = p
  BY DEF RowHasPid
<1>1. CASE rows[r] # NoRow /\ rows'[r].pid = rows[r].pid
  <2>1. RowHasPid /\ NothingAhead /\ launched \in Int
    BY SupervisionAssumption DEF IInv, TypeOK
  <2>2. Lives(p, r)
    BY <1>1, <2>1, LivesBefore DEF NothingAhead, Runs
  <2> QED
    BY <1>1, <2>1, <2>2 DEF RowHasPid
<1> QED
  BY <1>1, RowsBefore

(* Rows of runs to come are empty. *)
LEMMA NewestKept == ASSUME IInv, TypeOK', [Next]_vars, deferred \subseteq deferred' PROVE Newest'
<1> USE SupervisionAssumption
<1>0. TypeOK /\ Newest /\ NothingAhead /\ LaunchesAlone /\ launched \in Int
  BY DEF IInv, TypeOK
<1> SUFFICES ASSUME NEW p \in Pids, NEW r \in Runs, Undisturbed(p, r)',
                    NEW s \in Runs, rows'[s] # NoRow, rows'[s].inst = rows'[r].inst
             PROVE  s <= r
  BY DEF Newest
<1>1. rows'[r] # NoRow /\ Lives(p, r)' /\ proc'[p].signal = "none" /\ r \notin deferred'
  BY DEF Undisturbed
<1>2. s <= launched + 1
  BY <1>0, RowsBefore DEF NothingAhead, Runs
<1>3. CASE r = launched + 1
  BY <1>2, <1>3
<1>4. CASE r # launched + 1
  <2>1. Undisturbed(p, r) /\ rows'[r].inst = rows[r].inst
    BY <1>1, <1>4, RowsBefore, LivesBefore DEF Undisturbed
  <2>2. CASE rows[s] # NoRow /\ rows'[s].inst = rows[s].inst
    BY <1>0, <2>1, <2>2 DEF Newest
  <2>3. CASE \E i \in Instances : starting[i] /\ rows'[s].inst = i
    BY <1>0, <2>1, <2>3 DEF LaunchesAlone
  <2> QED
    BY <2>2, <2>3, RowsBefore
<1> QED
  BY <1>3, <1>4

(* The children after a start of the manager: one for every adopted run *)
LEMMA BootChildren ==
  ASSUME TypeOK, Boot, NEW i \in Instances
  PROVE  \/ child'[i] = NoChild /\ \A r \in Adopted : rows[r].inst # i
         \/ \E r \in Adopted :
              /\ rows[r].inst = i /\ \A s \in Adopted : rows[s].inst = i => s = r
              /\ child'[i] = [run |-> r, pid |-> rows[r].pid, status |-> "running",
                              adopted |-> TRUE, timer |-> "off"]
<1> USE SupervisionAssumption
<1> DEFINE R == {r \in Adopted : rows[r].inst = i}
<1>1. Adopted \subseteq Adoptable /\ Adoptable \subseteq Runs
  BY DEF Adopted, Adoptable, LiveOpenRuns, OpenRuns
<1>2. CASE R = {}
  BY <1>2 DEF Boot
<1>3. CASE R # {}
  <2>1. LatestOf(R) \in R
    BY <1>1, <1>3, Latest DEF LatestOf
  <2>2. \A s \in R : s = LatestOf(R)
    <3>1. ASSUME NEW s \in R PROVE s <= LatestOf(R) /\ LatestOf(R) <= s
      BY <1>1, <2>1 DEF Adopted
    <3>2. \A r \in Runs : r \in Int
      BY DEF Runs
    <3>3. \A s \in R : s \in Runs
      BY <1>1
    <3> HIDE DEF R
    <3> QED
      BY <2>1, <3>1, <3>2, <3>3
  <2>3. child'[i] = [run |-> LatestOf(R), pid |-> rows[LatestOf(R)].pid, status |-> "running",
                     adopted |-> TRUE, timer |-> "off"]
    BY <1>3 DEF Boot
  <2> QED
    BY <2>1, <2>2, <2>3
<1> QED
  BY <1>2, <1>3

(* What becomes of a row when the manager starts *)
LEMMA BootRows ==
  ASSUME TypeOK, Boot, NEW r \in Runs
  PROVE  /\ r \notin OpenRuns => rows'[r] = rows[r]
         /\ r \in OpenRuns => rows[r] # NoRow /\ rows[r].pid \in Pids
         /\ r \in OpenRuns \ LiveOpenRuns => rows'[r].status = "exited"
         /\ r \in Adopted => /\ r \in LiveOpenRuns
                             /\ rows'[r] = [rows[r] EXCEPT !.status = "running"]
                             /\ rows'[r].status = "running" /\ rows'[r].pid = rows[r].pid
                             /\ rows'[r].inst = rows[r].inst
                             /\ proc[rows[r].pid].run # Stranger
         /\ r \in LiveOpenRuns \ (Adoptable \cup Deferred) => rows'[r].status = "stale"
<1> USE SupervisionAssumption
<1>1. Adopted \subseteq Adoptable /\ Adoptable \subseteq LiveOpenRuns /\ LiveOpenRuns \subseteq OpenRuns
  BY DEF Adopted, Adoptable, LiveOpenRuns
<1>1a. rows'[r] =
         CASE r \in OpenRuns \ LiveOpenRuns -> [rows[r] EXCEPT !.status = "exited", !.pid = NoPid]
           [] r \in Adopted -> [rows[r] EXCEPT !.status = "running"]
           [] r \in LiveOpenRuns \ (Adoptable \cup Deferred) -> [rows[r] EXCEPT !.status = "stale"]
           [] OTHER -> rows[r]
  BY DEF Boot
<1>2. ASSUME r \in OpenRuns
      PROVE  rows[r] \in [inst : Instances, pid : Pids, status : OpenStatus]
  BY <1>2 DEF OpenRuns, TypeOK, Row, NoRow, OpenStatus
<1>3. r \in OpenRuns => rows[r] # NoRow /\ rows[r].pid \in Pids
  BY <1>2 DEF OpenRuns, NoRow, OpenStatus
<1>4. r \notin OpenRuns => rows'[r] = rows[r]
  BY <1>1 DEF Boot, Adoptable, Deferred
<1>5. r \in OpenRuns \ LiveOpenRuns => rows'[r].status = "exited"
  <2>1. r \in OpenRuns \ LiveOpenRuns => rows'[r] = [rows[r] EXCEPT !.status = "exited", !.pid = NoPid]
    BY <1>1, <1>1a
  <2> QED
    BY <1>2, <2>1
<1>6. r \in Adopted => rows'[r] = [rows[r] EXCEPT !.status = "running"]
  BY <1>1, <1>1a
<1>7. ASSUME r \in Adopted
      PROVE  rows'[r].status = "running" /\ rows'[r].pid = rows[r].pid /\ rows'[r].inst = rows[r].inst
  BY <1>1, <1>2, <1>6, <1>7
<1>8. ASSUME r \in Adopted PROVE proc[rows[r].pid].run # Stranger
  BY <1>8 DEF Adopted, Adoptable, MatchesSnapshot
<1>9. ASSUME r \in LiveOpenRuns \ (Adoptable \cup Deferred) PROVE rows'[r].status = "stale"
  BY <1>1, <1>2, <1>9 DEF Boot, Adopted
<1> QED
  BY <1>1, <1>3, <1>4, <1>5, <1>6, <1>7, <1>8, <1>9

(* Children keep their own runs and pids, and outlive their engines. *)
LEMMA ChildrenKept ==
  ASSUME IInv, TypeOK', [Next]_vars
  PROVE  ChildOwnsRun' /\ WatchesEngine' /\ ChildOutlives'
<1> USE SupervisionAssumption
<1>0. /\ TypeOK /\ OneProcess /\ NothingAhead /\ ChildOwnsRun /\ WatchesEngine /\ ChildOutlives
      /\ RowHasPid /\ DownIdle /\ LaunchesAlone
  BY DEF IInv
<1>1. CASE OnlySignalled
  <2>1. \A i \in Instances : child[i].run # 0 => child[i].run \in Runs
    BY <1>0, ChildShape, Watches
  <2>2. ChildOwnsRun'
    BY <1>0, <1>1, <2>1 DEF OnlySignalled, ChildOwnsRun
  <2>3. WatchesEngine'
    BY <1>0, <1>1 DEF OnlySignalled, WatchesEngine
  <2>4. ChildOutlives'
    BY <1>0, <1>1 DEF OnlySignalled, ChildOutlives, Lives
  <2> QED
    BY <2>2, <2>3, <2>4
<1>2. CASE Ended
  BY <1>2 DEF Ended, ChildOwnsRun, WatchesEngine, ChildOutlives, Lives, NoChild, Watching
<1>3. ASSUME NEW c \in Callers, StaleGone(c) \/ StaleGiveUp(c)
      PROVE  ChildOwnsRun' /\ WatchesEngine' /\ ChildOutlives'
  <2>1. UNCHANGED <<child, proc>>
    BY <1>3 DEF StaleGone, StaleGiveUp
  <2>2. \A i \in Instances : child[i].run # 0 => child[i].run \in Runs /\ child[i].run # launched + 1
    BY <1>0, ChildShape, Watches DEF NothingAhead, Runs, TypeOK
  <2>3. ChildOwnsRun'
    BY <1>0, <2>1, <2>2, RowsBefore DEF ChildOwnsRun
  <2> QED
    BY <1>0, <2>1, <2>3 DEF WatchesEngine, ChildOutlives, Lives, Watching
<1>4. ASSUME NEW i \in Instances, ExitEvent(i) \/ AdoptedPoll(i)
      PROVE  ChildOwnsRun' /\ WatchesEngine' /\ ChildOutlives'
  <2>1. child[i].run \in Runs /\ child[i].pid \in Pids
    BY <1>4, FinalRows
  <2>2. /\ child'[i].run = child[i].run /\ child'[i].pid = NoPid /\ ~Watching(i)'
        /\ \A j \in Instances : j # i => child'[j] = child[j]
    BY <1>4, FinalRows DEF Watching
  <2>3. \A p \in Pids : proc'[p] \in {proc[p], Free}
    BY <1>4, FinalRows
  <2>4. \A j \in Instances : child[j].run # 0 => child[j].run \in Runs /\ child[j].run # launched + 1
    BY <1>0, ChildShape, Watches DEF NothingAhead, Runs, TypeOK
  <2>5. ChildOwnsRun'
    BY <1>0, <2>2, <2>4, RowsBefore DEF ChildOwnsRun
  <2>6. WatchesEngine'
    BY <1>0, <2>2, <2>3 DEF WatchesEngine, Watching
  <2>7. ChildOutlives'
    BY <1>0, <1>4, <2>1, <2>2, <2>3, FinalizedDead DEF ChildOutlives, Lives, Watching, Free
  <2> QED
    BY <2>5, <2>6, <2>7
<1>5. ASSUME NEW i \in Instances, LaunchFails(i)
      PROVE  ChildOwnsRun' /\ WatchesEngine' /\ ChildOutlives'
  BY <1>0, <1>5 DEF LaunchFails, ChildOwnsRun, WatchesEngine, ChildOutlives, Lives, Watching,
     OneProcess, NothingAhead, TypeOK
<1>6. ASSUME NEW i \in Instances, NEW p \in Pids, Launch(i, p)
      PROVE  ChildOwnsRun' /\ WatchesEngine' /\ ChildOutlives'
  BY <1>0, <1>6 DEF Launch, Available, ChildOwnsRun, WatchesEngine, ChildOutlives, Lives, Watching,
     OneProcess, NothingAhead, TypeOK
<1>7. ASSUME NEW p \in Pids, ProcessExits(p) \/ PidReused(p)
      PROVE  ChildOwnsRun' /\ WatchesEngine' /\ ChildOutlives'
  <2>1. UNCHANGED <<child, rows>>
    BY <1>7 DEF ProcessExits, PidReused, durable
  <2>2. \A q \in Pids : q # p => proc'[q] = proc[q]
    BY <1>0, <1>7 DEF ProcessExits, PidReused, TypeOK
  <2>3. CASE ProcessExits(p)
    <3>1. proc'[p] = Free \/ (proc'[p].run = proc[p].run /\ proc'[p].signal = "zombie")
      BY <1>0, <2>3 DEF ProcessExits, TypeOK, Proc, Free
    <3>2. ChildOwnsRun'
      BY <1>0, <2>1 DEF ChildOwnsRun
    <3>3. WatchesEngine'
      <4>1. \A q \in Pids : proc'[q] = Free \/ proc'[q].run = proc[q].run
        BY <2>2, <3>1
      <4>2. \A q \in Pids : proc[q] = Free => proc'[q] = Free
        BY <2>2, <2>3 DEF ProcessExits, Free
      <4> QED
        BY <1>0, <2>1, <4>1, <4>2 DEF WatchesEngine, Watching
    <3>4. ChildOutlives'
      BY <1>0, <2>1, <2>2, <3>1 DEF ChildOutlives, Lives, Watching, Free
    <3> QED
      BY <3>2, <3>3, <3>4
  <2>4. CASE PidReused(p)
    <3>1. proc'[p].run \in NotEngines /\ \A i \in Instances : child[i].pid # p
      BY <1>0, <2>4 DEF PidReused, Available, TypeOK, NotEngines
    <3>2. \A i \in Instances : child[i].run \in Nat
      BY <1>0 DEF TypeOK, Child, NoChild, Runs
    <3> QED
      BY <1>0, <2>1, <2>2, <3>1, <3>2 DEF ChildOwnsRun, WatchesEngine, ChildOutlives, Lives, Watching, NotEngines
  <2> QED
    BY <1>7, <2>3, <2>4
<1>8. CASE Boot
  <2>1. ASSUME NEW i \in Instances
        PROVE  \/ child'[i].run = 0 /\ ~Watching(i)'
               \/ /\ child'[i].run \in Adopted /\ rows[child'[i].run].inst = i
                  /\ child'[i].pid = rows[child'[i].run].pid /\ Watching(i)'
    <3>1. CASE child'[i] = NoChild
      BY <3>1 DEF NoChild, Watching
    <3>2. CASE child'[i] # NoChild
      <4>1. PICK r \in Adopted :
              /\ rows[r].inst = i
              /\ child'[i] = [run |-> r, pid |-> rows[r].pid, status |-> "running",
                              adopted |-> TRUE, timer |-> "off"]
        BY <1>0, <1>8, <3>2, BootChildren
      <4> QED
        BY <4>1 DEF Watching
    <3> QED
      BY <3>1, <3>2
  <2>2. \A r \in Adopted : /\ r \in Runs /\ rows[r] # NoRow /\ rows[r].pid \in Pids
                           /\ proc[rows[r].pid].run # Stranger /\ rows'[r].inst = rows[r].inst
    BY <1>0, <1>8, BootRows DEF Adopted, Adoptable, LiveOpenRuns, OpenRuns, MatchesSnapshot
  <2>3. UNCHANGED proc
    BY <1>8 DEF Boot
  <2>4. ChildOwnsRun'
    BY <2>1, <2>2 DEF ChildOwnsRun
  <2>5. WatchesEngine'
    BY <2>1, <2>2, <2>3 DEF WatchesEngine
  <2>6. ChildOutlives'
    BY <1>0, <2>1, <2>2, <2>3 DEF ChildOutlives, Lives, RowHasPid
  <2> QED
    BY <2>4, <2>5, <2>6
<1> QED
  BY <1>1, <1>2, <1>3, <1>4, <1>5, <1>6, <1>7, <1>8, Kinds

(* What a reconcile has left alone it has left alone for good. *)
LEMMA DeferredGrows == ASSUME IInv, [Next]_vars PROVE deferred \subseteq deferred'
<1>1. CASE OnlySignalled \/ Ended
  BY <1>1 DEF OnlySignalled, Ended
<1>2. CASE Boot
  BY <1>2 DEF Boot
<1> QED
  BY <1>1, <1>2, Kinds DEF StaleGone, StaleGiveUp, ExitEvent, AdoptedPoll, Finalize, Launch,
     LaunchFails, ProcessExits, PidReused, durable

-----------------------------------------------------------------------------
(* Calls *)

(* No engine of i that nobody has told to stop is flagged as stale. *)
NoneStaleOf(i) ==
  \A p \in Pids : \A r \in Runs :
    Undisturbed(p, r) /\ rows[r].inst = i => rows[r].status # "stale"

(* The test for a stale process finds every one that matters. *)
LEMMA NoStaleRun ==
  ASSUME IInv, NEW i \in Instances, StaleRun(i) = 0 PROVE NoneStaleOf(i)
<1> SUFFICES ASSUME NEW p \in Pids, NEW r \in Runs, Undisturbed(p, r), rows[r].inst = i,
                    rows[r].status = "stale"
             PROVE  FALSE
  BY DEF NoneStaleOf
<1>1. rows[r].pid = p
  BY DEF IInv, RowHasPid, Undisturbed
<1>2. Alive(p)
  BY DEF Alive, Undisturbed, Lives, Free
<1>3. r \in StaleRuns(i)
  BY <1>1, <1>2 DEF StaleRuns
<1>4. StaleRun(i) \in StaleRuns(i)
  <2>1. StaleRuns(i) \in SUBSET Runs
    BY DEF StaleRuns
  <2>2. \E m \in StaleRuns(i) : \A s \in StaleRuns(i) : s <= m
    BY <1>3, <2>1, Latest
  <2> QED
    BY <1>3, <2>2 DEF StaleRun, LatestOf
<1> QED
  BY <1>4 DEF StaleRuns, Runs

(* A call goes on to wait for its preflight, a launch or an exit. *)
Waits(c) ==
  /\ op'[c].at \in {"preflight", "launch", "exit", "again"}
  /\ op'[c].goal \in {"start", "restart"}
  /\ op'[c].at \in {"exit", "again"} => op'[c].goal = "restart"
  /\ op'[c].goal = "start" \/ op'[c].at # "preflight" => NoneStaleOf(op'[c].inst)
  /\ op'[c].run = 0 \/ \E i \in Instances : op'[c].run = child[i].run

(* It begins to stop a stale process. *)
BeginsStop(c) ==
  \E i \in Instances :
    /\ StaleRun(i) # 0
    /\ op'[c].at = "stale" /\ op'[c].goal \in {"stop", "restart", "delete"}
    /\ op'[c].inst = i /\ op'[c].run = StaleRun(i) /\ op'[c].pid = rows[StaleRun(i)].pid
    /\ proc'[rows[StaleRun(i)].pid].signal # "none"
    /\ rows'[StaleRun(i)] = [inst |-> i, pid |-> rows[StaleRun(i)].pid, status |-> "stopping"]
    /\ \A d \in Callers : d # c => op'[d] = op[d]
    /\ \A j \in Instances : child'[j].run = child[j].run
    /\ UNCHANGED launched

(* It sends SIGKILL to it. *)
Kills(c) == Stopping(c) /\ op'[c] = [op[c] EXCEPT !.at = "killed"]

(* The row of a stale run that is told to stop *)
LEMMA StaleMarked ==
  ASSUME TypeOK, NEW i \in Instances, StaleRun(i) # 0,
         NEW R, StaleRun(i) \in R, rows' = Marked(R, "stopping"),
         NEW ps, rows[StaleRun(i)].pid \in ps, proc' = Signalled(ps, "term")
  PROVE  /\ rows'[StaleRun(i)] = [inst |-> i, pid |-> rows[StaleRun(i)].pid, status |-> "stopping"]
         /\ proc'[rows[StaleRun(i)].pid].signal # "none"
<1> DEFINE r == StaleRun(i)
<1>1. r \in Runs /\ rows[r].status = "stale" /\ rows[r].inst = i /\ rows[r].pid \in Pids
  BY StaleOpen
<1>2. rows[r] \in [inst : Instances, pid : Pids, status : OpenStatus] /\ rows[r] # NoRow
  BY <1>1 DEF TypeOK, Row, NoRow, OpenStatus
<1>3. rows'[r] = [rows[r] EXCEPT !.status = "stopping"]
  BY <1>1, <1>2 DEF Marked
<1>4. proc'[rows[r].pid].signal # "none"
  BY <1>1, Signals DEF TypeOK
<1> HIDE DEF r
<1>5. rows'[r] = [inst |-> i, pid |-> rows[r].pid, status |-> "stopping"]
  BY <1>1, <1>2, <1>3
<1> QED
  BY <1>4, <1>5 DEF r

(* supervisor.start joins a launch or begins one. *)
LEMMA StartCalls ==
  ASSUME IInv, NEW c \in Callers, NEW g \in {"start", "restart"}, NEW i \in Instances,
         SupervisorStart(c, g, i), NoneStaleOf(i)
  PROVE  /\ \A d \in Callers : op'[d] \in {op[d], Idle} \/ Waits(d)
         /\ \A j \in Instances : starting'[j] /\ ~starting[j] => j = i /\ ~Watching(i)
<1>1. op \in [Callers -> Op] /\ starting \in [Instances -> BOOLEAN]
  BY DEF IInv, TypeOK
<1>2. CASE Watching(i)
  BY <1>1, <1>2 DEF SupervisorStart
<1>3. CASE ~Watching(i)
  <2>1. op' = [op EXCEPT ![c] = Call(g, "launch", i)]
    BY <1>3 DEF SupervisorStart
  <2>2. Waits(c)
    BY <1>1, <2>1 DEF Waits, Call
  <2> QED
    BY <1>1, <1>3, <2>1, <2>2 DEF SupervisorStart
<1> QED
  BY <1>2, <1>3

(* What becomes of a call in one step *)
LEMMA OpKinds ==
  ASSUME IInv, [Next]_vars, NEW c \in Callers
  PROVE  op'[c] \in {op[c], Idle} \/ Waits(c) \/ Kills(c) \/ BeginsStop(c)
<1> USE SupervisionAssumption
<1>0. TypeOK /\ CallsFit /\ NoneStale /\ op \in [Callers -> Op]
  BY DEF IInv, TypeOK
<1>1. ASSUME NEW d \in Callers, NEW i \in Instances, StartCall(d, i) \/ RestartCall(d, i)
      PROVE  op'[c] = op[c] \/ Waits(c)
  <2>1. CASE StartCall(d, i)
    BY <1>0, <2>1, NoStaleRun DEF StartCall, Waits, Call
  <2>2. CASE RestartCall(d, i)
    BY <1>0, <2>2 DEF RestartCall, Waits, Call
  <2> QED
    BY <1>1, <2>1, <2>2
<1>2. ASSUME NEW d \in Callers, NEW i \in Instances, StopCall(d, i)
      PROVE  op'[c] = op[c] \/ BeginsStop(c)
  <2>1. CASE child[i] # NoChild
    BY <1>2, <2>1 DEF StopCall
  <2>2. CASE child[i] = NoChild
    <3>1. /\ StaleRun(i) # 0 /\ UNCHANGED <<child, launched>>
          /\ op' = [op EXCEPT ![d] = [goal |-> "stop", at |-> "stale", inst |-> i,
                                      run |-> StaleRun(i), pid |-> rows[StaleRun(i)].pid]]
          /\ proc' = Signalled({rows[StaleRun(i)].pid}, "term")
          /\ rows' = Marked({StaleRun(i)}, "stopping")
      BY <1>2, <2>2 DEF StopCall
    <3>2. /\ rows'[StaleRun(i)] = [inst |-> i, pid |-> rows[StaleRun(i)].pid, status |-> "stopping"]
          /\ proc'[rows[StaleRun(i)].pid].signal # "none"
      BY <1>0, <3>1, StaleMarked
    <3> QED
      BY <1>0, <3>1, <3>2 DEF BeginsStop
  <2> QED
    BY <2>1, <2>2
<1>3. ASSUME NEW d \in Callers, NEW i \in Instances, DeleteCall(d, i)
      PROVE  op'[c] = op[c] \/ BeginsStop(c)
  <2>1. CASE StaleRun(i) = 0
    BY <1>3, <2>1 DEF DeleteCall
  <2>2. CASE StaleRun(i) # 0
    <3>1. /\ child' = StopChildren({i}) /\ UNCHANGED launched
          /\ op' = [op EXCEPT ![d] = [goal |-> "delete", at |-> "stale", inst |-> i,
                                      run |-> StaleRun(i), pid |-> rows[StaleRun(i)].pid]]
          /\ proc' = Signalled({rows[StaleRun(i)].pid} \cup AskedPids({i}), "term")
          /\ rows' = Marked({StaleRun(i)} \cup AskedRuns({i}), "stopping")
      BY <1>3, <2>2 DEF DeleteCall
    <3>2. /\ rows'[StaleRun(i)] = [inst |-> i, pid |-> rows[StaleRun(i)].pid, status |-> "stopping"]
          /\ proc'[rows[StaleRun(i)].pid].signal # "none"
      BY <1>0, <2>2, <3>1, StaleMarked
    <3>3. \A j \in Instances : child'[j].run = child[j].run
      BY <1>0, <3>1, StopsChildren DEF TypeOK
    <3> QED
      BY <1>0, <2>2, <3>1, <3>2, <3>3 DEF BeginsStop
  <2> QED
    BY <2>1, <2>2
<1>4. ASSUME NEW d \in Callers, CallRefused(d) \/ StaleGiveUp(d)
      PROVE  op'[c] \in {op[c], Idle}
  BY <1>0, <1>4 DEF CallRefused, StaleGiveUp
<1>5. ASSUME NEW d \in Callers, StartProceeds(d) \/ ExitWaited(d)
      PROVE  op'[c] \in {op[c], Idle} \/ Waits(c)
  <2>1. /\ op[d].inst \in Instances /\ op[d].goal \in {"start", "restart"} /\ PastStaleTest(d)
        /\ ExitWaited(d) => op[d].goal = "restart"
    BY <1>0, <1>5, CallShape DEF StartProceeds, ExitWaited, CallsFit, PastStaleTest
  <2>2. NoneStaleOf(op[d].inst)
    BY <1>0, <2>1 DEF NoneStale, NoneStaleOf
  <2>3. SupervisorStart(d, op[d].goal, op[d].inst)
    BY <1>5, <2>1 DEF StartProceeds, ExitWaited
  <2> QED
    BY <2>1, <2>2, <2>3, StartCalls
<1>6. ASSUME NEW d \in Callers, RestartProceeds(d)
      PROVE  op'[c] \in {op[c], Idle} \/ Waits(c) \/ BeginsStop(c)
  <2> DEFINE i == op[d].inst
  <2>1. op[d] \in [goal : {"start", "stop", "restart", "delete"},
                   at : {"preflight", "launch", "stale", "killed", "exit", "again"},
                   inst : Instances, run : 0..MaxRuns, pid : Pids \cup {NoPid}]
    BY <1>0, <1>6, CallShape DEF RestartProceeds
  <2>1a. i \in Instances /\ op[d].goal = "restart"
    BY <1>6, <2>1 DEF RestartProceeds
  <2>2. CASE StaleRun(i) # 0
    <3>1. /\ UNCHANGED <<child, launched>>
          /\ op' = [op EXCEPT ![d] = [@ EXCEPT !.at = "stale", !.run = StaleRun(i),
                                               !.pid = rows[StaleRun(i)].pid]]
          /\ proc' = Signalled({rows[StaleRun(i)].pid}, "term")
          /\ rows' = Marked({StaleRun(i)}, "stopping")
      BY <1>6, <2>2 DEF RestartProceeds
    <3>2. /\ rows'[StaleRun(i)] = [inst |-> i, pid |-> rows[StaleRun(i)].pid, status |-> "stopping"]
          /\ proc'[rows[StaleRun(i)].pid].signal # "none"
      BY <1>0, <2>1a, <2>2, <3>1, StaleMarked
    <3>3. \A e \in Callers : e # d => op'[e] = op[e]
      BY <1>0, <3>1
    <3>4. /\ op'[d].at = "stale" /\ op'[d].goal = "restart" /\ op'[d].inst = i
          /\ op'[d].run = StaleRun(i) /\ op'[d].pid = rows[StaleRun(i)].pid
      BY <1>0, <2>1, <2>1a, <3>1
    <3>5. BeginsStop(d)
      BY <2>1a, <2>2, <3>1, <3>2, <3>3, <3>4 DEF BeginsStop
    <3> QED
      BY <3>3, <3>5
  <2>3. CASE StaleRun(i) = 0 /\ Watching(i)
    <3>1. op' = [op EXCEPT ![d] = [@ EXCEPT !.at = "exit", !.run = child[i].run]]
      BY <1>6, <2>3 DEF RestartProceeds
    <3>2. NoneStaleOf(i)
      BY <2>1a, <2>3, NoStaleRun
    <3>3. /\ op'[d].at = "exit" /\ op'[d].goal = "restart" /\ op'[d].inst = i
          /\ op'[d].run = child[i].run
      BY <1>0, <2>1, <2>1a, <3>1
    <3>4. Waits(d)
      BY <2>1a, <3>2, <3>3 DEF Waits
    <3> QED
      BY <1>0, <3>1, <3>4
  <2>4. CASE StaleRun(i) = 0 /\ ~Watching(i)
    <3>1. SupervisorStart(d, "restart", i)
      BY <1>6, <2>4 DEF RestartProceeds
    <3> QED
      BY <2>1a, <2>4, <3>1, NoStaleRun, StartCalls
  <2> QED
    BY <2>2, <2>3, <2>4
<1>7. ASSUME NEW d \in Callers, StaleGone(d)
      PROVE  op'[c] \in {op[c], Idle} \/ Waits(c)
  <2>1. op[d].inst \in Instances /\ op[d].goal \in {"stop", "restart", "delete"} /\ op[d].at # "preflight"
    BY <1>0, <1>7, CallShape DEF StaleGone, IInv, StopOwnsRun, Stopping
  <2>2. CASE op[d].goal = "restart"
    <3>1. op' = [op EXCEPT ![d] = Call("restart", "again", op[d].inst)]
      BY <1>7, <2>2 DEF StaleGone
    <3>2. NoneStaleOf(op[d].inst)
      BY <1>0, <2>1, <2>2 DEF NoneStale, NoneStaleOf, PastStaleTest
    <3> QED
      BY <1>0, <3>1, <3>2 DEF Waits, Call
  <2>3. CASE op[d].goal # "restart"
    BY <1>0, <1>7, <2>1, <2>3 DEF StaleGone
  <2> QED
    BY <2>2, <2>3
<1>8. ASSUME NEW d \in Callers, StaleKill(d) PROVE op'[c] = op[c] \/ Kills(c)
  BY <1>0, <1>8 DEF StaleKill, Kills, Stopping
<1>9. ASSUME NEW i \in Instances, op' = Returned(i) PROVE op'[c] \in {op[c], Idle}
  BY <1>9 DEF Returned
<1>10. CASE Ended
  BY <1>10 DEF Ended
<1>11. CASE UNCHANGED op
  BY <1>11
<1>12. (\E procs : Ends(procs)) => op'[c] = Idle
  BY DEF Ends
<1>13. ASSUME NEW i \in Instances, Settle(i) PROVE op'[c] \in {op[c], Idle}
  BY <1>9, <1>13 DEF Settle, LaunchRefused, LaunchFails, Launch
<1>14. ASSUME NEW i \in Instances,
              ExitEvent(i) \/ AdoptedPoll(i) \/ ForceKill(i) \/ Define(i) \/ Break(i) \/ Discard(i)
       PROVE  UNCHANGED op
  BY <1>14 DEF ExitEvent, AdoptedPoll, ForceKill, Define, Break, Discard, Finalize
<1>15. ASSUME NEW p \in Pids, ProcessExits(p) \/ PidReused(p) PROVE UNCHANGED op
  BY <1>15 DEF ProcessExits, PidReused
<1>16. ASSUME NEW i \in Instances, NEW p \in Pids, CrashInLaunch(i, p) PROVE op'[c] = Idle
  BY <1>12, <1>16 DEF CrashInLaunch
<1>17. Crash \/ ShutdownEnds => op'[c] = Idle
  BY <1>12 DEF Crash, ShutdownEnds
<1>18. ShutdownAll \/ Boot \/ UNCHANGED vars => UNCHANGED op
  BY DEF ShutdownAll, Boot, vars
<1> QED
  BY <1>1, <1>2, <1>3, <1>4, <1>5, <1>6, <1>7, <1>8, <1>11, <1>13, <1>14, <1>15, <1>16, <1>17, <1>18
     DEF Next, CallStep

-----------------------------------------------------------------------------
(* The rest of the invariant *)

(* A launch, whether it succeeds or not *)
Launches(i) == LaunchFails(i) \/ \E p \in Pids : Launch(i, p)

(* What a launch leaves behind *)
LEMMA LaunchShape ==
  ASSUME TypeOK, NEW i \in Instances, Launches(i)
  PROVE  /\ manager # "down" /\ starting[i] /\ UNCHANGED <<manager, deferred, passedOver>>
         /\ launched' = launched + 1 /\ launched + 1 \in Runs
         /\ \A j \in Instances : j # i => child'[j] = child[j]
         /\ \A r \in Runs : r # launched + 1 => rows'[r] = rows[r]
         /\ child'[i].run = launched + 1 /\ child'[i].timer = "off"
         /\ child'[i].status \in {"running", "error"}
         /\ rows'[launched + 1].inst = i
         /\ rows'[launched + 1].pid = child'[i].pid
         /\ rows'[launched + 1].status = child'[i].status
         /\ \A q \in Pids :
              \/ proc'[q] = proc[q]
              \/ Available(q) /\ proc'[q].run = launched + 1 /\ child'[i].status = "running"
         /\ starting' = [starting EXCEPT ![i] = FALSE]
<1> USE SupervisionAssumption
<1>1. /\ launched \in Nat /\ child \in [Instances -> Child] /\ rows \in [Runs -> Row]
      /\ proc \in [Pids -> Proc]
  BY DEF TypeOK
<1>2. CASE LaunchFails(i)
  BY <1>1, <1>2 DEF LaunchFails, Runs
<1>3. ASSUME NEW p \in Pids, Launch(i, p)
      PROVE  /\ manager # "down" /\ starting[i] /\ UNCHANGED <<manager, deferred, passedOver>>
             /\ launched' = launched + 1 /\ launched + 1 \in Runs
             /\ \A j \in Instances : j # i => child'[j] = child[j]
             /\ \A r \in Runs : r # launched + 1 => rows'[r] = rows[r]
             /\ child'[i].run = launched + 1 /\ child'[i].timer = "off"
             /\ child'[i].status = "running"
             /\ rows'[launched + 1].inst = i
             /\ rows'[launched + 1].pid = child'[i].pid
             /\ rows'[launched + 1].status = child'[i].status
             /\ \A q \in Pids : proc'[q] = proc[q] \/ (Available(q) /\ proc'[q].run = launched + 1)
             /\ starting' = [starting EXCEPT ![i] = FALSE]
  BY <1>1, <1>3 DEF Launch, Runs
<1> QED
  BY <1>2, <1>3 DEF Launches

(* The end of the manager clears its memory. *)
LEMMA DownIdleKept == ASSUME IInv, [Next]_vars PROVE DownIdle'
<1>0. TypeOK /\ DownIdle
  BY DEF IInv
<1>1. CASE OnlySignalled
  BY <1>0, <1>1 DEF OnlySignalled, DownIdle
<1>2. CASE Ended
  BY <1>2 DEF Ended, DownIdle
<1>3. ASSUME NEW p \in Pids, ProcessExits(p) \/ PidReused(p) PROVE UNCHANGED <<manager, child, starting, op>>
  BY <1>3 DEF ProcessExits, PidReused
<1>4. ASSUME NEW i \in Instances, ExitEvent(i) \/ AdoptedPoll(i) PROVE manager' # "down"
  BY <1>4, FinalRows
<1>5. ASSUME NEW c \in Callers, StaleGone(c) \/ StaleGiveUp(c) PROVE manager' # "down"
  BY <1>5 DEF StaleGone, StaleGiveUp
<1>6. ASSUME NEW i \in Instances, LaunchFails(i) \/ \E p \in Pids : Launch(i, p) PROVE manager' # "down"
  BY <1>6 DEF LaunchFails, Launch
<1>7. Boot => manager' # "down"
  BY DEF Boot
<1> QED
  BY <1>0, <1>1, <1>2, <1>3, <1>4, <1>5, <1>6, <1>7, Kinds DEF DownIdle

(* Rows, children and calls refer to runs that were launched. *)
LEMMA NothingAheadKept == ASSUME IInv, TypeOK', [Next]_vars PROVE NothingAhead'
<1> USE SupervisionAssumption
<1>0. TypeOK /\ NothingAhead /\ launched \in Nat /\ launched' \in Nat
  BY DEF IInv, TypeOK
<1>1. launched' \in {launched, launched + 1}
  BY Engines
<1>2. ASSUME NEW r \in Runs, rows'[r] # NoRow PROVE ~(r > launched')
  BY <1>0, <1>1, <1>2, RowsBefore DEF NothingAhead, Runs
<1>3. ASSUME NEW i \in Instances
      PROVE  child'[i].run \in {0, child[i].run} \/ child'[i].run <= launched'
  <2>1. CASE OnlySignalled \/ Ended
    BY <2>1 DEF OnlySignalled, Ended, NoChild
  <2>2. ASSUME NEW j \in Instances, ExitEvent(j) \/ AdoptedPoll(j) PROVE child'[i].run = child[i].run
    BY <2>2, FinalRows
  <2>3. ASSUME NEW j \in Instances, Launches(j)
        PROVE  child'[i].run \in {child[i].run, launched'}
    BY <1>0, <2>3, LaunchShape
  <2>4. CASE Boot
    <3>1. \A r \in Adopted : r \in Runs /\ rows[r] # NoRow /\ launched' = launched
      BY <1>0, <2>4, BootRows DEF Boot, Adopted, Adoptable, LiveOpenRuns, OpenRuns
    <3>2. CASE child'[i] = NoChild
      BY <3>2 DEF NoChild
    <3>3. CASE child'[i] # NoChild
      <4>1. PICK r \in Adopted :
              child'[i] = [run |-> r, pid |-> rows[r].pid, status |-> "running",
                           adopted |-> TRUE, timer |-> "off"]
        BY <1>0, <2>4, <3>3, BootChildren
      <4>2. child'[i].run = r
        BY <4>1
      <4> QED
        BY <1>0, <3>1, <4>2 DEF NothingAhead, Runs
    <3> QED
      BY <3>2, <3>3
  <2>5. ASSUME NEW c \in Callers, StaleGone(c) \/ StaleGiveUp(c) PROVE child' = child
    BY <2>5 DEF StaleGone, StaleGiveUp
  <2>6. ASSUME NEW p \in Pids, ProcessExits(p) \/ PidReused(p) PROVE child' = child
    BY <2>6 DEF ProcessExits, PidReused
  <2>7. launched' <= launched'
    BY <1>0
  <2> QED
    BY <2>1, <2>2, <2>3, <2>4, <2>5, <2>6, <2>7, Kinds DEF Launches
<1>4. \A i \in Instances : child[i].run \in Nat /\ child[i].run <= launched
  BY <1>0 DEF NothingAhead, TypeOK, Child, NoChild, Runs
<1>5. \A i \in Instances : child'[i].run <= launched'
  BY <1>0, <1>1, <1>3, <1>4
<1>6. ASSUME NEW c \in Callers PROVE op'[c].run <= launched'
  <2>1. CASE op'[c] \in {op[c], Idle} \/ Kills(c)
    <3>1. op'[c].run \in {op[c].run, 0} /\ op[c].run \in Nat
      BY <1>0, <2>1 DEF Kills, TypeOK, Op, Idle
    <3> QED
      BY <1>0, <1>1, <3>1 DEF NothingAhead
  <2>2. CASE Waits(c)
    BY <1>0, <1>1, <1>4, <2>2 DEF Waits
  <2>3. CASE BeginsStop(c)
    <3>1. PICK i \in Instances : StaleRun(i) # 0 /\ op'[c].run = StaleRun(i)
      BY <2>3 DEF BeginsStop
    <3>2. StaleRun(i) \in Runs /\ rows[StaleRun(i)].status = "stale"
      BY <1>0, <3>1, StaleOpen
    <3> QED
      BY <1>0, <1>1, <3>1, <3>2 DEF NothingAhead, Runs, NoRow
  <2> QED
    BY <2>1, <2>2, <2>3, OpKinds
<1> QED
  BY <1>2, <1>5, <1>6 DEF NothingAhead

(* A child and its row change together. *)
LEMMA RowsAgreeKept == ASSUME IInv, TypeOK', [Next]_vars PROVE RowsAgree'
<1> USE SupervisionAssumption
<1>0. /\ TypeOK /\ RowsAgree /\ ChildOwnsRun /\ StopOwnsRun /\ NothingAhead
      /\ child \in [Instances -> Child] /\ rows \in [Runs -> Row]
  BY DEF IInv, TypeOK
<1> SUFFICES ASSUME NEW i \in Instances, child'[i].run # 0, rows'[child'[i].run] # NoRow
             PROVE  /\ rows'[child'[i].run].status = child'[i].status
                    /\ rows'[child'[i].run].pid = child'[i].pid
  BY DEF RowsAgree
<1> DEFINE r == child'[i].run
<1>1. r \in Runs
  BY Watches, ChildShape DEF TypeOK, Child, NoChild
<1>2. ASSUME child'[i] = child[i], rows'[r] = rows[r] PROVE rows'[r].status = child'[i].status /\ rows'[r].pid = child'[i].pid
  BY <1>0, <1>2 DEF RowsAgree
<1>3. CASE OnlySignalled
  <2>1. /\ child[i].run = r /\ rows[r] # NoRow /\ child'[i].pid = child[i].pid /\ rows'[r].pid = rows[r].pid
        /\ \/ child'[i].status = child[i].status /\ rows'[r].status = rows[r].status
           \/ child'[i].status = "stopping" /\ rows'[r].status = "stopping"
    BY <1>1, <1>3 DEF OnlySignalled
  <2> QED
    BY <1>0, <2>1 DEF RowsAgree
<1>4. CASE Ended
  BY <1>4 DEF Ended, NoChild
<1>5. ASSUME NEW c \in Callers, StaleGone(c) \/ StaleGiveUp(c)
      PROVE  rows'[r].status = child'[i].status /\ rows'[r].pid = child'[i].pid
  <2>1. child' = child /\ Stopping(c)
    BY <1>5 DEF StaleGone, StaleGiveUp, Stopping
  <2>2. r # op[c].run
    BY <1>0, <2>1 DEF StopOwnsRun
  <2>3. rows'[r] = rows[r]
    BY <1>1, <1>5, <2>2, StaleGoneRows, GiveUpRows
  <2> QED
    BY <1>2, <2>1, <2>3
<1>6. ASSUME NEW j \in Instances, ExitEvent(j) \/ AdoptedPoll(j)
      PROVE  rows'[r].status = child'[i].status /\ rows'[r].pid = child'[i].pid
  <2>1. CASE i = j
    BY <1>6, <2>1, FinalRows
  <2>2. CASE i # j
    <3>1. child'[i] = child[i] /\ child[j].run # r
      BY <1>0, <1>6, <2>2, FinalRows DEF ChildOwnsRun
    <3> QED
      BY <1>1, <1>2, <1>6, <3>1, FinalRows
  <2> QED
    BY <2>1, <2>2
<1>7. ASSUME NEW j \in Instances, Launches(j)
      PROVE  rows'[r].status = child'[i].status /\ rows'[r].pid = child'[i].pid
  <2>1. CASE i = j
    BY <1>0, <1>7, <2>1, LaunchShape
  <2>2. CASE i # j
    <3>1. child'[i] = child[i]
      BY <1>0, <1>7, <2>2, LaunchShape
    <3>2. r # launched + 1
      BY <1>0, <1>1, <3>1 DEF NothingAhead, TypeOK, Runs
    <3>3. rows'[r] = rows[r]
      BY <1>0, <1>1, <1>7, <3>2, LaunchShape
    <3> QED
      BY <1>2, <3>1, <3>3
  <2> QED
    BY <2>1, <2>2
<1>8. ASSUME NEW p \in Pids, ProcessExits(p) \/ PidReused(p)
      PROVE  rows'[r].status = child'[i].status /\ rows'[r].pid = child'[i].pid
  BY <1>2, <1>8 DEF ProcessExits, PidReused, durable
<1>9. CASE Boot
  <2>0. child'[i] # NoChild
    BY DEF NoChild
  <2>1. PICK s \in Adopted :
          child'[i] = [run |-> s, pid |-> rows[s].pid, status |-> "running", adopted |-> TRUE, timer |-> "off"]
    BY <1>0, <1>9, <2>0, BootChildren
  <2>3. s = r
    BY <2>1
  <2>2. rows'[s].status = "running" /\ rows'[s].pid = rows[s].pid
    BY <1>0, <1>1, <1>9, <2>3, BootRows
  <2> QED
    BY <2>1, <2>2, <2>3
<1> QED
  BY <1>3, <1>4, <1>5, <1>6, <1>7, <1>8, <1>9, Kinds DEF Launches

(* A call that stops a stale process has just begun to, or goes on. *)
LEMMA StoppingBefore ==
  ASSUME TypeOK, IInv, [Next]_vars, NEW c \in Callers, Stopping(c)'
  PROVE  \/ BeginsStop(c)
         \/ /\ Stopping(c) /\ op'[c].run = op[c].run /\ op'[c].pid = op[c].pid
            /\ op'[c].inst = op[c].inst /\ op'[c].goal = op[c].goal
<1>1. op'[c] # Idle /\ ~Waits(c)
  BY DEF Stopping, Waits, Idle
<1>2. CASE op'[c] = op[c]
  BY <1>2 DEF Stopping
<1>3. CASE Kills(c)
  <2>1. Stopping(c) /\ op'[c] = [op[c] EXCEPT !.at = "killed"]
    BY <1>3 DEF Kills
  <2>2. op[c] \in [goal : {"start", "stop", "restart", "delete"},
                   at : {"preflight", "launch", "stale", "killed", "exit", "again"},
                   inst : Instances, run : 0..MaxRuns, pid : Pids \cup {NoPid}]
    BY <2>1, CallShape DEF Stopping
  <2> QED
    BY <2>1, <2>2
<1> QED
  BY <1>1, <1>2, <1>3, OpKinds

(* Nothing else takes the run of a stale process that is stopped. *)
LEMMA StopOwnsRunKept == ASSUME IInv, TypeOK', [Next]_vars PROVE StopOwnsRun'
<1> USE SupervisionAssumption
<1>0. /\ TypeOK /\ RowsAgree /\ ChildOwnsRun /\ StopOwnsRun /\ NothingAhead /\ RowHasPid
      /\ op \in [Callers -> Op] /\ child \in [Instances -> Child] /\ rows \in [Runs -> Row]
      /\ launched \in Nat
  BY DEF IInv, TypeOK
<1>1. ASSUME NEW c \in Callers, Stopping(c)'
      PROVE  \/ BeginsStop(c)
             \/ /\ Stopping(c) /\ op'[c].run = op[c].run /\ op'[c].pid = op[c].pid
                /\ op'[c].inst = op[c].inst /\ op'[c].goal = op[c].goal
  BY <1>0, <1>1, StoppingBefore
<1>2. ASSUME NEW i \in Instances, StaleRun(i) # 0
      PROVE  /\ StaleRun(i) \in Runs /\ rows[StaleRun(i)].pid \in Pids
             /\ StaleRun(i) <= launched
             /\ \A j \in Instances : child[j].run # StaleRun(i)
             /\ \A d \in Callers : Stopping(d) => op[d].run # StaleRun(i)
  <2>1. /\ StaleRun(i) \in Runs /\ rows[StaleRun(i)].status = "stale"
        /\ rows[StaleRun(i)].pid \in Pids /\ rows[StaleRun(i)] # NoRow
    BY <1>0, <1>2, StaleOpen DEF NoRow
  <2>2. StaleRun(i) <= launched /\ StaleRun(i) # 0
    BY <1>0, <1>2, <2>1 DEF NothingAhead, Runs
  <2>3. ASSUME NEW j \in Instances, child[j].run = StaleRun(i) PROVE FALSE
    <3>1. child[j].status = "stale"
      BY <1>0, <2>1, <2>2, <2>3 DEF RowsAgree
    <3> QED
      BY <1>0, <2>2, <2>3, <3>1, Watches, ChildShape
  <2>4. ASSUME NEW d \in Callers, Stopping(d), op[d].run = StaleRun(i) PROVE FALSE
    <3>1. rows[op[d].run] \in {NoRow, [inst |-> op[d].inst, pid |-> op[d].pid, status |-> "stopping"]}
      BY <1>0, <2>4 DEF StopOwnsRun
    <3> QED
      BY <2>1, <2>4, <3>1
  <2> QED
    BY <2>1, <2>2, <2>3, <2>4
<1>3. ASSUME NEW c \in Callers, Stopping(c)', BeginsStop(c)
      PROVE  /\ op'[c].run \in Runs /\ op'[c].pid \in Pids /\ op'[c].goal # "start"
             /\ rows'[op'[c].run] \in {NoRow, [inst |-> op'[c].inst, pid |-> op'[c].pid, status |-> "stopping"]}
             /\ \A i \in Instances : child'[i].run # op'[c].run
             /\ \A d \in Callers : Stopping(d)' /\ op'[d].run = op'[c].run => d = c
             /\ Lives(op[c].pid, op[c].run)' => proc'[op'[c].pid].signal # "none"
  BY <1>2, <1>3 DEF BeginsStop, Stopping
<1>4. ASSUME NEW c \in Callers, Stopping(c)', Stopping(c),
             op'[c].run = op[c].run, op'[c].pid = op[c].pid, op'[c].inst = op[c].inst,
             op'[c].goal = op[c].goal
      PROVE  /\ op'[c].run \in Runs /\ op'[c].pid \in Pids /\ op'[c].goal # "start"
             /\ rows'[op'[c].run] \in {NoRow, [inst |-> op'[c].inst, pid |-> op'[c].pid, status |-> "stopping"]}
             /\ \A i \in Instances : child'[i].run # op'[c].run
             /\ \A d \in Callers : Stopping(d)' /\ op'[d].run = op'[c].run => d = c
             /\ Lives(op[c].pid, op[c].run)' => proc'[op'[c].pid].signal # "none"
  <2>0. op[c].run \in Runs /\ op[c].pid \in Pids
    BY <1>0, <1>4 DEF StopOwnsRun
  <2>0a. PICK r \in Runs, p \in Pids : r = op[c].run /\ p = op[c].pid
    BY <2>0
  <2>1. /\ op[c].goal # "start" /\ r <= launched /\ r # 0
        /\ rows[r] \in {NoRow, [inst |-> op[c].inst, pid |-> p, status |-> "stopping"]}
        /\ \A i \in Instances : child[i].run # r
        /\ \A d \in Callers : Stopping(d) /\ op[d].run = r => d = c
        /\ Lives(p, r) => proc[p].signal # "none"
    BY <1>0, <1>4, <2>0a DEF StopOwnsRun, NothingAhead, Runs
  <2>2. Lives(p, r)' => proc'[p].signal # "none"
    BY <1>0, <2>1, LivesBefore DEF Runs
  <2>3. ASSUME NEW d \in Callers, Stopping(d)', op'[d].run = r PROVE d = c
    <3>1. CASE Stopping(d) /\ op[d].run = r
      BY <2>1, <3>1
    <3>2. CASE BeginsStop(d)
      BY <1>2, <1>4, <2>0a, <2>3, <3>2 DEF BeginsStop
    <3> QED
      BY <1>1, <2>3, <3>1, <3>2
  <2>4. /\ rows'[r] \in {NoRow, rows[r]}
        /\ \A i \in Instances : child'[i].run # r
    <3>1. CASE OnlySignalled
      <4>1. \A i \in Instances : child'[i].run # r
        BY <2>1, <3>1 DEF OnlySignalled
      <4>2. ASSUME rows'[r] # NoRow PROVE rows'[r] = rows[r]
        <5>1. /\ rows[r] = [inst |-> op[c].inst, pid |-> p, status |-> "stopping"]
              /\ rows'[r].inst = op[c].inst /\ rows'[r].pid = p /\ rows'[r].status = "stopping"
          BY <2>1, <3>1, <4>2 DEF OnlySignalled
        <5>2. rows'[r] \in [inst : Instances, pid : Pids, status : OpenStatus]
          BY <2>1, <4>2, <5>1 DEF TypeOK, Row, OpenStatus
        <5> QED
          BY <5>1, <5>2
      <4> QED
        BY <4>1, <4>2
    <3>2. CASE Ended \/ Boot
      <4>1. Ended => op'[c] = Idle
        BY DEF Ended
      <4>2. Boot => op'[c] = Idle
        BY DEF Boot, IInv, DownIdle
      <4> QED
        BY <1>4, <3>2, <4>1, <4>2 DEF Stopping, Idle
    <3>3. ASSUME NEW d \in Callers, StaleGone(d) \/ StaleGiveUp(d)
          PROVE  rows'[r] \in {NoRow, rows[r]} /\ child' = child
      <4>1. Stopping(d) /\ ~Stopping(d)'
        <5>1. Stopping(d)
          BY <3>3 DEF StaleGone, StaleGiveUp, Stopping
        <5>2. op[d].goal \in {"stop", "restart", "delete"}
          BY <1>0, <5>1, CallShape DEF StopOwnsRun, Stopping
        <5>3. op' = [op EXCEPT ![d] = Idle] \/ op' = [op EXCEPT ![d] = Call("restart", "again", op[d].inst)]
          BY <3>3, <5>2 DEF StaleGone, StaleGiveUp
        <5>4. op'[d] = Idle \/ op'[d] = Call("restart", "again", op[d].inst)
          BY <1>0, <5>3
        <5>5. op'[d].at \in {"idle", "again"}
          BY <5>4 DEF Idle, Call
        <5> QED
          BY <5>1, <5>5 DEF Stopping
      <4>2. op[d].run # r /\ child' = child
        BY <1>4, <2>0a, <2>1, <3>3, <4>1 DEF StaleGone, StaleGiveUp
      <4> QED
        BY <2>1, <3>3, <4>2, StaleGoneRows, GiveUpRows
    <3>4. ASSUME NEW i \in Instances, ExitEvent(i) \/ AdoptedPoll(i)
          PROVE  rows'[r] = rows[r] /\ \A j \in Instances : child'[j].run = child[j].run
      BY <2>1, <3>4, FinalRows
    <3>5. ASSUME NEW i \in Instances, Launches(i)
          PROVE  /\ rows'[r] = rows[r]
                 /\ \A j \in Instances : child'[j].run \in {child[j].run, launched + 1}
      <4>1. r # launched + 1
        BY <1>0, <2>1 DEF Runs
      <4> QED
        BY <1>0, <2>1, <3>5, <4>1, LaunchShape
    <3>6. ASSUME NEW q \in Pids, ProcessExits(q) \/ PidReused(q) PROVE UNCHANGED <<rows, child>>
      BY <3>6 DEF ProcessExits, PidReused, durable
    <3> QED
      <4>1. r # launched + 1
        BY <1>0, <2>1 DEF Runs
      <4> QED
        BY <2>1, <3>1, <3>2, <3>3, <3>4, <3>5, <3>6, <4>1, Kinds DEF Launches
  <2> QED
    BY <1>4, <2>0a, <2>1, <2>2, <2>3, <2>4
<1> QED
  BY <1>1, <1>3, <1>4 DEF StopOwnsRun

(* Nothing takes the pid of a stale process while it is stopped. *)
LEMMA ToldToStopKept == ASSUME IInv, TypeOK', [Next]_vars PROVE ToldToStop'
<1> USE SupervisionAssumption
<1>0. /\ TypeOK /\ StopOwnsRun /\ ToldToStop /\ DownIdle /\ proc \in [Pids -> Proc]
  BY DEF IInv, TypeOK
<1> SUFFICES ASSUME NEW c \in Callers, Stopping(c)' PROVE proc'[op'[c].pid].signal # "none"
  BY DEF ToldToStop
<1>1. CASE BeginsStop(c)
  BY <1>1 DEF BeginsStop
<1>2. CASE Stopping(c) /\ op'[c].pid = op[c].pid
  <2>1. PICK p \in Pids : op'[c].pid = p /\ op[c].pid = p
    BY <1>0, <1>2 DEF StopOwnsRun
  <2>2. proc[p].signal # "none"
    BY <1>0, <1>2, <2>1 DEF ToldToStop
  <2>3. CASE OnlySignalled
    BY <2>1, <2>2, <2>3 DEF OnlySignalled
  <2>4. ~Ended /\ ~Boot
    <3>1. Ended \/ Boot => op'[c] = Idle
      BY <1>0 DEF Ended, Boot, DownIdle
    <3> QED
      BY <3>1 DEF Stopping, Idle
  <2>5. ASSUME NEW d \in Callers, StaleGone(d) \/ StaleGiveUp(d) PROVE proc' = proc
    BY <2>5 DEF StaleGone, StaleGiveUp
  <2>6. ASSUME NEW i \in Instances, ExitEvent(i) \/ AdoptedPoll(i) PROVE proc'[p] \in {proc[p], Free}
    BY <2>6, FinalRows
  <2>7. ASSUME NEW i \in Instances, Launches(i) PROVE proc'[p] = proc[p]
    BY <1>0, <2>1, <2>7, LaunchShape DEF Available
  <2>8. ASSUME NEW q \in Pids, ProcessExits(q) \/ PidReused(q) PROVE proc'[p].signal # "none"
    <3>1. CASE q # p
      BY <1>0, <2>2, <2>8, <3>1 DEF ProcessExits, PidReused
    <3>2. CASE q = p
      <4>1. ~PidReused(q)
        BY <2>1, <3>2 DEF PidReused, Available
      <4>2. proc'[p] = Free \/ proc'[p].signal = "zombie"
        BY <1>0, <2>8, <3>2, <4>1 DEF ProcessExits, Proc, Free
      <4> QED
        BY <4>2 DEF Free
    <3> QED
      BY <3>1, <3>2
  <2>9. Free.signal # "none"
    BY DEF Free
  <2> QED
    BY <2>1, <2>2, <2>3, <2>4, <2>5, <2>6, <2>7, <2>8, <2>9, Kinds DEF Launches
<1> QED
  BY <1>0, <1>1, <1>2, StoppingBefore

(* An undisturbed engine was one before the step, or has been launched.    *)
LEMMA UndisturbedBefore ==
  ASSUME IInv, TypeOK', [Next]_vars, NEW p \in Pids, NEW r \in Runs, Undisturbed(p, r)'
  PROVE  \/ Undisturbed(p, r) /\ rows'[r].inst = rows[r].inst
         \/ /\ r = launched + 1 /\ launched' = launched + 1
            /\ \E i \in Instances : starting[i] /\ rows'[r].inst = i
<1> USE SupervisionAssumption
<1>0. NothingAhead /\ launched \in Nat
  BY DEF IInv, TypeOK
<1>1. /\ rows'[r] # NoRow /\ Lives(p, r)' /\ proc'[p].signal = "none" /\ r \notin deferred
  BY DeferredGrows DEF Undisturbed
<1>2. CASE rows[r] # NoRow /\ rows'[r].inst = rows[r].inst
  <2>1. r # launched + 1
    BY <1>0, <1>2 DEF NothingAhead, Runs
  <2> QED
    BY <1>1, <1>2, <2>1, LivesBefore DEF Undisturbed
<1> QED
  BY <1>1, <1>2, RowsBefore

(* An undisturbed engine that is flagged as stale was so before, but for a *)
(* start of the manager.                                                   *)
LEMMA StaleBefore ==
  ASSUME IInv, TypeOK', [Next]_vars, ~Boot, NEW p \in Pids, NEW r \in Runs,
         Undisturbed(p, r)', rows'[r].status = "stale"
  PROVE  Undisturbed(p, r) /\ rows'[r].inst = rows[r].inst /\ rows[r].status = "stale"
<1> USE SupervisionAssumption
<1>0. /\ TypeOK /\ NothingAhead /\ StopOwnsRun /\ RowHasPid /\ launched \in Nat
  BY DEF IInv, TypeOK
<1>1. rows'[r] # NoRow /\ Lives(p, r)' /\ proc'[p].signal = "none"
  BY DEF Undisturbed
<1>2. ASSUME NEW i \in Instances, Launches(i) PROVE r # launched + 1 /\ rows'[r] = rows[r]
  BY <1>0, <1>2, LaunchShape
<1>3. Undisturbed(p, r) /\ rows'[r].inst = rows[r].inst
  <2>1. CASE r = launched + 1 /\ launched' = launched + 1
    <3>1. \A i \in Instances : ~Launches(i)
      BY <1>2, <2>1
    <3>2. rows[r] = NoRow
      BY <1>0, <2>1 DEF NothingAhead
    <3>3. ~OnlySignalled /\ ~Ended
      BY <1>1, <3>2 DEF OnlySignalled, Ended
    <3>4. \A i \in Instances : ~(ExitEvent(i) \/ AdoptedPoll(i))
      BY <1>1, <3>2, FinalRows
    <3>5. \A c \in Callers : ~(StaleGone(c) \/ StaleGiveUp(c))
      BY <1>1, <3>2, StaleGoneRows, GiveUpRows
    <3>6. \A q \in Pids : ~(ProcessExits(q) \/ PidReused(q))
      BY <1>1, <3>2 DEF ProcessExits, PidReused, durable
    <3> QED
      BY <3>1, <3>3, <3>4, <3>5, <3>6, Kinds DEF Launches
  <2> QED
    BY <2>1, UndisturbedBefore
<1>4. rows[r].status = "stale"
  <2>1. CASE OnlySignalled \/ Ended
    BY <1>1, <2>1 DEF OnlySignalled, Ended
  <2>2. ASSUME NEW i \in Instances, ExitEvent(i) \/ AdoptedPoll(i) PROVE rows'[r] = rows[r]
    BY <1>1, <2>2, FinalRows, FinalizedDead
  <2>3. ASSUME NEW c \in Callers, StaleGone(c) PROVE rows'[r] = rows[r]
    BY <1>1, <2>3, StaleGoneRows
  <2>4. ASSUME NEW c \in Callers, StaleGiveUp(c) PROVE rows'[r] = rows[r]
    <3>1. op[c].run \in Runs /\ Stopping(c)
      BY <2>4, GiveUpRows
    <3>2. CASE r = op[c].run
      <4>1. rows[r] = [inst |-> op[c].inst, pid |-> op[c].pid, status |-> "stopping"]
        BY <1>0, <1>3, <3>1, <3>2 DEF StopOwnsRun, Undisturbed
      <4>2. p = op[c].pid
        BY <1>0, <1>3, <4>1 DEF RowHasPid, Undisturbed
      <4> QED
        BY <1>0, <1>3, <3>1, <3>2, <4>2 DEF StopOwnsRun, Undisturbed
    <3> QED
      BY <2>4, <3>2, GiveUpRows
  <2>5. ASSUME NEW q \in Pids, ProcessExits(q) \/ PidReused(q) PROVE rows'[r] = rows[r]
    BY <2>5 DEF ProcessExits, PidReused, durable
  <2> QED
    BY <1>2, <2>1, <2>2, <2>3, <2>4, <2>5, Kinds DEF Launches
<1> QED
  BY <1>3, <1>4

(* No engine is flagged behind the back of a call that has looked. *)
LEMMA NoneStaleKept == ASSUME IInv, TypeOK', [Next]_vars PROVE NoneStale'
<1> USE SupervisionAssumption
<1>0. /\ TypeOK /\ NoneStale /\ Newest /\ RowHasPid /\ DownIdle /\ op \in [Callers -> Op]
      /\ proc \in [Pids -> Proc]
  BY DEF IInv, TypeOK
<1>1. CASE Boot
  <2>1. \A c \in Callers : op'[c] = Idle
    BY <1>0, <1>1 DEF Boot, DownIdle
  <2> QED
    BY <2>1 DEF NoneStale, PastStaleTest, Idle
<1>2. CASE ~Boot
  <2> SUFFICES ASSUME NEW c \in Callers, PastStaleTest(c)', NEW p \in Pids, NEW r \in Runs,
                      Undisturbed(p, r)', rows'[r].inst = op'[c].inst, rows'[r].status = "stale"
               PROVE  FALSE
    BY DEF NoneStale
  <2>1. Undisturbed(p, r) /\ rows'[r].inst = rows[r].inst /\ rows[r].status = "stale"
    BY <1>2, StaleBefore
  <2>2. op'[c] # Idle
    BY DEF PastStaleTest, Idle
  <2>3. CASE op'[c] = op[c]
    BY <1>0, <2>1, <2>3 DEF NoneStale, PastStaleTest
  <2>4. CASE Waits(c)
    BY <2>1, <2>4 DEF Waits, NoneStaleOf, PastStaleTest
  <2>5. CASE Kills(c)
    <3>1. Stopping(c) /\ op'[c] = [op[c] EXCEPT !.at = "killed"]
      BY <2>5 DEF Kills
    <3>2. op[c] \in [goal : {"start", "stop", "restart", "delete"},
                     at : {"preflight", "launch", "stale", "killed", "exit", "again"},
                     inst : Instances, run : 0..MaxRuns, pid : Pids \cup {NoPid}]
      BY <1>0, <3>1, CallShape DEF Stopping
    <3>3. op'[c].goal = op[c].goal /\ op'[c].inst = op[c].inst /\ op[c].at # "preflight"
      BY <3>1, <3>2 DEF Stopping
    <3> QED
      BY <1>0, <2>1, <3>3 DEF NoneStale, PastStaleTest
  <2>6. CASE BeginsStop(c)
    <3>1. PICK i \in Instances :
            /\ StaleRun(i) # 0 /\ op'[c].inst = i
            /\ proc'[rows[StaleRun(i)].pid].signal # "none"
      BY <2>6 DEF BeginsStop
    <3>2. /\ StaleRun(i) \in Runs /\ rows[StaleRun(i)].status = "stale"
          /\ rows[StaleRun(i)].inst = i /\ \A s \in StaleRuns(i) : s <= StaleRun(i)
      BY <1>0, <3>1, StaleOpen
    <3>3. rows[r].inst = i /\ rows[r].pid = p
      BY <1>0, <2>1, <3>1 DEF RowHasPid, Undisturbed
    <3>4. r \in StaleRuns(i)
      BY <2>1, <3>3 DEF StaleRuns, Alive, Undisturbed, Lives, Free
    <3>5. StaleRun(i) <= r
      BY <1>0, <2>1, <3>2, <3>3 DEF Newest, NoRow
    <3>6. r = StaleRun(i)
      BY <3>2, <3>4, <3>5 DEF Runs
    <3> QED
      BY <3>1, <3>3, <3>6 DEF Undisturbed
  <2> QED
    BY <2>2, <2>3, <2>4, <2>5, <2>6, OpKinds
<1> QED
  BY <1>1, <1>2

(* No step leaves an engine unwatched, unflagged and undisturbed. *)
LEMMA MindedKept == ASSUME IInv, TypeOK', [Next]_vars PROVE Minded'
<1> USE SupervisionAssumption
<1>0. /\ TypeOK /\ Minded /\ RowHasPid /\ Newest /\ StopOwnsRun /\ NothingAhead
      /\ ChildOwnsRun /\ LaunchesAlone /\ rows \in [Runs -> Row] /\ launched \in Nat
  BY DEF IInv, TypeOK
<1> SUFFICES ASSUME NEW p \in Pids, NEW r \in Runs, r \notin deferred',
                    manager' # "down", Lives(p, r)', rows'[r] # NoRow,
                    proc'[p].signal = "none", rows'[r].status # "stale"
             PROVE  \E i \in Instances : child'[i].run = r /\ Watching(i)'
  BY DEF Minded, Undisturbed
<1>1. Undisturbed(p, r)'
  BY DEF Undisturbed
<1>2. CASE \E i \in Instances : Launches(i)
  <2>1. PICK i \in Instances : Launches(i)
    BY <1>2
  <2>2. CASE r = launched + 1
    <3>1. proc[p].run # launched + 1
      BY <1>0 DEF IInv, OneProcess, TypeOK, Proc, Free
    <3>2. child'[i].status = "running" /\ child'[i].run = r
      BY <1>0, <2>1, <2>2, <3>1, LaunchShape DEF Lives
    <3> QED
      BY <3>2 DEF Watching
  <2>3. CASE r # launched + 1
    <3>1. Undisturbed(p, r) /\ rows'[r] = rows[r] /\ manager # "down"
      BY <1>0, <1>1, <2>1, <2>3, UndisturbedBefore, LaunchShape
    <3>2. PICK j \in Instances : child[j].run = r /\ Watching(j)
      BY <1>0, <3>1 DEF Minded, Undisturbed
    <3>3. j # i
      BY <1>0, <2>1, <3>2, LaunchShape DEF LaunchesAlone
    <3> QED
      BY <1>0, <2>1, <3>2, <3>3, LaunchShape DEF Watching
  <2> QED
    BY <2>2, <2>3
<1>3. CASE Boot
  <2>1. UNCHANGED proc /\ Lives(p, r) /\ deferred' = deferred \cup Deferred
    BY <1>3 DEF Boot, Lives
  <2>2. rows[r] # NoRow
    BY <1>0, <1>3, BootRows DEF OpenRuns, OpenStatus, NoRow
  <2>3. Undisturbed(p, r) /\ rows[r].pid = p
    BY <1>0, <2>1, <2>2 DEF Undisturbed, RowHasPid
  <2>4. r \in LiveOpenRuns
    <3>1. rows[r] \in [inst : Instances, pid : Pids, status : OpenStatus]
      BY <1>0, <2>2, <2>3, SupervisionAssumption DEF Row
    <3> QED
      BY <2>3, <3>1 DEF LiveOpenRuns, OpenRuns, Alive, Undisturbed, Lives, Free
  <2>5. r \in Adoptable
    BY <1>0, <1>3, <2>1, <2>4, BootRows
  <2>6. r \in Adopted
    <3>1. ASSUME NEW t \in Adoptable, rows[t].inst = rows[r].inst PROVE t <= r
      BY <1>0, <2>3, <3>1 DEF Newest, Adoptable, LiveOpenRuns, OpenRuns, OpenStatus, NoRow
    <3> QED
      BY <2>5, <3>1 DEF Adopted
  <2>7. rows[r].inst \in Instances
    BY <2>5, <1>0, SupervisionAssumption DEF Adoptable, TypeOK
  <2>8. child'[rows[r].inst].run = r /\ child'[rows[r].inst].status = "running"
    <3> DEFINE i == rows[r].inst
    <3>1. PICK t \in Adopted :
            /\ rows[t].inst = i /\ \A u \in Adopted : rows[u].inst = i => u = t
            /\ child'[i] = [run |-> t, pid |-> rows[t].pid, status |-> "running",
                            adopted |-> TRUE, timer |-> "off"]
      BY <1>0, <1>3, <2>6, <2>7, BootChildren
    <3> QED
      BY <2>6, <3>1
  <2> QED
    BY <2>7, <2>8 DEF Watching
<1>4. CASE ~Boot /\ ~\E i \in Instances : Launches(i)
  <2>1. Undisturbed(p, r)
    <3>1. ~(r = launched + 1 /\ launched' = launched + 1)
      <4>1. r = launched + 1 => rows[r] = NoRow
        BY <1>0 DEF NothingAhead
      <4>2. OnlySignalled \/ Ended => rows[r] # NoRow
        BY DEF OnlySignalled, Ended
      <4>3. \A i \in Instances : ExitEvent(i) \/ AdoptedPoll(i) => rows[r] # NoRow
        BY FinalRows
      <4>4. \A c \in Callers : StaleGone(c) \/ StaleGiveUp(c) => rows[r] # NoRow
        BY StaleGoneRows, GiveUpRows
      <4>5. \A q \in Pids : ProcessExits(q) \/ PidReused(q) => rows[r] # NoRow
        BY DEF ProcessExits, PidReused, durable
      <4> QED
        BY <1>4, <4>1, <4>2, <4>3, <4>4, <4>5, Kinds DEF Launches
    <3> QED
      BY <1>1, <3>1, UndisturbedBefore
  <2>2. ASSUME manager # "down", rows[r].status # "stale"
        PROVE  \E i \in Instances : child[i].run = r /\ Watching(i)
    BY <1>0, <2>1, <2>2 DEF Minded, Undisturbed
  <2>3. CASE OnlySignalled
    <3>1. rows[r].status # "stale"
      <4>1. rows[r].pid = p
        BY <1>0, <2>1 DEF RowHasPid, Undisturbed
      <4> QED
        BY <2>3, <4>1 DEF OnlySignalled
    <3> QED
      BY <2>2, <2>3, <3>1 DEF OnlySignalled
  <2>4. ~Ended
    BY DEF Ended
  <2>5. ASSUME NEW i \in Instances, ExitEvent(i) \/ AdoptedPoll(i)
        PROVE  \E j \in Instances : child'[j].run = r /\ Watching(j)'
    <3>1. r # child[i].run
      BY <2>5, FinalizedDead
    <3>2. rows'[r] = rows[r] /\ manager # "down" /\ \A j \in Instances : j # i => child'[j] = child[j]
      BY <2>5, <3>1, FinalRows
    <3>3. PICK j \in Instances : child[j].run = r /\ Watching(j)
      BY <2>2, <3>2
    <3> QED
      BY <3>1, <3>2, <3>3 DEF Watching
  <2>6. ASSUME NEW c \in Callers, StaleGone(c) \/ StaleGiveUp(c)
        PROVE  \E j \in Instances : child'[j].run = r /\ Watching(j)'
    <3>1. child' = child /\ manager # "down"
      BY <2>6 DEF StaleGone, StaleGiveUp
    <3>2. rows'[r] = rows[r]
      BY <2>6, StaleGoneRows, GiveUpRows
    <3> QED
      BY <2>2, <3>1, <3>2 DEF Watching
  <2>7. ASSUME NEW q \in Pids, ProcessExits(q) \/ PidReused(q)
        PROVE  \E j \in Instances : child'[j].run = r /\ Watching(j)'
    <3>1. child' = child /\ manager' = manager /\ rows' = rows
      BY <2>7 DEF ProcessExits, PidReused, durable
    <3> QED
      BY <2>2, <3>1 DEF Watching
  <2> QED
    BY <1>4, <2>3, <2>4, <2>5, <2>6, <2>7, Kinds DEF Launches
<1> QED
  BY <1>2, <1>3, <1>4

(* But for a start of the manager, the row of a live engine stays stale    *)
(* until it is marked as stopping, and its child keeps watching it.        *)
LEMMA KeepsStale ==
  ASSUME IInv, TypeOK', [Next]_vars, ~Boot, NEW p \in Pids, NEW r \in Runs, Lives(p, r), Lives(p, r)',
         rows[r].status = "stale", rows'[r] # NoRow, rows'[r].status # "stopping"
  PROVE  rows'[r].status = "stale"
<1> USE SupervisionAssumption
<1>0. TypeOK /\ RowsAgree /\ NothingAhead /\ launched \in Nat
  BY DEF IInv, TypeOK
<1>1. CASE OnlySignalled
  BY <1>1 DEF OnlySignalled
<1>2. CASE Ended
  BY <1>2 DEF Ended
<1>3. ASSUME NEW c \in Callers, StaleGone(c) \/ StaleGiveUp(c) PROVE rows'[r].status = "stale"
  BY <1>3, StaleGoneRows, GiveUpRows
<1>4. ASSUME NEW i \in Instances, ExitEvent(i) \/ AdoptedPoll(i) PROVE rows'[r].status = "stale"
  BY <1>4, FinalizedDead, FinalRows
<1>5. ASSUME NEW i \in Instances, Launches(i) PROVE rows'[r].status = "stale"
  <2>1. r # launched + 1
    BY <1>0 DEF NothingAhead, NoRow
  <2> QED
    BY <1>0, <1>5, <2>1, LaunchShape
<1>6. ASSUME NEW q \in Pids, ProcessExits(q) \/ PidReused(q) PROVE rows'[r].status = "stale"
  BY <1>6 DEF ProcessExits, PidReused, durable
<1> QED
  BY <1>1, <1>2, <1>3, <1>4, <1>5, <1>6, Kinds DEF Launches

LEMMA KeepsWatching ==
  ASSUME IInv, TypeOK', [Next]_vars, ~Boot, manager' # "down", NEW p \in Pids, NEW r \in Runs,
         Lives(p, r), NEW i \in Instances, child[i].run = r, Watching(i)
  PROVE  child'[i].run = r /\ Watching(i)'
<1>0. TypeOK /\ LaunchesAlone
  BY DEF IInv
<1>1. CASE OnlySignalled
  BY <1>1 DEF OnlySignalled
<1>2. ~Ended
  BY DEF Ended
<1>3. ASSUME NEW c \in Callers, StaleGone(c) \/ StaleGiveUp(c) PROVE child' = child
  BY <1>3 DEF StaleGone, StaleGiveUp
<1>4. ASSUME NEW j \in Instances, ExitEvent(j) \/ AdoptedPoll(j) PROVE child'[i] = child[i]
  BY <1>4, FinalizedDead, FinalRows
<1>5. ASSUME NEW j \in Instances, Launches(j) PROVE child'[i] = child[i]
  BY <1>0, <1>5, LaunchShape DEF LaunchesAlone
<1>6. ASSUME NEW q \in Pids, ProcessExits(q) \/ PidReused(q) PROVE child' = child
  BY <1>6 DEF ProcessExits, PidReused
<1> QED
  BY <1>1, <1>2, <1>3, <1>4, <1>5, <1>6, Kinds DEF Launches, Watching

(* A call goes on stopping its stale process until that is gone or it      *)
(* gives up.                                                               *)
LEMMA StopGoesOn ==
  ASSUME IInv, [Next]_vars, manager' # "down", NEW c \in Callers, Stopping(c)
  PROVE  \/ StaleGone(c) \/ StaleGiveUp(c)
         \/ Stopping(c)' /\ op'[c].run = op[c].run /\ op'[c].pid = op[c].pid
<1>0. op \in [Callers -> Op] /\ op[c].at \in {"stale", "killed"} /\ op[c] # Idle /\ manager # "down"
  BY DEF IInv, TypeOK, Stopping, DownIdle, Idle
<1>1. SUFFICES ASSUME op'[c] # op[c], ~StaleGone(c), ~StaleGiveUp(c)
               PROVE  Stopping(c)' /\ op'[c].run = op[c].run /\ op'[c].pid = op[c].pid
  BY DEF Stopping
<1>2. ASSUME NEW d \in Callers, NEW i \in Instances
      PROVE  ~StartCall(d, i) /\ ~StopCall(d, i) /\ ~RestartCall(d, i) /\ ~DeleteCall(d, i)
  BY <1>0, <1>1 DEF StartCall, StopCall, RestartCall, DeleteCall
<1>3. ASSUME NEW d \in Callers
      PROVE  /\ ~CallRefused(d) /\ ~StartProceeds(d) /\ ~RestartProceeds(d) /\ ~ExitWaited(d)
             /\ ~StaleGone(d) /\ ~StaleGiveUp(d)
  <2>1. ~CallRefused(d) /\ ~StartProceeds(d) /\ ~ExitWaited(d)
    BY <1>0, <1>1 DEF CallRefused, StartProceeds, ExitWaited, SupervisorStart
  <2>2. ~RestartProceeds(d)
    BY <1>0, <1>1 DEF RestartProceeds, SupervisorStart
  <2>3. ASSUME StaleGone(d) \/ StaleGiveUp(d) PROVE FALSE
    <3>1. d # c
      BY <1>1, <2>3
    <3>2. \E o : op' = [op EXCEPT ![d] = o]
      <4>1. CASE StaleGiveUp(d)
        BY <4>1 DEF StaleGiveUp
      <4>2. CASE StaleGone(d)
        <5>1. op[d].goal \in {"stop", "restart", "delete"}
          BY <1>0, <4>2, CallShape DEF StaleGone, IInv, StopOwnsRun, Stopping
        <5> QED
          BY <4>2, <5>1 DEF StaleGone
      <4> QED
        BY <2>3, <4>1, <4>2
    <3> QED
      BY <1>0, <1>1, <3>1, <3>2
  <2> QED
    BY <2>1, <2>2, <2>3
<1>4. ASSUME NEW i \in Instances
      PROVE  ~LaunchRefused(i) /\ ~LaunchFails(i) /\ \A p \in Pids : ~Launch(i, p)
  BY <1>0, <1>1 DEF LaunchRefused, LaunchFails, Launch, Returned
<1>5. ASSUME NEW d \in Callers, StaleKill(d)
      PROVE  Stopping(c)' /\ op'[c].run = op[c].run /\ op'[c].pid = op[c].pid
  <2>1. d = c /\ op' = [op EXCEPT ![c].at = "killed"]
    BY <1>0, <1>1, <1>5 DEF StaleKill
  <2>2. op[c] \in [goal : {"start", "stop", "restart", "delete"},
                   at : {"preflight", "launch", "stale", "killed", "exit", "again"},
                   inst : Instances, run : 0..MaxRuns, pid : Pids \cup {NoPid}]
    BY <1>0 DEF Op
  <2> QED
    BY <1>0, <2>1, <2>2 DEF Stopping
<1>6. ASSUME NEW i \in Instances
      PROVE  /\ ~ExitEvent(i) /\ ~AdoptedPoll(i) /\ ~ForceKill(i)
             /\ ~Define(i) /\ ~Break(i) /\ ~Discard(i)
             /\ \A p \in Pids : ~CrashInLaunch(i, p)
  BY <1>1 DEF ExitEvent, AdoptedPoll, Finalize, ForceKill, Define, Break, Discard, CrashInLaunch, Ends
<1>7. ASSUME NEW p \in Pids PROVE ~ProcessExits(p) /\ ~PidReused(p)
  BY <1>1 DEF ProcessExits, PidReused
<1>8. ~Crash /\ ~ShutdownAll /\ ~ShutdownEnds /\ ~Boot /\ ~UNCHANGED vars
  BY <1>0, <1>1 DEF Crash, ShutdownAll, ShutdownEnds, Ends, Boot, vars
<1> QED
  BY <1>2, <1>3, <1>4, <1>5, <1>6, <1>7, <1>8 DEF Next, CallStep, Settle

(* A stale run is marked as stopping by the call that stops it.            *)
LEMMA StaleIsStopped ==
  ASSUME IInv, [Next]_vars, NEW r \in Runs, rows[r].status = "stale", rows'[r].status = "stopping"
  PROVE  \E c \in Callers : op'[c].at = "stale" /\ op'[c].run = r /\ op'[c].pid = rows[r].pid
<1>0. TypeOK /\ RowsAgree /\ op \in [Callers -> Op] /\ rows[r] # NoRow
  BY DEF IInv, TypeOK, NoRow
<1>1. ASSUME NEW S \in SUBSET Instances PROVE r \notin AskedRuns(S)
  BY <1>0, AskedOpen
<1>2. ASSUME NEW S \in SUBSET Instances PROVE ~RequestStop(S)
  BY <1>1 DEF RequestStop, Marked
<1>3. ASSUME NEW c \in Callers, NEW i \in Instances, StopCall(c, i)
      PROVE  op'[c].at = "stale" /\ op'[c].run = r /\ op'[c].pid = rows[r].pid
  <2>1. /\ op' = [op EXCEPT ![c] = [goal |-> "stop", at |-> "stale", inst |-> i,
                                    run |-> StaleRun(i), pid |-> rows[StaleRun(i)].pid]]
        /\ rows' = Marked({StaleRun(i)}, "stopping")
    BY <1>2, <1>3 DEF StopCall
  <2> QED
    BY <1>0, <2>1 DEF Marked
<1>4. ASSUME NEW c \in Callers, NEW i \in Instances, DeleteCall(c, i)
      PROVE  op'[c].at = "stale" /\ op'[c].run = r /\ op'[c].pid = rows[r].pid
  <2>1. r \notin AskedRuns({i})
    BY <1>1
  <2>2. StaleRun(i) # 0
    <3>1. CASE StaleRun(i) = 0
      <4>1. Marked(AskedRuns({i}), "stopping")[r] = rows[r]
        BY <2>1 DEF Marked
      <4>2. rows'[r] \in {rows[r], NoRow}
        BY <1>4, <3>1, <4>1 DEF DeleteCall, Removed
      <4> QED
        BY <4>2 DEF NoRow
    <3> QED
      BY <3>1
  <2>3. /\ op' = [op EXCEPT ![c] = [goal |-> "delete", at |-> "stale", inst |-> i,
                                    run |-> StaleRun(i), pid |-> rows[StaleRun(i)].pid]]
        /\ rows' = Marked({StaleRun(i)} \cup AskedRuns({i}), "stopping")
    BY <1>4, <2>2 DEF DeleteCall
  <2>4. r = StaleRun(i)
    BY <2>1, <2>3 DEF Marked
  <2> QED
    BY <1>0, <2>3, <2>4
<1>5. ASSUME NEW c \in Callers, RestartProceeds(c)
      PROVE  op'[c].at = "stale" /\ op'[c].run = r /\ op'[c].pid = rows[r].pid
  <2> DEFINE i == op[c].inst
  <2>1. i \in Instances /\ op[c] # Idle
    BY <1>0, <1>5, CallShape DEF RestartProceeds, Idle
  <2>2. /\ op' = [op EXCEPT ![c] = [@ EXCEPT !.at = "stale", !.run = StaleRun(i),
                                             !.pid = rows[StaleRun(i)].pid]]
        /\ rows' = Marked({StaleRun(i)}, "stopping")
    BY <1>2, <1>5, <2>1 DEF RestartProceeds
  <2>3. op[c] \in [goal : {"start", "stop", "restart", "delete"},
                   at : {"preflight", "launch", "stale", "killed", "exit", "again"},
                   inst : Instances, run : 0..MaxRuns, pid : Pids \cup {NoPid}]
    BY <1>0, <2>1 DEF Op
  <2>4. r = StaleRun(i)
    BY <2>2 DEF Marked
  <2> QED
    BY <1>0, <2>2, <2>3, <2>4
<1>6. rows' # rows
  OBVIOUS
<1>7. ASSUME NEW c \in Callers
      PROVE  /\ ~CallRefused(c) /\ ~StartProceeds(c) /\ ~ExitWaited(c) /\ ~StaleKill(c)
             /\ \A i \in Instances : ~StartCall(c, i) /\ ~RestartCall(c, i)
  BY <1>6 DEF CallRefused, StartProceeds, ExitWaited, StaleKill, StartCall, RestartCall, durable
<1>8. ASSUME NEW c \in Callers PROVE ~StaleGone(c) /\ ~StaleGiveUp(c)
  <2>1. ASSUME StaleGone(c) PROVE FALSE
    <3>1. rows'[r] \in {NoRow, rows[r]} \/ rows'[r].status = "exited"
      <4>1. \A s : Closed(s, "exited")[r] = rows[r] \/ Closed(s, "exited")[r].status = "exited"
        BY <1>0 DEF Closed, TypeOK, Row
      <4>2. op[c].goal \in {"stop", "restart", "delete"}
        BY <1>0, <2>1, CallShape DEF StaleGone, IInv, StopOwnsRun, Stopping
      <4> QED
        BY <2>1, <4>1, <4>2 DEF StaleGone, Removed
    <3> QED
      BY <3>1 DEF NoRow
  <2>2. ASSUME StaleGiveUp(c) PROVE FALSE
    BY <2>2, GiveUpRows, <1>0 DEF NoRow
  <2> QED
    BY <2>1, <2>2
<1>9. ASSUME NEW i \in Instances
      PROVE  /\ ~LaunchRefused(i) /\ ~ForceKill(i) /\ ~Define(i) /\ ~Break(i) /\ ~Discard(i)
             /\ \A p \in Pids : ~CrashInLaunch(i, p)
  BY <1>6 DEF LaunchRefused, ForceKill, Define, Break, Discard, CrashInLaunch, Ends
<1>10. ASSUME NEW i \in Instances
       PROVE  ~LaunchFails(i) /\ \A p \in Pids : ~Launch(i, p)
  BY <1>0 DEF LaunchFails, Launch, TypeOK
<1>11. ASSUME NEW i \in Instances PROVE ~ExitEvent(i) /\ ~AdoptedPoll(i)
  BY FinalRows, <1>0 DEF NoRow
<1>12. ASSUME NEW p \in Pids PROVE ~ProcessExits(p) /\ ~PidReused(p)
  BY <1>6 DEF ProcessExits, PidReused, durable
<1>13. ~Crash /\ ~ShutdownEnds /\ ~UNCHANGED vars
  BY <1>6 DEF Crash, ShutdownEnds, Ends, vars
<1>14. ~ShutdownAll
  BY <1>2 DEF ShutdownAll
<1>15. ~Boot
  <2>1. Boot => rows'[r] \in {rows[r], [rows[r] EXCEPT !.status = "exited", !.pid = NoPid],
                             [rows[r] EXCEPT !.status = "running"],
                             [rows[r] EXCEPT !.status = "stale"]}
    BY DEF Boot
  <2>2. rows[r] \in [inst : Instances, pid : Pids, status : OpenStatus]
    BY <1>0 DEF TypeOK, Row
  <2> QED
    BY <2>1, <2>2
<1> QED
  BY <1>3, <1>4, <1>5, <1>7, <1>8, <1>9, <1>10, <1>11, <1>12, <1>13, <1>14, <1>15
     DEF Next, CallStep, Settle

(* What a reconcile has passed over stays on its list. *)
LEMMA PassedOverGrows == ASSUME [Next]_vars PROVE passedOver \subseteq passedOver'
<1>1. CASE Boot
  BY <1>1 DEF Boot
<1>2. CASE ~Boot
  BY <1>2 DEF Next, CallStep, Settle, StartCall, StopCall, RestartCall, DeleteCall, CallRefused,
     StartProceeds, RestartProceeds, ExitWaited, StaleGone, StaleKill, StaleGiveUp, ExitEvent,
     AdoptedPoll, ForceKill, Finalize, LaunchRefused, LaunchFails, Launch, Define, Break, Discard,
     ProcessExits, PidReused, CrashInLaunch, Crash, ShutdownAll, ShutdownEnds, Ends, durable, vars
<1> QED
  BY <1>1, <1>2

(* No step leaves an engine that nobody watches, flags or stops, but a     *)
(* reconcile one that was told to stop.                                    *)
LEMMA NobodyForgottenKept ==
  ASSUME IInv, TypeOK', [Next]_vars, Minded' PROVE NobodyForgotten'
<1> USE SupervisionAssumption
<1>0. /\ TypeOK /\ NobodyForgotten /\ RowHasPid /\ Newest /\ StopOwnsRun /\ NothingAhead
      /\ LaunchesAlone /\ rows \in [Runs -> Row] /\ launched \in Nat
  BY DEF IInv, TypeOK
<1> SUFFICES ASSUME NEW p \in Pids, NEW r \in Runs, r \notin deferred',
                    manager' # "down", Lives(p, r)', rows'[r] # NoRow,
                    rows'[r].status # "stale",
                    ~\E i \in Instances : child'[i].run = r /\ Watching(i)',
                    ~\E c \in Callers : Stopping(c)' /\ op'[c].run = r /\ op'[c].pid = p
             PROVE  r \in passedOver' /\ proc'[p].signal # "none"
  BY DEF NobodyForgotten, Stopping
<1>1. proc'[p].signal # "none"
  BY DEF Minded, Undisturbed
<1>2. CASE Boot
  <2>1. UNCHANGED proc /\ Lives(p, r) /\ deferred' = deferred \cup Deferred
    BY <1>2 DEF Boot, Lives
  <2>2. rows[r] # NoRow
    BY <1>0, <1>2, BootRows DEF OpenRuns, OpenStatus, NoRow
  <2>3. rows[r].pid = p
    BY <1>0, <2>1, <2>2 DEF RowHasPid
  <2>4. r \in LiveOpenRuns
    <3>1. rows[r] \in [inst : Instances, pid : Pids, status : OpenStatus]
      BY <1>0, <2>2, <2>3 DEF Row
    <3> QED
      BY <2>1, <2>3, <3>1 DEF LiveOpenRuns, OpenRuns, Alive, Lives, Free
  <2>5. r \in Adoptable
    BY <1>0, <1>2, <2>1, <2>4, BootRows
  <2>6. r \notin Adopted
    <3>1. ASSUME r \in Adopted PROVE FALSE
      <4> DEFINE i == rows[r].inst
      <4>1. i \in Instances
        BY <1>0, <2>2, <2>3 DEF Row
      <4>2. PICK t \in Adopted :
              /\ rows[t].inst = i /\ \A u \in Adopted : rows[u].inst = i => u = t
              /\ child'[i] = [run |-> t, pid |-> rows[t].pid, status |-> "running",
                              adopted |-> TRUE, timer |-> "off"]
        BY <1>0, <1>2, <3>1, <4>1, BootChildren
      <4>3. child'[i].run = r /\ child'[i].status = "running"
        BY <3>1, <4>2
      <4> QED
        BY <4>1, <4>3 DEF Watching
    <3> QED
      BY <3>1
  <2> QED
    BY <1>1, <1>2, <2>5, <2>6 DEF Boot
<1>3. CASE ~Boot
  <2>1. Lives(p, r) /\ rows[r] # NoRow /\ r \notin deferred
    <3>1. ~(r = launched + 1 /\ launched' = launched + 1)
      <4>1. r = launched + 1 => rows[r] = NoRow
        BY <1>0 DEF NothingAhead
      <4>2. OnlySignalled \/ Ended => rows[r] # NoRow
        BY DEF OnlySignalled, Ended
      <4>3. \A i \in Instances : ExitEvent(i) \/ AdoptedPoll(i) => rows[r] # NoRow
        BY FinalRows
      <4>4. \A c \in Callers : StaleGone(c) \/ StaleGiveUp(c) => rows[r] # NoRow
        BY StaleGoneRows, GiveUpRows
      <4>5. \A q \in Pids : ProcessExits(q) \/ PidReused(q) => rows[r] # NoRow
        BY DEF ProcessExits, PidReused, durable
      <4>6. ASSUME NEW i \in Instances, Launches(i), r = launched + 1 PROVE FALSE
        <5>1. proc[p].run # launched + 1
          BY <1>0 DEF IInv, OneProcess, TypeOK, Proc, Free
        <5>2. child'[i].status = "running" /\ child'[i].run = r
          BY <1>0, <4>6, <5>1, LaunchShape DEF Lives
        <5> QED
          BY <5>2 DEF Watching
      <4> QED
        BY <1>3, <4>1, <4>2, <4>3, <4>4, <4>5, <4>6, Kinds DEF Launches
    <3> QED
      BY <3>1, LivesBefore, RowsBefore, DeferredGrows
  <2>2. rows[r].pid = p /\ manager # "down"
    <3>1. rows[r].pid = p
      BY <1>0, <2>1 DEF RowHasPid
    <3>2. manager # "down"
      BY <1>3, Kinds, FinalRows, LaunchShape, <1>0 DEF OnlySignalled, Ended, StaleGone, StaleGiveUp,
         Launches, ProcessExits, PidReused
    <3> QED
      BY <3>1, <3>2
  <2>3. rows[r].status # "stale"
    <3>1. ASSUME rows[r].status = "stale" PROVE FALSE
      <4>1. rows'[r].status # "stopping"
        BY <2>2, <3>1, StaleIsStopped DEF Stopping
      <4> QED
        BY <1>3, <2>1, <3>1, <4>1, KeepsStale
    <3> QED
      BY <3>1
  <2>4. ASSUME NEW i \in Instances, child[i].run = r, Watching(i) PROVE FALSE
    BY <1>3, <2>1, <2>4, KeepsWatching
  <2>5. ASSUME NEW c \in Callers, Stopping(c), op[c].run = r, op[c].pid = p PROVE FALSE
    <3>1. StaleGone(c) \/ StaleGiveUp(c)
      BY <2>5, StopGoesOn
    <3>2. CASE StaleGone(c)
      BY <2>1, <2>5, <3>2 DEF StaleGone, Alive, Lives, Free
    <3>3. CASE StaleGiveUp(c)
      BY <2>5, <3>3, GiveUpRows
    <3> QED
      BY <3>1, <3>2, <3>3
  <2>6. r \in passedOver
    BY <1>0, <2>1, <2>2, <2>3, <2>4, <2>5 DEF NobodyForgotten, Stopping
  <2> QED
    BY <1>1, <2>6, PassedOverGrows
<1> QED
  BY <1>2, <1>3

(* A launch that begins: nothing of its instance is watched or stale.      *)
LEMMA StartKinds ==
  ASSUME IInv, [Next]_vars, NEW i \in Instances, starting'[i]
  PROVE  \/ starting[i]
         \/ /\ ~Watching(i) /\ NoneStaleOf(i) /\ manager # "down"
            /\ UNCHANGED <<child, proc, rows, deferred, passedOver>>
<1> USE SupervisionAssumption
<1>0. TypeOK /\ CallsFit /\ NoneStale /\ starting \in [Instances -> BOOLEAN]
  BY DEF IInv, TypeOK
<1>1. ASSUME NEW c \in Callers, StartProceeds(c) \/ ExitWaited(c)
      PROVE  \/ starting[i]
             \/ /\ ~Watching(i) /\ NoneStaleOf(i) /\ manager # "down"
                /\ UNCHANGED <<child, proc, rows, deferred, passedOver>>
  <2>1. /\ op[c].inst \in Instances /\ op[c].goal \in {"start", "restart"} /\ PastStaleTest(c)
        /\ ExitWaited(c) => op[c].goal = "restart"
    BY <1>0, <1>1, CallShape DEF StartProceeds, ExitWaited, CallsFit, PastStaleTest
  <2>2. NoneStaleOf(op[c].inst)
    BY <1>0, <2>1 DEF NoneStale, NoneStaleOf
  <2>3. SupervisorStart(c, op[c].goal, op[c].inst)
    BY <1>1, <2>1 DEF StartProceeds, ExitWaited
  <2>4. manager # "down" /\ UNCHANGED <<child, proc, rows, deferred, passedOver>>
    BY <1>1 DEF StartProceeds, ExitWaited, durable
  <2> QED
    BY <2>1, <2>2, <2>3, <2>4, StartCalls
<1>2. ASSUME NEW c \in Callers, RestartProceeds(c)
      PROVE  \/ starting[i]
             \/ /\ ~Watching(i) /\ NoneStaleOf(i) /\ manager # "down"
                /\ UNCHANGED <<child, proc, rows, deferred, passedOver>>
  <2>1. op[c].inst \in Instances
    BY <1>0, <1>2, CallShape DEF RestartProceeds
  <2>2. CASE starting' = starting
    BY <2>2
  <2>3. CASE StaleRun(op[c].inst) = 0 /\ ~Watching(op[c].inst)
    <3>1. SupervisorStart(c, "restart", op[c].inst) /\ manager # "down" /\ UNCHANGED <<child, proc, rows, deferred, passedOver>>
      BY <1>2, <2>3 DEF RestartProceeds
    <3> QED
      BY <2>1, <2>3, <3>1, NoStaleRun, StartCalls
  <2> QED
    BY <1>2, <2>2, <2>3 DEF RestartProceeds
<1>3. ASSUME NEW j \in Instances, LaunchRefused(j) PROVE starting[i]
  BY <1>0, <1>3 DEF LaunchRefused
<1>4. ASSUME NEW j \in Instances, Launches(j) PROVE starting[i]
  BY <1>0, <1>4, LaunchShape
<1>5. ~\E procs : Ends(procs)
  BY DEF Ends
<1>6. ASSUME NEW j \in Instances, ExitEvent(j) \/ AdoptedPoll(j) PROVE starting' = starting
  BY <1>6, FinalRows
<1>7. ASSUME UNCHANGED starting PROVE starting[i]
  BY <1>7
<1>8. ASSUME NEW c \in Callers, NEW j \in Instances,
             StartCall(c, j) \/ StopCall(c, j) \/ RestartCall(c, j) \/ DeleteCall(c, j)
      PROVE  UNCHANGED starting
  BY <1>8 DEF StartCall, StopCall, RestartCall, DeleteCall
<1>9. ASSUME NEW c \in Callers, CallRefused(c) \/ StaleGone(c) \/ StaleKill(c) \/ StaleGiveUp(c)
      PROVE  UNCHANGED starting
  BY <1>9 DEF CallRefused, StaleGone, StaleKill, StaleGiveUp
<1>10. ASSUME NEW j \in Instances, ForceKill(j) \/ Define(j) \/ Break(j) \/ Discard(j)
       PROVE  UNCHANGED starting
  BY <1>10 DEF ForceKill, Define, Break, Discard
<1>11. ASSUME NEW p \in Pids, ProcessExits(p) \/ PidReused(p) PROVE UNCHANGED starting
  BY <1>11 DEF ProcessExits, PidReused
<1>12. ShutdownAll \/ Boot \/ UNCHANGED vars => UNCHANGED starting
  BY DEF ShutdownAll, Boot, vars
<1>13. ASSUME NEW j \in Instances, NEW p \in Pids PROVE ~CrashInLaunch(j, p)
  BY <1>5 DEF CrashInLaunch
<1>14. ~Crash /\ ~ShutdownEnds
  BY <1>5 DEF Crash, ShutdownEnds
<1> QED
  BY <1>1, <1>2, <1>3, <1>4, <1>6, <1>7, <1>8, <1>9, <1>10, <1>11, <1>12, <1>13, <1>14
     DEF Next, CallStep, Settle, Launches

(* An instance is launched only when none of its engines is left. *)
LEMMA LaunchesAloneKept == ASSUME IInv, TypeOK', [Next]_vars PROVE LaunchesAlone'
<1> USE SupervisionAssumption
<1>0. /\ TypeOK /\ LaunchesAlone /\ Minded /\ ChildOwnsRun /\ DownIdle
      /\ starting \in [Instances -> BOOLEAN]
  BY DEF IInv, TypeOK
<1> SUFFICES ASSUME NEW i \in Instances, starting'[i]
             PROVE  ~Watching(i)' /\ \A p \in Pids : \A r \in Runs : ~(Undisturbed(p, r)' /\ rows'[r].inst = i)
  BY DEF LaunchesAlone
<1>1. CASE starting[i]
  <2>1. ~Watching(i) /\ \A p \in Pids : \A r \in Runs : ~(Undisturbed(p, r) /\ rows[r].inst = i)
    BY <1>0, <1>1 DEF LaunchesAlone
  <2>2. \A j \in Instances : Launches(j) => j # i
    BY <1>0, LaunchShape
  <2>3. ~Boot
    BY <1>0, <1>1 DEF Boot, DownIdle
  <2>4. ~Watching(i)'
    <3>1. CASE OnlySignalled
      BY <2>1, <3>1 DEF OnlySignalled
    <3>2. ~Ended
      BY DEF Ended
    <3>3. ASSUME NEW j \in Instances, ExitEvent(j) \/ AdoptedPoll(j) PROVE ~Watching(i)'
      BY <2>1, <3>3, FinalRows DEF Watching
    <3>4. ASSUME NEW j \in Instances, Launches(j) PROVE child'[i] = child[i]
      BY <1>0, <2>2, <3>4, LaunchShape
    <3>5. ASSUME NEW c \in Callers, StaleGone(c) \/ StaleGiveUp(c) PROVE child' = child
      BY <3>5 DEF StaleGone, StaleGiveUp
    <3>6. ASSUME NEW q \in Pids, ProcessExits(q) \/ PidReused(q) PROVE child' = child
      BY <3>6 DEF ProcessExits, PidReused
    <3>7. child'[i] = child[i] => ~Watching(i)'
      BY <2>1 DEF Watching
    <3> QED
      BY <2>3, <3>1, <3>2, <3>3, <3>4, <3>5, <3>6, <3>7, Kinds DEF Launches
  <2>5. ASSUME NEW p \in Pids, NEW r \in Runs, Undisturbed(p, r)', rows'[r].inst = i PROVE FALSE
    <3>1. r = launched + 1 /\ launched' = launched + 1 /\ rows[r] = NoRow
      BY <2>1, <2>5, UndisturbedBefore DEF IInv, NothingAhead, TypeOK
    <3>2. rows'[r] # NoRow
      BY <2>5 DEF Undisturbed
    <3>3. ~OnlySignalled /\ ~Ended
      BY <3>1, <3>2 DEF OnlySignalled, Ended
    <3>4. \A j \in Instances : ~(ExitEvent(j) \/ AdoptedPoll(j))
      BY <3>1, <3>2, FinalRows
    <3>5. \A c \in Callers : ~(StaleGone(c) \/ StaleGiveUp(c))
      BY <3>1, <3>2, StaleGoneRows, GiveUpRows
    <3>6. \A q \in Pids : ~(ProcessExits(q) \/ PidReused(q))
      BY <3>1, <3>2 DEF ProcessExits, PidReused, durable
    <3>7. \A j \in Instances : ~Launches(j)
      BY <1>0, <2>2, <2>5, <3>1, LaunchShape
    <3> QED
      BY <2>3, <3>3, <3>4, <3>5, <3>6, <3>7, Kinds DEF Launches
  <2> QED
    BY <2>4, <2>5
<1>2. CASE ~starting[i]
  <2>1. ~Watching(i) /\ NoneStaleOf(i) /\ manager # "down" /\ UNCHANGED <<child, proc, rows, deferred, passedOver>>
    BY <1>2, StartKinds
  <2>2. ASSUME NEW p \in Pids, NEW r \in Runs, Undisturbed(p, r), rows[r].inst = i PROVE FALSE
    <3>1. rows[r].status # "stale"
      BY <2>1, <2>2 DEF NoneStaleOf
    <3>2. PICK j \in Instances : child[j].run = r /\ Watching(j)
      BY <1>0, <2>1, <2>2, <3>1 DEF Minded, Undisturbed
    <3>3. j = i
      BY <1>0, <2>2, <3>2 DEF ChildOwnsRun, Undisturbed, Runs
    <3> QED
      BY <2>1, <3>2, <3>3
  <2> QED
    BY <2>1, <2>2 DEF Watching, Undisturbed, Lives
<1> QED
  BY <1>1, <1>2

(* Calls move along their own paths. *)
LEMMA CallsFitKept == ASSUME IInv, TypeOK', [Next]_vars PROVE CallsFit'
<1>0. TypeOK /\ CallsFit
  BY DEF IInv
<1> SUFFICES ASSUME NEW c \in Callers
             PROVE  /\ op'[c].at \in {"preflight", "launch", "exit", "again"} => op'[c].goal \in {"start", "restart"}
                    /\ op'[c].at \in {"exit", "again"} => op'[c].goal = "restart"
  BY DEF CallsFit
<1>1. CASE op'[c] \in {op[c], Idle}
  BY <1>0, <1>1 DEF CallsFit, Idle
<1>2. CASE Waits(c)
  BY <1>2 DEF Waits
<1>3. CASE BeginsStop(c)
  BY <1>3 DEF BeginsStop
<1>4. CASE Kills(c)
  <2>1. op'[c].at = "killed"
    BY <1>0, <1>4, CallShape DEF Kills, Stopping
  <2> QED
    BY <2>1
<1> QED
  BY <1>1, <1>2, <1>3, <1>4, OpKinds

(* A stop arms the timer once, and what it was armed for stays true. *)
LEMMA TimersKept ==
  ASSUME IInv, TypeOK', [Next]_vars PROVE TimerAfterStop' /\ StopCannotHang'
<1> USE SupervisionAssumption
<1>0. /\ TypeOK /\ TimerAfterStop /\ StopCannotHang /\ proc \in [Pids -> Proc]
      /\ proc' \in [Pids -> Proc]
  BY DEF IInv, TypeOK
<1> DEFINE Safe(i) ==
      /\ child'[i].status = "running" => child'[i].timer = "off"
      /\ child'[i].status = "stopping" =>
           \/ child'[i].timer = "armed"
           \/ ~Alive(child[i].pid)'
           \/ proc'[child'[i].pid].signal \in {"kill", "zombie"}
<1> SUFFICES ASSUME NEW i \in Instances PROVE Safe(i)
  BY DEF TimerAfterStop, StopCannotHang
<1>1. /\ child[i].status = "running" => child[i].timer = "off"
      /\ child[i].status = "stopping" =>
           \/ child[i].timer = "armed"
           \/ ~Alive(child[i].pid)
           \/ proc[child[i].pid].signal \in {"kill", "zombie"}
  BY <1>0 DEF TimerAfterStop, StopCannotHang
<1>2. CASE OnlySignalled
  <2>1. /\ child'[i].pid = child[i].pid
        /\ child'[i].status \in {child[i].status, "stopping"}
        /\ child'[i].status = "running" => child'[i].timer = child[i].timer
        /\ child'[i].status = "stopping" =>
             \/ child'[i].timer = "armed"
             \/ child'[i].timer = child[i].timer /\ child[i].status = "stopping"
             \/ child[i].pid \in Pids => proc'[child[i].pid].signal \in {"kill", "zombie", "free"}
    BY <1>2 DEF OnlySignalled
  <2>2. \A p \in Pids : /\ proc'[p] = Free <=> proc[p] = Free
                        /\ proc[p].signal \in {"kill", "zombie"} => proc'[p] = proc[p]
                        /\ proc'[p].signal = "free" => proc'[p] = Free
    BY <1>0, <1>2 DEF OnlySignalled, Proc, Free
  <2> QED
    BY <1>1, <2>1, <2>2 DEF Alive
<1>3. CASE Ended
  BY <1>3 DEF Ended, NoChild
<1>4. ASSUME child'[i] = child[i], child[i].pid \in Pids => proc'[child[i].pid] \in {proc[child[i].pid], Free}
      PROVE  Safe(i)
  BY <1>1, <1>4 DEF Alive
<1>5. ASSUME NEW c \in Callers, StaleGone(c) \/ StaleGiveUp(c) PROVE child' = child /\ proc' = proc
  BY <1>5 DEF StaleGone, StaleGiveUp
<1>6. ASSUME NEW j \in Instances, ExitEvent(j) \/ AdoptedPoll(j) PROVE Safe(i)
  BY <1>4, <1>6, FinalRows
<1>7. ASSUME NEW j \in Instances, Launches(j) PROVE Safe(i)
  <2>1. CASE i = j
    BY <1>0, <1>7, <2>1, LaunchShape
  <2>2. CASE i # j
    BY <1>0, <1>4, <1>7, <2>2, LaunchShape DEF Available
  <2> QED
    BY <2>1, <2>2
<1>8. ASSUME NEW q \in Pids, ProcessExits(q) PROVE Safe(i)
  <2>1. child' = child /\ \A p \in Pids : p # q => proc'[p] = proc[p]
    BY <1>0, <1>8 DEF ProcessExits
  <2>2. proc'[q] = Free \/ proc'[q].signal = "zombie"
    BY <1>0, <1>8 DEF ProcessExits, Proc, Free
  <2> QED
    BY <1>1, <2>1, <2>2 DEF Alive
<1>9. ASSUME NEW q \in Pids, PidReused(q) PROVE Safe(i)
  <2>1. child' = child /\ \A p \in Pids : p # q => proc'[p] = proc[p]
    BY <1>0, <1>9 DEF PidReused
  <2>2. child[i].pid # q
    BY <1>9 DEF PidReused, Available
  <2> QED
    BY <1>4, <2>1, <2>2
<1>10. CASE Boot
  <2>1. CASE child'[i] = NoChild
    BY <2>1 DEF NoChild
  <2>2. CASE child'[i] # NoChild
    <3>1. PICK r \in Adopted :
            child'[i] = [run |-> r, pid |-> rows[r].pid, status |-> "running",
                         adopted |-> TRUE, timer |-> "off"]
      BY <1>0, <1>10, <2>2, BootChildren
    <3> QED
      BY <3>1
  <2> QED
    BY <2>1, <2>2
<1> QED
  BY <1>2, <1>3, <1>4, <1>5, <1>6, <1>7, <1>8, <1>9, <1>10, Kinds DEF Launches

(* The invariant holds at first, *)
LEMMA InitInv == Init => IInv
<1> USE SupervisionAssumption
<1> SUFFICES ASSUME Init PROVE IInv
  OBVIOUS
<1>1. TypeOK
  BY DEF Init, TypeOK, Proc, Row, Child, Op
<1>2. /\ manager = "up" /\ launched = 0
      /\ \A p \in Pids : proc[p] = Free
      /\ \A r \in Runs : rows[r] = NoRow
      /\ \A i \in Instances : child[i] = NoChild /\ ~starting[i]
      /\ \A c \in Callers : op[c] = Idle
  BY DEF Init
<1>3. /\ Free.run = 0 /\ Free.signal = "free" /\ NoChild.run = 0 /\ NoChild.status = "none"
      /\ Idle.at = "idle" /\ Idle.goal = "none" /\ Idle.run = 0
  BY DEF Free, NoChild, Idle
<1>4. \A p \in Pids : \A r : ~Lives(p, r)
  BY <1>2, <1>3 DEF Lives
<1>5. DownIdle /\ OneProcess /\ NothingAhead /\ RowHasPid
  BY <1>2, <1>3, <1>4 DEF DownIdle, OneProcess, NothingAhead, RowHasPid, Runs
<1>5a. Minded /\ NobodyForgotten
  BY <1>4 DEF Minded, Undisturbed, NobodyForgotten
<1>6. /\ ChildOwnsRun /\ RowsAgree /\ WatchesEngine /\ StopOwnsRun /\ ToldToStop
      /\ TimerAfterStop /\ StopCannotHang
  BY <1>2, <1>3 DEF ChildOwnsRun, RowsAgree, WatchesEngine, Watching, StopOwnsRun, ToldToStop, Stopping,
     TimerAfterStop, StopCannotHang
<1>7. ChildOutlives /\ Newest /\ LaunchesAlone /\ NoneStale
  BY <1>2, <1>3, <1>4 DEF ChildOutlives, Newest, LaunchesAlone, NoneStale, Undisturbed
<1>8. CallsFit
  BY <1>2, <1>3 DEF CallsFit
<1> QED
  BY <1>1, <1>5, <1>5a, <1>6, <1>7, <1>8 DEF IInv

(* and every step keeps it. *)
LEMMA StepInv == IInv /\ [Next]_vars => IInv'
<1> SUFFICES ASSUME IInv, [Next]_vars PROVE IInv'
  OBVIOUS
<1>1. TypeOK'
  BY Typing
<1>2. Newest'
  BY <1>1, DeferredGrows, NewestKept
<1> QED
  BY <1>1, <1>2, DownIdleKept, OneProcessKept, NothingAheadKept, RowHasPidKept, ChildrenKept,
     RowsAgreeKept, StopOwnsRunKept, ToldToStopKept, LaunchesAloneKept, NoneStaleKept, MindedKept, NobodyForgottenKept,
     CallsFitKept, TimersKept
     DEF IInv

(* The inductive invariant holds of every behaviour. *)
THEOREM Invariance == Spec => []IInv
  BY InitInv, StepInv, PTL DEF Spec

-----------------------------------------------------------------------------
(* What follows *)

(* Every record keeps its shape, whatever calls, exits, crashes and starts *)
(* of the manager come in whatever order.                                  *)
THEOREM TypeCorrect == Spec => []TypeOK
  BY Invariance, PTL DEF IInv

(* What the manager believes of an engine is the same in memory and in its *)
(* row.                                                                    *)
THEOREM Agreement == Spec => []RowsAgree
  BY Invariance, PTL DEF IInv

(* No engine lives on behind a closed row or a child that has ended.       *)
LEMMA InvOver == IInv => OverMeansDead
<1> USE SupervisionAssumption
<1> SUFFICES ASSUME IInv PROVE OverMeansDead
  OBVIOUS
<1>0. TypeOK /\ RowHasPid /\ ChildOutlives
  BY DEF IInv
<1>1. ASSUME NEW p \in Pids, NEW r \in Runs, Lives(p, r), rows[r].status \in {"exited", "error"}
      PROVE  FALSE
  <2>1. rows[r] # NoRow /\ rows[r] \in Row
    BY <1>0, <1>1 DEF NoRow, TypeOK
  <2>2. rows[r].pid = NoPid
    BY <1>1, <2>1 DEF Row, OpenStatus
  <2> QED
    BY <1>0, <1>1, <2>1, <2>2 DEF RowHasPid
<1> QED
  BY <1>0, <1>1 DEF OverMeansDead, ChildOutlives

(* A run that is recorded as over is over. *)
THEOREM OverIsDead == Spec => []OverMeansDead
  BY Invariance, InvOver, PTL

(* Of the engines of an instance all but one have been told to stop.       *)
LEMMA InvOne == IInv => OneEngine
<1> SUFFICES ASSUME IInv, NEW p \in Pids, NEW q \in Pids, NEW r \in Runs \ deferred, NEW s \in Runs \ deferred,
                    Lives(p, r), proc[p].signal = "none", Lives(q, s), proc[q].signal = "none",
                    rows[r] # NoRow, rows[s].inst = rows[r].inst
             PROVE  r = s
  BY DEF OneEngine
<1>1. TypeOK /\ Newest
  BY DEF IInv
<1>2. rows[s] # NoRow
  BY <1>1, SupervisionAssumption DEF TypeOK, Row, NoRow
<1>3. Undisturbed(p, r) /\ Undisturbed(q, s)
  BY <1>2 DEF Undisturbed
<1>4. s <= r /\ r <= s
  BY <1>1, <1>2, <1>3 DEF Newest
<1> QED
  BY <1>4, SupervisionAssumption DEF Runs

(* Nobody starts a second engine of an instance under the first. *)
THEOREM OneAtATime == Spec => []OneEngine
  BY Invariance, InvOne, PTL

(* While the manager is up, every engine with a row is watched, flagged or *)
(* being stopped.                                                          *)
THEOREM AllRemembered == Spec => []NobodyForgotten
  BY Invariance, PTL DEF IInv

(* A child that was asked to stop has its force-kill timer armed until the *)
(* kill is sent or the engine is gone.                                     *)
THEOREM StopsEnd == Spec => []StopCannotHang
  BY Invariance, PTL DEF IInv

(* A process that is not an engine is signalled only under the pid of a    *)
(* run that is flagged as stale.                                           *)
Others ==
  \A p \in Pids :
    proc[p].run = Stranger /\ proc[p].signal = "none" /\ proc'[p].signal \in {"term", "kill"}
    => \E r \in Runs : rows[r].status = "stale" /\ rows[r].pid = p

(* No step signals another process. *)
LEMMA StepSpares == IInv /\ [Next]_vars => Others
<1> USE SupervisionAssumption
<1> SUFFICES ASSUME IInv, [Next]_vars, NEW p \in Pids, proc[p].run = Stranger,
                    proc[p].signal = "none",
                    proc'[p].signal \in {"term", "kill"}
             PROVE  \E r \in Runs : rows[r].status = "stale" /\ rows[r].pid = p
  BY DEF Others
<1>0. TypeOK /\ WatchesEngine /\ ToldToStop /\ proc \in [Pids -> Proc] /\ proc[p] # Free
  BY DEF IInv, TypeOK, Free
<1>1. ASSUME NEW i \in Instances, Watching(i) PROVE child[i].pid # p
  BY <1>0, <1>1 DEF WatchesEngine
<1>2. ASSUME NEW S \in SUBSET Instances PROVE p \notin AskedPids(S)
  BY <1>1 DEF AskedPids, Asked, Watching
<1>3. ASSUME NEW ps, p \notin ps, NEW signal, proc' = Signalled(ps, signal) PROVE FALSE
  BY <1>3 DEF Signalled
<1>4. ASSUME NEW i \in Instances, StaleRun(i) # 0, rows[StaleRun(i)].pid = p
      PROVE  \E r \in Runs : rows[r].status = "stale" /\ rows[r].pid = p
  BY <1>0, <1>4, StaleOpen
<1>6. ASSUME NEW S \in SUBSET Instances PROVE ~RequestStop(S)
  BY <1>2, <1>3 DEF RequestStop
<1>7. ASSUME NEW c \in Callers, NEW i \in Instances, StopCall(c, i)
      PROVE  StaleRun(i) # 0 /\ rows[StaleRun(i)].pid = p
  BY <1>3, <1>6, <1>7 DEF StopCall
<1>8. ASSUME NEW c \in Callers, NEW i \in Instances, DeleteCall(c, i)
      PROVE  StaleRun(i) # 0 /\ rows[StaleRun(i)].pid = p
  <2>1. p \notin AskedPids({i})
    BY <1>2
  <2>2. StaleRun(i) # 0
    BY <1>3, <1>8, <2>1 DEF DeleteCall
  <2>3. proc' = Signalled({rows[StaleRun(i)].pid} \cup AskedPids({i}), "term")
    BY <1>8, <2>2 DEF DeleteCall
  <2> QED
    BY <1>3, <2>1, <2>2, <2>3
<1>9. ASSUME NEW c \in Callers, RestartProceeds(c)
      PROVE  \E i \in Instances : StaleRun(i) # 0 /\ rows[StaleRun(i)].pid = p
  <2>1. op[c].inst \in Instances
    BY <1>0, <1>9, CallShape DEF RestartProceeds
  <2>2. ~RequestStop({op[c].inst}) /\ proc' # proc
    BY <1>6, <2>1
  <2> QED
    BY <1>3, <1>9, <2>1, <2>2 DEF RestartProceeds
<1>10. ASSUME NEW c \in Callers PROVE ~StaleKill(c)
  <2>1. ASSUME StaleKill(c) PROVE FALSE
    <3>1. proc' = Signalled({op[c].pid}, "kill") /\ Stopping(c)
      BY <2>1 DEF StaleKill, Stopping
    <3>2. op[c].pid # p
      BY <1>0, <3>1 DEF ToldToStop
    <3> QED
      BY <1>3, <3>1, <3>2
  <2> QED
    BY <2>1
<1>11. ASSUME NEW i \in Instances PROVE ~ForceKill(i)
  <2>1. ASSUME ForceKill(i) PROVE FALSE
    <3>1. proc' = Signalled({child[i].pid}, "kill") /\ Watching(i)
      BY <2>1 DEF ForceKill, Watching
    <3> QED
      BY <1>1, <1>3, <3>1
  <2> QED
    BY <2>1
<1>12. ~ShutdownEnds
  <2>1. ASSUME ShutdownEnds PROVE FALSE
    <3> DEFINE ps == {child[i].pid : i \in {j \in Instances : child[j].status = "stopping"}}
    <3>1. p \notin ps
      BY <1>1 DEF Watching
    <3>2. proc' = Orphaned(Signalled(ps, "kill"))
      BY <2>1 DEF ShutdownEnds, Ends
    <3> HIDE DEF ps
    <3> QED
      BY <3>1, <3>2 DEF Orphaned, Signalled
  <2> QED
    BY <2>1
<1>13. ~Crash
  BY DEF Crash, Ends, Orphaned
<1>14. ASSUME NEW i \in Instances, NEW q \in Pids PROVE ~CrashInLaunch(i, q) /\ ~Launch(i, q)
  <2>1. CASE q = p
    BY <1>0, <2>1 DEF CrashInLaunch, Launch, Available
  <2>2. CASE q # p
    BY <1>0, <2>2 DEF CrashInLaunch, Launch, Ends, Orphaned
  <2> QED
    BY <2>1, <2>2
<1>15. ASSUME NEW i \in Instances PROVE ~ExitEvent(i) /\ ~AdoptedPoll(i)
  BY FinalRows, <1>0 DEF Free
<1>16. ASSUME NEW q \in Pids PROVE ~ProcessExits(q) /\ ~PidReused(q)
  <2>1. ~PidReused(q)
    BY <1>0 DEF PidReused, Available
  <2>2. ~ProcessExits(q)
    <3>1. ASSUME ProcessExits(q), q = p PROVE FALSE
      <4>1. proc'[p] = Free \/ proc'[p].signal = "zombie"
        BY <1>0, <3>1 DEF ProcessExits, Proc, Free
      <4> QED
        BY <4>1 DEF Free
    <3>2. ASSUME ProcessExits(q), q # p PROVE FALSE
      BY <1>0, <3>2 DEF ProcessExits
    <3> QED
      BY <3>1, <3>2
  <2> QED
    BY <2>1, <2>2
<1>17. proc' # proc
  OBVIOUS
<1>18. ~ShutdownAll
  BY <1>6 DEF ShutdownAll
<1>19. ASSUME NEW c \in Callers
       PROVE  /\ ~CallRefused(c) /\ ~StartProceeds(c) /\ ~ExitWaited(c) /\ ~StaleGone(c) /\ ~StaleGiveUp(c)
              /\ \A i \in Instances : ~StartCall(c, i) /\ ~RestartCall(c, i)
  BY <1>17 DEF CallRefused, StartProceeds, ExitWaited, StaleGone, StaleGiveUp, StartCall, RestartCall
<1>20. ASSUME NEW i \in Instances
       PROVE  ~LaunchRefused(i) /\ ~LaunchFails(i) /\ ~Define(i) /\ ~Break(i) /\ ~Discard(i)
  BY <1>17 DEF LaunchRefused, LaunchFails, Define, Break, Discard
<1>21. ~Boot /\ ~UNCHANGED vars
  BY <1>17 DEF Boot, vars
<1> QED
  BY <1>4, <1>7, <1>8, <1>9, <1>10, <1>11, <1>12, <1>13, <1>14, <1>15, <1>16, <1>18, <1>19, <1>20, <1>21
     DEF Next, CallStep, Settle

(* Processes that are not engines of the manager are spared, but for the   *)
(* pid of a stale run.                                                     *)
THEOREM OthersSpared == Spec => SparesOthers
  BY Invariance, StepSpares, PTL DEF Spec, SparesOthers, Others

=============================================================================
