---------------------------- MODULE ProgressProofs ----------------------------
(* No session and no accepted DELETE is left behind: who will carry them on, *)
(* what holds where the deployment rests, and why it comes to rest.          *)
EXTENDS FailureProofs

-----------------------------------------------------------------------------
(* Tasks and their handlers, as long as no process stops and no lease is lost*)

(* All asynq does then is hand out tasks.                                    *)
LEMMA QueueDequeues ==
  ASSUME {"lease", "crash"} \cap Faults = {}, TypeInv, LaunchInv, ActiveTasksRun, Queue
  PROVE  \E w \in Workers, t \in Requests :
           /\ Dequeue(w, t)
           /\ UNCHANGED <<rows, requests, instances>>
           /\ ~Busy(w) /\ workers'[w].pc = "get" /\ workers'[w].task = t
           /\ \A v \in Workers \ {w} : workers'[v] = workers[v]
           /\ tasks[t].state = "pending" /\ tasks'[t] = [tasks[t] EXCEPT !.state = "active"]
           /\ \A x \in Requests \ {t} : tasks'[x] = tasks[x]
<1>1. workers \in [Workers -> Worker] /\ tasks \in [Requests -> Task]
  BY DEF TypeInv, TypeOK, QueueTypeOK
<1>2. ASSUME NEW t \in Requests, Recover(t)
      PROVE  FALSE
  BY <1>2 DEF Recover, ActiveTasksRun, LaunchInv, OneHandlerPerTask
<1>3. PICK w \in Workers, t \in Requests : Dequeue(w, t)
  BY <1>2 DEF Queue, CrashWorker, ShutdownWorker, LoseLease
<1> QED
  BY <1>1, <1>3 DEF Queue, Dequeue

(* All a handler does to the queue is return, under its lease.               *)
LEMMA HandlerReturns ==
  ASSUME TypeInv, LaunchInv, NEW w \in Workers, HandlerStep(w), NEW t, t = workers[w].task
  PROVE  /\ t \in Requests /\ tasks[t].state = "active"
         /\ \A v \in Workers \ {w} : workers'[v] = workers[v] /\ (Busy(v) => workers[v].task # t)
         /\ \A x \in Requests \ {t} : tasks'[x] = tasks[x]
         /\ \/ /\ UNCHANGED tasks /\ Busy(w)' /\ workers'[w].task = t
               /\ \E pc \in PCs \ {"idle"} : \E node : Goto(w, pc, node)
            \/ /\ ~Busy(w)'
               /\ \/ tasks' = [tasks EXCEPT ![t].state = "completed"]
                  \/ tasks' = Retried(t)
<1>1. /\ Busy(w) /\ t \in Requests /\ tasks \in [Requests -> Task]
      /\ workers[w].leased /\ tasks[t].state = "active"
      /\ \A v \in Workers \ {w} : workers'[v] = workers[v] /\ (Busy(v) => workers[v].task # t)
  BY HandlerFrame, SessionsOfWorkers DEF TypeInv, TypeOK, QueueTypeOK, LaunchInv, OneHandlerPerTask
<1>2. CASE ReturnNil(w) \/ ReturnErr(w)
  <2>1. tasks' = [tasks EXCEPT ![t].state = "completed"] \/ tasks' = Retried(t)
    BY <1>1, <1>2 DEF ReturnNil, ReturnErr
  <2>2. \A x \in Requests \ {t} : tasks'[x] = tasks[x]
    BY <1>1, <2>1, RetriedFacts
  <2> QED
    BY <1>1, <1>2, <2>1, <2>2, ReturnFacts
<1>3. ASSUME NEW pc \in PCs \ {"idle"}, NEW node, Goto(w, pc, node)
      PROVE  UNCHANGED tasks /\ Busy(w)' /\ workers'[w].task = t
  BY <1>1, <1>3, GotoFacts DEF Goto
<1>4. \/ ReturnNil(w) \/ ReturnErr(w)
      \/ \E pc \in PCs \ {"idle"} : \E node : Goto(w, pc, node)
  <2>1. CASE Provision(w)
    <3>1. \E pc \in {"boot", "script", "cleanup", "ready", "fail"} : \E node : Goto(w, pc, node)
      BY <2>1 DEF Provision, RunInstances, LaunchFails, WaitForRunning, RunProvision, BootFails,
         TerminateBestEffort
    <3> QED
      BY <3>1 DEF PCs, ProvisionPCs
  <2>2. CASE ~Provision(w)
    <3>1. \/ ReturnNil(w) \/ ReturnErr(w)
          \/ \E pc \in {"claim", "launch", "terminate", "mark"} : \E node : Goto(w, pc, node)
      BY <2>2 DEF HandlerStep, GetFails, GetForProvision, Claim, Exec, MarkReady, Fail,
         GetForTerminate, TerminateNode, MarkTerminated
    <3> QED
      BY <3>1 DEF PCs, ProvisionPCs, TerminatePCs
  <2> QED
    BY <2>1, <2>2
<1> QED
  BY <1>1, <1>2, <1>3, <1>4

(* An active task keeps its handler, and a task to come its whole budget.    *)
LEMMA NextWorkInv ==
  ASSUME {"lease", "crash"} \cap Faults = {}, TypeInv, LaunchInv, WorkInv, [Next]_vars
  PROVE  WorkInv'
<1>1. tasks \in [Requests -> Task]
  BY DEF TypeInv, TypeOK, QueueTypeOK
<1>2. CASE UNCHANGED vars
  BY <1>2 DEF vars, WorkInv, ActiveTasksRun, UntriedBeforeEnqueue, Busy
<1>3. ASSUME NEW r \in Requests, Api(r)
      PROVE  WorkInv'
  <2>1. UNCHANGED workers /\ \A x \in Requests \ {r} : tasks'[x] = tasks[x]
    BY <1>3, ApiFacts, ApiFrameOfOthers
  <2>2. tasks'[r] \in {tasks[r], [state |-> "pending", session |-> requests[r].session, retried |-> 0]}
    BY <1>1, <1>3 DEF Api, RequestStep, Authenticate, RejectBody, InsertSession, LookupSession,
       SetTerminating, EnqueueTask, CrashRequest, Enqueued
  <2> QED
    BY <1>1, <2>1, <2>2 DEF WorkInv, ActiveTasksRun, UntriedBeforeEnqueue, Busy
<1>4. CASE Queue
  <2>1. PICK w \in Workers, t \in Requests :
          /\ ~Busy(w) /\ workers'[w].pc = "get" /\ workers'[w].task = t
          /\ \A v \in Workers \ {w} : workers'[v] = workers[v]
          /\ tasks'[t] = [tasks[t] EXCEPT !.state = "active"]
          /\ \A x \in Requests \ {t} : tasks'[x] = tasks[x]
    BY <1>4, QueueDequeues DEF WorkInv
  <2>2. ActiveTasksRun'
    BY <2>1 DEF WorkInv, ActiveTasksRun, Busy
  <2>3. tasks'[t].state = "active" /\ tasks'[t].retried = tasks[t].retried
    BY <1>1, <2>1 DEF Task
  <2>4. UntriedBeforeEnqueue'
    BY <2>1, <2>3 DEF WorkInv, UntriedBeforeEnqueue
  <2> QED
    BY <2>2, <2>4 DEF WorkInv
<1>5. ASSUME NEW w \in Workers, HandlerStep(w)
      PROVE  WorkInv'
  <2> DEFINE t == workers[w].task
  <2>1. /\ t \in Requests /\ tasks[t].state = "active"
        /\ \A v \in Workers \ {w} : workers'[v] = workers[v] /\ (Busy(v) => workers[v].task # t)
        /\ \A x \in Requests \ {t} : tasks'[x] = tasks[x]
        /\ \/ UNCHANGED tasks /\ Busy(w)' /\ workers'[w].task = t
           \/ tasks' = [tasks EXCEPT ![t].state = "completed"]
           \/ tasks' = Retried(t)
    BY <1>5, HandlerReturns
  <2>2. /\ \/ UNCHANGED tasks /\ Busy(w)' /\ workers'[w].task = t
           \/ tasks'[t].state \in {"pending", "completed", "archived"}
        /\ tasks'[t].state # "none"
    <3>1. CASE UNCHANGED tasks /\ Busy(w)' /\ workers'[w].task = t
      BY <2>1, <3>1
    <3>2. CASE tasks' = [tasks EXCEPT ![t].state = "completed"]
      BY <1>1, <2>1, <3>2 DEF Task
    <3>3. CASE tasks' = Retried(t)
      BY <1>1, <2>1, <3>3, RetriedFacts
    <3> QED
      BY <2>1, <3>1, <3>2, <3>3
  <2>3. ActiveTasksRun'
    BY <2>1, <2>2 DEF WorkInv, ActiveTasksRun, Busy
  <2>4. ASSUME NEW x \in Requests
        PROVE  tasks'[x].state = "none" => tasks'[x].retried = 0
    BY <2>1, <2>2 DEF WorkInv, UntriedBeforeEnqueue
  <2> QED
    BY <2>3, <2>4 DEF WorkInv, UntriedBeforeEnqueue
<1> QED
  BY <1>2, <1>3, <1>4, <1>5 DEF Next, Handlers

LEMMA InitWorkInv == Init => WorkInv
BY DEF Init, QueueInit, NoTask, WorkInv, ActiveTasksRun, UntriedBeforeEnqueue

THEOREM WorkInvariant ==
  ASSUME {"lease", "crash"} \cap Faults = {}
  PROVE  Spec => []WorkInv
<1>1. TypeInv /\ LaunchInv /\ WorkInv /\ [Next]_vars => WorkInv'
  BY NextWorkInv
<1>2. Spec => []TypeInv
  BY InitTypeInv, NextTypeInv, PTL DEF Spec
<1>3. Spec => []LaunchInv
  BY LaunchInvariant
<1> QED
  BY <1>1, <1>2, <1>3, InitWorkInv, PTL DEF Spec

-----------------------------------------------------------------------------
(* Rows that are left waiting, under every fault *)

(* The queue moves a task on, or to the archive, but never completes it.     *)
LEMMA QueueAccounts ==
  ASSUME TypeInv, Queue, NEW r \in Requests, AccountsFor(r)
  PROVE  AccountsFor(r)'
<1>1. tasks \in [Requests -> Task] /\ UNCHANGED requests
  BY DEF TypeInv, TypeOK, QueueTypeOK, Queue
<1>2. tasks'[r] = tasks[r] \/ tasks'[r].state \in {"pending", "active", "archived"}
  <2>1. ASSUME NEW t \in Requests, tasks' = Retried(t)
        PROVE  tasks'[r] = tasks[r] \/ tasks'[r].state \in {"pending", "archived"}
    BY <1>1, <2>1, RetriedFacts
  <2>2. ASSUME NEW t, NEW st \in {"active", "pending"}, tasks' = [tasks EXCEPT ![t].state = st]
        PROVE  tasks'[r] = tasks[r] \/ tasks'[r].state = st
    BY <1>1, <2>2 DEF Task
  <2> QED
    BY <2>1, <2>2 DEF Queue, Dequeue, CrashWorker, ShutdownWorker, LoseLease, Recover
<1> QED
  BY <1>1, <1>2 DEF AccountsFor

(* A request at its enqueue gets its task into the queue, or its client is   *)
(* not told that it did.                                                     *)
LEMMA ApiAccounts ==
  ASSUME TypeInv, NEW r \in Requests, Api(r), NEW x \in Requests, AccountsFor(x)
  PROVE  AccountsFor(x)' /\ requests'[x].session = requests[x].session
<1>1. /\ ServiceTypeOK /\ tasks \in [Requests -> Task]
      /\ requests[r].pc # "done" /\ tasks[r].state = "none"
      /\ \A y \in Requests \ {r} : requests'[y] = requests[y] /\ tasks'[y] = tasks[y]
  BY ApiFrameOfOthers DEF TypeInv, TypeOK, QueueTypeOK
<1>2. CASE x # r
  BY <1>1, <1>2 DEF AccountsFor
<1>3. CASE x = r
  <2>1. requests[r].pc = "enqueue"
    BY <1>1, <1>3 DEF AccountsFor
  <2>2. CASE CrashRequest(r)
    BY <1>1, <1>3, <2>2 DEF CrashRequest, Reply, Proceed, AccountsFor, ServiceTypeOK, Request
  <2>3. CASE EnqueueTask(r)
    <3>1. CASE Reply(r, "202") /\ tasks' = Enqueued(r, requests[r].session)
      BY <1>1, <1>3, <3>1 DEF Enqueued, Reply, Proceed, AccountsFor, ServiceTypeOK, Request
    <3>2. ASSUME NEW response \in {"400", "500"}, Reply(r, response)
          PROVE  AccountsFor(r)' /\ requests'[r].session = requests[r].session
      BY <1>1, <3>2 DEF Reply, Proceed, AccountsFor, ServiceTypeOK, Request
    <3> QED
      BY <1>3, <2>3, <3>1, <3>2 DEF EnqueueTask
  <2> QED
    BY <2>1, <2>2, <2>3 DEF Api, RequestStep, Authenticate, RejectBody, InsertSession,
       LookupSession, SetTerminating
<1> QED
  BY <1>2, <1>3

(* And a row starts to wait with a request that accounts for it.             *)
LEMMA ApiReports ==
  ASSUME TenantInv, OrphansAreReported, NEW r \in Requests, Api(r)
  PROVE  OrphansAreReported'
<1>1. TypeInv /\ ServiceTypeOK
  BY DEF TenantInv, TypeInv, TypeOK
<1>2. \A x \in Requests : AccountsFor(x) =>
        AccountsFor(x)' /\ requests'[x].session = requests[x].session
  BY <1>1, ApiAccounts
<1>3. ASSUME NEW s \in Sessions, rows'[s].status = rows[s].status
      PROVE  /\ rows'[s].status = "pending" =>
                  \E x \in Creates : requests'[x].session = s /\ AccountsFor(x)'
             /\ rows'[s].status = "terminating" =>
                  \E x \in Deletes : requests'[x].session = s /\ AccountsFor(x)'
  BY <1>2, <1>3 DEF OrphansAreReported, Requests
<1>4. ASSUME NEW s \in Sessions, rows'[s].status # rows[s].status
      PROVE  /\ rows'[s].status = "pending" =>
                  \E x \in Creates : requests'[x].session = s /\ AccountsFor(x)'
             /\ rows'[s].status = "terminating" =>
                  \E x \in Deletes : requests'[x].session = s /\ AccountsFor(x)'
  <2>1. CASE InsertSession(r) /\ rows'[s].status = "pending" /\ requests'[r].session = s
    <3>1. \/ requests'[r].pc = "enqueue"
          \/ requests'[r].pc = "done" /\ requests'[r].response = "400"
      BY <1>1, <2>1 DEF InsertSession, Proceed, ServiceTypeOK, Request
    <3> QED
      BY <2>1, <3>1 DEF InsertSession, AccountsFor
  <2>2. CASE SetTerminating(r) /\ rows'[s].status = "terminating" /\ requests[r].session = s
    <3>1. /\ requests'[r].session = s
          /\ \/ requests'[r].pc = "enqueue"
             \/ requests'[r].pc = "done" /\ requests'[r].response = "500"
      BY <1>1, <2>2 DEF SetTerminating, Reply, Proceed, ServiceTypeOK, Request
    <3>2. r \in Deletes
      BY <1>1, <2>2 DEF SetTerminating, TypeInv, TasksHaveSessions, Requests
    <3> QED
      BY <2>2, <3>1, <3>2 DEF AccountsFor
  <2> QED
    BY <1>4, <2>1, <2>2, ApiWrites
<1> QED
  BY <1>3, <1>4 DEF OrphansAreReported

(* A handler completes its task only when the row no longer waits for it.    *)
LEMMA HandlerAccounts ==
  ASSUME TypeInv, NEW w \in Workers, HandlerStep(w), UNCHANGED requests,
         NEW r \in Requests, AccountsFor(r), ~AccountsFor(r)'
  PROVE  /\ r \in Creates => rows'[requests[r].session].status # "pending"
         /\ r \in Deletes => rows'[requests[r].session].status # "terminating"
<1> DEFINE t == workers[w].task
<1>1. /\ tasks \in [Requests -> Task] /\ StoreTypeOK /\ Creates \cap Deletes = {}
      /\ SessionOf(w) \in Sessions /\ t \in Requests
      /\ requests[t].session = SessionOf(w)
      /\ workers[w].node \in Instances \cup {Nil}
  BY HandlerFrame, SessionsOfWorkers, DeploymentAssumption
  DEF TypeInv, TypeOK, QueueTypeOK, Worker
<1>2. tasks'[r] # tasks[r] /\ tasks'[r].state \notin {"pending", "active", "archived"}
  BY DEF AccountsFor
<1>3. r = t /\ ReturnNil(w)
  <2>1. \A pc, node : ~Goto(w, pc, node)
    BY <1>2 DEF Goto
  <2>2. ~ReturnErr(w)
    BY <1>1, <1>2, RetriedFacts DEF ReturnErr
  <2>3. ReturnNil(w)
    BY <2>1, <2>2 DEF HandlerStep, GetFails, GetForProvision, Claim, Exec, Provision, RunInstances,
       LaunchFails, WaitForRunning, RunProvision, BootFails, TerminateBestEffort, MarkReady, Fail,
       GetForTerminate, TerminateNode, MarkTerminated
  <2> QED
    BY <1>1, <1>2, <2>3 DEF ReturnNil
<1>4. CASE GetForProvision(w)
  <2>1. rows[SessionOf(w)].status # "pending" /\ r \in Creates /\ UNCHANGED rows
    BY <1>2, <1>3, <1>4 DEF GetForProvision, Goto, IsProvision
  <2> QED
    BY <1>1, <1>3, <2>1
<1>5. CASE MarkReady(w)
  <2>1. rows' = SetSessionReady(SessionOf(w), workers[w].node)
    BY <1>1, <1>2, <1>5, RetriedFacts DEF MarkReady, ReturnErr
  <2>2. Writes(SessionOf(w), "ready")
    BY <1>1, <2>1, StatementsWrite
  <2> QED
    BY <1>1, <1>3, <2>2 DEF Writes
<1>6. CASE GetForTerminate(w)
  <2>1. ~Exists(SessionOf(w)) /\ UNCHANGED rows
    BY <1>2, <1>6 DEF GetForTerminate, Goto
  <2> QED
    BY <1>1, <1>3, <2>1 DEF Exists
<1>7. CASE MarkTerminated(w)
  <2>1. rows' = SetSessionTerminated(SessionOf(w))
    BY <1>1, <1>2, <1>7, <1>3, RetriedFacts DEF MarkTerminated, ReturnErr
  <2>2. Writes(SessionOf(w), "terminated")
    BY <1>1, <2>1, StatementsWrite
  <2> QED
    BY <1>1, <1>3, <2>2 DEF Writes
<1> QED
  <2>1. \A pc, node : ~Goto(w, pc, node)
    BY <1>2 DEF Goto
  <2>2. ~ReturnErr(w)
    BY <1>1, <1>2, RetriedFacts DEF ReturnErr
  <2> QED
    BY <1>4, <1>5, <1>6, <1>7, <2>1, <2>2 DEF HandlerStep, GetFails, Claim, Exec, Provision,
       RunInstances, LaunchFails, WaitForRunning, RunProvision, BootFails, TerminateBestEffort,
       Fail, TerminateNode

(* No handler writes a status that waits.                                    *)
LEMMA HandlersDoNotWait ==
  ASSUME TypeInv, NEW w \in Workers, HandlerStep(w), NEW s \in Sessions,
         rows'[s].status \in {"pending", "terminating"}
  PROVE  rows'[s].status = rows[s].status
<1>1. StoreTypeOK /\ SessionOf(w) \in Sessions /\ workers[w].node \in Instances \cup {Nil}
  BY HandlerFrame DEF TypeInv, TypeOK, QueueTypeOK, Worker
<1>2. \/ UNCHANGED rows
      \/ rows' = SetSessionStatus(SessionOf(w), "provisioning")
      \/ rows' = SetSessionReady(SessionOf(w), workers[w].node)
      \/ rows' = SetSessionError(SessionOf(w))
      \/ rows' = SetSessionTerminated(SessionOf(w))
  BY DEF HandlerStep, GetFails, GetForProvision, Claim, Exec, Provision, MarkReady, Fail,
     GetForTerminate, TerminateNode, MarkTerminated
<1>3. UNCHANGED rows \/ \E st \in {"provisioning", "ready", "error", "terminated"} : Writes(SessionOf(w), st)
  BY <1>1, <1>2, StatementsWrite DEF Statuses
<1> QED
  BY <1>3 DEF Writes

(* Under every fault, lost leases and shutdowns included: a row that waits   *)
(* has a request or a task behind it, or a failure that somebody was told.   *)
THEOREM OrphansReported == Spec => []OrphansAreReported
<1>1. Init => OrphansAreReported
  BY DEF Init, StoreInit, NoRow, OrphansAreReported
<1>2. ASSUME TenantInv, OrphansAreReported, [Next]_vars
      PROVE  OrphansAreReported'
  <2>1. TypeInv
    BY <1>2 DEF TenantInv
  <2>2. CASE UNCHANGED vars
    BY <1>2, <2>2 DEF vars, OrphansAreReported, AccountsFor
  <2>3. ASSUME NEW r \in Requests, Api(r)
        PROVE  OrphansAreReported'
    BY <1>2, <2>3, ApiReports
  <2>4. CASE Queue
    <3>1. UNCHANGED <<rows, requests>> /\ \A r \in Requests : AccountsFor(r) => AccountsFor(r)'
      BY <2>1, <2>4, QueueAccounts DEF Queue
    <3> QED
      BY <1>2, <3>1 DEF OrphansAreReported, Requests
  <2>5. ASSUME NEW w \in Workers, HandlerStep(w), UNCHANGED requests
        PROVE  OrphansAreReported'
    <3>1. \A s \in Sessions : rows'[s].status \in {"pending", "terminating"} =>
            rows'[s].status = rows[s].status
      BY <2>1, <2>5, HandlersDoNotWait
    <3>2. \A r \in Requests : AccountsFor(r) =>
            \/ AccountsFor(r)'
            \/ /\ r \in Creates => rows'[requests[r].session].status # "pending"
               /\ r \in Deletes => rows'[requests[r].session].status # "terminating"
      BY <2>1, <2>5, HandlerAccounts
    <3> QED
      BY <1>2, <2>5, <3>1, <3>2 DEF OrphansAreReported, Requests
  <2> QED
    BY <1>2, <2>2, <2>3, <2>4, <2>5 DEF Next, Handlers
<1> QED
  BY <1>1, <1>2, TenantInvariant, PTL DEF Spec

-----------------------------------------------------------------------------
(* Who carries on what waits *)

(* Statuses of which JobsBehindRows says something.                          *)
Waiting == {"pending", "terminating", "provisioning"}

(* Other requests and tasks keep the session, and go on being jobs, and no   *)
(* handler leaves its session.                                               *)
LEMMA JobsFrame ==
  ASSUME JobsBehindRows,
         \A s \in Sessions : rows'[s].status \in Waiting => rows'[s].status = rows[s].status,
         \A s \in Sessions : HasHandler(s) => HasHandler(s)',
         \A r \in Requests :
           requests[r].pc = "enqueue" \/ tasks[r].state \in {"pending", "active"} =>
             /\ requests'[r].session = requests[r].session
             /\ requests'[r].pc = "enqueue" \/ tasks'[r].state \in {"pending", "active"}
  PROVE  JobsBehindRows'
<1>1. ASSUME NEW s \in Sessions, NEW kind \in {Creates, Deletes}, HasJob(s, kind)
      PROVE  HasJob(s, kind)'
  BY <1>1 DEF HasJob, Requests
<1> QED
  BY <1>1 DEF JobsBehindRows, Waiting

(* Each is still at its session.                                             *)
LEMMA HandlersStay ==
  ASSUME \A v \in Workers : workers[v].pc \in ProvisionPCs =>
           workers'[v].pc \in ProvisionPCs /\ SessionOf(v)' = SessionOf(v)
  PROVE  \A s \in Sessions : HasHandler(s) => HasHandler(s)'
BY DEF HasHandler

(* What asynq does to an active task it does not lose.                       *)
LEMMA QueueJobs ==
  ASSUME {"lease", "crash"} \cap Faults = {}, TypeInv, LaunchInv, JobsInv, Queue
  PROVE  JobsBehindRows'
<1>1. PICK w \in Workers, t \in Requests :
        /\ UNCHANGED <<rows, requests>> /\ ~Busy(w)
        /\ \A v \in Workers \ {w} : workers'[v] = workers[v]
        /\ tasks[t].state = "pending" /\ tasks'[t] = [tasks[t] EXCEPT !.state = "active"]
        /\ \A x \in Requests \ {t} : tasks'[x] = tasks[x]
  BY QueueDequeues DEF JobsInv
<1>2. tasks'[t].state = "active"
  BY <1>1 DEF TypeInv, TypeOK, QueueTypeOK, Task
<1>3. \A s \in Sessions : HasHandler(s) => HasHandler(s)'
  <2>1. \A v \in Workers : workers[v].pc \in ProvisionPCs =>
          workers'[v].pc \in ProvisionPCs /\ SessionOf(v)' = SessionOf(v)
    <3>1. ASSUME NEW v \in Workers, workers[v].pc \in ProvisionPCs
          PROVE  workers'[v] = workers[v] /\ workers[v].pc \notin {"idle", "get"}
      BY <1>1, <3>1 DEF Busy, ProvisionPCs
    <3> QED
      BY <3>1, QueueFacts
  <2> QED
    BY <2>1, HandlersStay
<1> QED
  BY <1>1, <1>2, <1>3, JobsFrame DEF JobsInv

(* A request is its session's job before the row says what it waits for.     *)
LEMMA ApiJobs ==
  ASSUME {"db", "redis", "hangup", "crash"} \cap Faults = {}, TenantInv, JobsInv,
         NEW r \in Requests, Api(r)
  PROVE  JobsBehindRows'
<1>1. TypeInv /\ ServiceTypeOK /\ tasks \in [Requests -> Task]
  BY DEF TenantInv, TypeInv, TypeOK, QueueTypeOK
<1>2. UNCHANGED workers
  BY <1>1, ApiFacts
<1>3. ~RequestCallMayFail("db") /\ ~RequestCallMayFail("redis")
  BY DEF RequestCallMayFail
<1>4. /\ requests[r].pc # "done" /\ tasks[r].state = "none"
      /\ \A x \in Requests \ {r} : requests'[x] = requests[x] /\ tasks'[x] = tasks[x]
  BY <1>1, ApiFrameOfOthers
<1>5. \A s \in Sessions : HasHandler(s) => HasHandler(s)'
  <2>1. \A v \in Workers : workers[v].pc \in ProvisionPCs => Busy(v)
    BY DEF Busy, ProvisionPCs
  <2> QED
    BY <1>1, <1>2, <2>1, ApiFacts, HandlersStay
<1>6. CASE EnqueueTask(r)
  <2>1. /\ Reply(r, "202") /\ tasks' = Enqueued(r, requests[r].session)
        /\ UNCHANGED rows
    BY <1>3, <1>6 DEF EnqueueTask
  <2>2. tasks'[r].state = "pending" /\ requests'[r].session = requests[r].session
    BY <1>1, <2>1 DEF Enqueued, Reply, Proceed, ServiceTypeOK, Request
  <2> QED
    BY <1>4, <1>5, <2>1, <2>2, JobsFrame DEF JobsInv
<1>7. CASE requests[r].pc # "enqueue" /\ UNCHANGED tasks
  <2>1. ASSUME NEW s \in Sessions, NEW kind \in {Creates, Deletes}, HasJob(s, kind)
        PROVE  HasJob(s, kind)'
    BY <1>4, <1>7, <2>1 DEF HasJob, Requests
  <2>2. ASSUME NEW s \in Sessions, rows'[s].status # rows[s].status,
               rows'[s].status \in Waiting
        PROVE  /\ rows'[s].status = "pending" => HasJob(s, Creates)'
               /\ rows'[s].status = "terminating" => HasJob(s, Deletes)'
               /\ rows'[s].status # "provisioning"
    <3>1. CASE InsertSession(r) /\ requests'[r].session = s /\ rows'[s].status = "pending"
      <4>1. r \in Creates /\ requests'[r].pc = "enqueue"
        BY <1>1, <1>3, <3>1 DEF InsertSession, Proceed, ServiceTypeOK, Request
      <4> QED
        BY <3>1, <4>1 DEF HasJob
    <3>2. CASE SetTerminating(r) /\ requests[r].session = s /\ rows'[s].status = "terminating"
      <4>1. requests'[r].pc = "enqueue" /\ requests'[r].session = s
        BY <1>1, <1>3, <3>2 DEF SetTerminating, Proceed, ServiceTypeOK, Request
      <4>2. r \in Deletes
        BY <1>1, <3>2 DEF SetTerminating, TypeInv, TasksHaveSessions, Requests
      <4> QED
        BY <3>2, <4>1, <4>2 DEF HasJob
    <3> QED
      BY <2>2, <3>1, <3>2, ApiWrites
  <2> QED
    BY <1>5, <2>1, <2>2 DEF JobsInv, JobsBehindRows, Waiting
<1> QED
  BY <1>6, <1>7 DEF Api, RequestStep, Authenticate, RejectBody, InsertSession, LookupSession,
     SetTerminating, CrashRequest

(* A handler that goes on is still its task's, and makes no row wait.        *)
LEMMA GotoJobs ==
  ASSUME TypeInv, JobsInv, NEW w \in Workers, Busy(w), NEW pc \in PCs \ {"idle"}, NEW node,
         Goto(w, pc, node), UNCHANGED requests,
         workers[w].pc \in ProvisionPCs => pc \in ProvisionPCs,
         \A s \in Sessions : rows'[s].status \in Waiting =>
           \/ rows'[s].status = rows[s].status
           \/ s = SessionOf(w) /\ pc \in ProvisionPCs /\ rows'[s].status = "provisioning"
  PROVE  JobsBehindRows'
<1>1. UNCHANGED tasks /\ \A v \in Workers : workers'[v].task = workers[v].task /\ (Busy(v)' <=> Busy(v))
  BY GotoFacts DEF Goto
<1>2. ASSUME NEW s \in Sessions, NEW kind \in {Creates, Deletes}, HasJob(s, kind)
      PROVE  HasJob(s, kind)'
  BY <1>1, <1>2 DEF HasJob
<1>3. \A s \in Sessions : HasHandler(s) => HasHandler(s)'
  <2>1. \A v \in Workers : workers[v].pc \in ProvisionPCs =>
          workers'[v].pc \in ProvisionPCs /\ SessionOf(v)' = SessionOf(v)
    BY GotoFacts
  <2> QED
    BY <2>1, HandlersStay
<1>4. pc \in ProvisionPCs => \A s \in Sessions : s = SessionOf(w) => HasHandler(s)'
  BY GotoFacts DEF HasHandler
<1> QED
  BY <1>2, <1>3, <1>4 DEF JobsInv, JobsBehindRows, Waiting

(* A handler that returns leaves its session waiting for nothing that its    *)
(* own task was there to do.                                                 *)
LEMMA ReturnJobs ==
  ASSUME LaunchInv, JobsInv, NEW w \in Workers, Busy(w), ReturnNil(w) \/ ReturnErr(w),
         UNCHANGED requests,
         \A s \in Sessions : rows'[s].status \in Waiting => rows'[s].status = rows[s].status,
         workers[w].pc \in ProvisionPCs => rows'[SessionOf(w)].status # "provisioning",
         \/ rows'[SessionOf(w)].status \notin {"pending", "terminating"}
         \/ workers[w].task \in Creates /\ rows'[SessionOf(w)].status # "pending"
  PROVE  JobsBehindRows'
<1> DEFINE t == workers[w].task
<1>1. TypeInv /\ t \in Requests /\ tasks \in [Requests -> Task] /\ SessionOf(w) \in Sessions
      /\ requests[t].session = SessionOf(w) /\ requests[t].pc = "done"
  BY SessionsOfWorkers DEF LaunchInv, TypeInv, TypeOK, QueueTypeOK
<1>2. /\ workers[w].leased
      /\ \A v \in Workers : Busy(v) /\ v # w => workers[v].task # t
  BY DEF LaunchInv, OneHandlerPerTask
<1>3. /\ tasks'[t].state # "active"
      /\ \A x \in Requests \ {t} : tasks'[x] = tasks[x]
  <2>1. CASE ReturnNil(w)
    BY <1>1, <1>2, <2>1 DEF ReturnNil, Task
  <2>2. CASE ReturnErr(w)
    BY <1>1, <1>2, <2>2 DEF ReturnErr, Retried, Task
  <2> QED
    BY <2>1, <2>2
<1>4. \A v \in Workers \ {w} : workers'[v] = workers[v]
  BY <1>1, ReturnFacts
<1>5. ASSUME NEW s \in Sessions, NEW kind \in {Creates, Deletes}, HasJob(s, kind),
             s # SessionOf(w) \/ t \notin kind
      PROVE  HasJob(s, kind)'
  <2>1. PICK r \in kind : /\ requests[r].session = s
                          /\ requests[r].pc = "enqueue" \/ tasks[r].state \in {"pending", "active"}
    BY <1>5 DEF HasJob
  <2>2. r # t /\ r \in Requests
    BY <1>1, <1>5, <2>1 DEF Requests
  <2> QED
    BY <1>3, <2>1, <2>2 DEF HasJob
<1>6. t \in Creates => t \notin Deletes
  BY DeploymentAssumption
<1>7. ASSUME NEW s \in Sessions, HasHandler(s), s # SessionOf(w) \/ workers[w].pc \notin ProvisionPCs
      PROVE  HasHandler(s)'
  <2>1. PICK v \in Workers : workers[v].pc \in ProvisionPCs /\ SessionOf(v) = s
    BY <1>7 DEF HasHandler
  <2>2. workers'[v] = workers[v] /\ Busy(v)'
    BY <1>4, <1>7, <2>1 DEF Busy, ProvisionPCs
  <2>3. SessionOf(v)' = SessionOf(v)
    BY <1>1, <2>2, ReturnFacts
  <2> QED
    BY <2>1, <2>2, <2>3 DEF HasHandler
<1> QED
  BY <1>5, <1>6, <1>7 DEF JobsInv, JobsBehindRows, Waiting

LEMMA NextJobs ==
  ASSUME {"lease", "db", "redis", "hangup", "crash"} \cap Faults = {}, TenantInv, NodeInv, LaunchInv,
         JobsInv, [Next]_vars
  PROVE  JobsBehindRows'
<1>1. TypeInv /\ StoreTypeOK /\ rows \in [Sessions -> Row]
  BY DEF NodeInv, TypeInv, TypeOK, StoreTypeOK
<1>2. CASE UNCHANGED vars
  BY <1>2 DEF vars, JobsInv, JobsBehindRows, HasJob, HasHandler, SessionOf, ActiveTasksRun, Busy
<1>3. ASSUME NEW r \in Requests, Api(r)
      PROVE  JobsBehindRows'
  BY <1>3, ApiJobs
<1>4. CASE Queue
  BY <1>1, <1>4, QueueJobs
<1>5. ASSUME NEW w \in Workers, HandlerStep(w), UNCHANGED requests
      PROVE  JobsBehindRows'
  <2>1. Busy(w) /\ SessionOf(w) \in Sessions
    BY <1>1, <1>5, HandlerFrame
  <2>2. ~CallMayFail(w, "db")
    BY <2>1 DEF CallMayFail, LaunchInv, OneHandlerPerTask
  <2>3. \A pc \in ProvisionPCs \cup TerminatePCs : \A node :
          /\ Goto(w, pc, node) /\ UNCHANGED rows
          /\ workers[w].pc \in ProvisionPCs => pc \in ProvisionPCs
          => JobsBehindRows'
    BY <1>1, <1>5, <2>1, GotoJobs DEF PCs, ProvisionPCs, TerminatePCs
  <2>4. ASSUME NEW st \in {"provisioning", "ready", "error", "terminated"}, Writes(SessionOf(w), st)
        PROVE  /\ \A s \in Sessions : rows'[s].status \in Waiting =>
                    \/ rows'[s].status = rows[s].status
                    \/ s = SessionOf(w) /\ rows'[s].status = st
               /\ rows'[SessionOf(w)].status \notin {"pending", "terminating"}
               /\ st # "provisioning" => rows'[SessionOf(w)].status \notin Waiting
    BY <2>1, <2>4 DEF Writes, Exists, Waiting
  <2>5. CASE Provision(w)
    <3>1. \E pc \in {"boot", "script", "cleanup", "ready", "fail"} : \E node : Goto(w, pc, node)
      BY <2>5 DEF Provision, RunInstances, LaunchFails, WaitForRunning, RunProvision, BootFails,
         TerminateBestEffort
    <3> QED
      BY <2>3, <2>5, <3>1 DEF Provision, ProvisionPCs
  <2>6. CASE GetForProvision(w)
    <3>1. UNCHANGED rows /\ workers[w].task \in Creates
      BY <2>6 DEF GetForProvision, IsProvision
    <3>2. CASE Goto(w, "claim", Nil)
      BY <2>3, <3>1, <3>2 DEF ProvisionPCs
    <3>3. CASE ReturnNil(w) /\ rows[SessionOf(w)].status # "pending"
      <4>1. workers[w].pc \notin ProvisionPCs
        BY <2>6 DEF GetForProvision, ProvisionPCs
      <4> QED
        BY <1>5, <2>1, <3>1, <3>3, <4>1, ReturnJobs
    <3> QED
      BY <2>6, <3>2, <3>3 DEF GetForProvision
  <2>7. CASE Claim(w)
    <3>1. /\ Goto(w, "launch", workers[w].node)
          /\ rows' = SetSessionStatus(SessionOf(w), "provisioning")
      BY <2>2, <2>7 DEF Claim, Exec
    <3>2. Writes(SessionOf(w), "provisioning")
      BY <1>1, <2>1, <3>1, StatementsWrite DEF Statuses
    <3>3. \A s \in Sessions : rows'[s].status \in Waiting =>
            \/ rows'[s].status = rows[s].status
            \/ s = SessionOf(w) /\ rows'[s].status = "provisioning"
      BY <2>4, <3>2
    <3> QED
      BY <1>1, <1>5, <2>1, <3>1, <3>3, GotoJobs DEF PCs, ProvisionPCs
  <2>8. CASE MarkReady(w) \/ Fail(w) \/ MarkTerminated(w)
    <3>1. MarkReady(w) => workers[w].node \in Instances
      BY DEF MarkReady, NodeInv, NodesInHand, InHandPCs
    <3>2. \E st \in {"ready", "error", "terminated"} : Writes(SessionOf(w), st)
      BY <1>1, <2>1, <2>2, <2>8, <3>1, StatementsWrite DEF MarkReady, Fail, MarkTerminated
    <3>3. ReturnNil(w) \/ ReturnErr(w)
      BY <2>8 DEF MarkReady, Fail, MarkTerminated
    <3>4. /\ \A s \in Sessions : rows'[s].status \in Waiting => rows'[s].status = rows[s].status
          /\ rows'[SessionOf(w)].status \notin Waiting
      BY <2>1, <2>4, <3>2
    <3> QED
      BY <1>5, <2>1, <3>3, <3>4, ReturnJobs DEF Waiting
  <2>9. CASE GetForTerminate(w)
    <3>1. UNCHANGED rows /\ workers[w].pc = "get" /\ workers[w].task \in Deletes
      BY <1>1, <2>1, <2>9, SessionsOfWorkers DEF GetForTerminate, IsProvision, Requests
    <3>2. Exists(SessionOf(w))
      BY <1>1, <2>1, <3>1, SessionsOfWorkers DEF TenantInv, DeletesByOwners, FoundForUser
    <3>3. \E pc \in {"mark", "terminate"} : \E node : Goto(w, pc, node)
      BY <2>9, <3>2 DEF GetForTerminate
    <3> QED
      BY <2>3, <3>1, <3>3 DEF TerminatePCs, ProvisionPCs
  <2>10. CASE TerminateNode(w)
    BY <2>3, <2>10 DEF TerminateNode, TerminatePCs, ProvisionPCs
  <2>11. ~GetFails(w)
    BY <2>2 DEF GetFails
  <2> QED
    BY <1>5, <2>5, <2>6, <2>7, <2>8, <2>9, <2>10, <2>11 DEF HandlerStep
<1> QED
  BY <1>2, <1>3, <1>4, <1>5 DEF Next, Handlers

(* What becomes of a teardown task: no step loses it.                        *)
LEMMA TeardownsStay ==
  ASSUME {"lease", "db", "redis", "hangup", "crash"} \cap Faults = {}, TenantInv, LaunchInv, JobsInv,
         [Next]_vars
  PROVE  \A s \in Sessions : HasTeardown(s) => HasTeardown(s)'
<1> DEFINE Lasts(t) == requests[t].pc = "enqueue" \/ tasks[t].state \in {"pending", "active", "completed"}
<1>1. TypeInv /\ ServiceTypeOK /\ tasks \in [Requests -> Task]
  BY DEF LaunchInv, TypeInv, TypeOK, QueueTypeOK
<1>2. SUFFICES ASSUME NEW t \in Deletes, NEW s \in Sessions, requests[t].session = s, Lasts(t)
               PROVE  requests'[t].session = s /\ Lasts(t)'
  BY DEF HasTeardown
<1>3. t \in Requests /\ t \notin Creates /\ requests[t].pc \in {"enqueue", "done"}
  BY <1>1, <1>2, DeploymentAssumption DEF Requests, TypeInv, TasksHaveSessions
<1>4. CASE UNCHANGED vars
  BY <1>2, <1>4 DEF vars
<1>5. ASSUME NEW r \in Requests, Api(r)
      PROVE  requests'[t].session = s /\ Lasts(t)'
  <2>1. CASE r = t
    <3>1. EnqueueTask(r)
      BY <1>3, <1>5, <2>1 DEF Api, RequestStep, Authenticate, RejectBody, InsertSession,
         LookupSession, SetTerminating, EnqueueTask, CrashRequest
    <3>2. Reply(r, "202") /\ tasks' = Enqueued(r, requests[r].session)
      BY <3>1 DEF EnqueueTask, RequestCallMayFail
    <3> QED
      BY <1>1, <1>2, <1>3, <2>1, <3>2 DEF Reply, Proceed, Enqueued, ServiceTypeOK, Request
  <2>2. CASE r # t
    BY <1>1, <1>2, <1>3, <1>5, <2>2, ApiFrameOfOthers
  <2> QED
    BY <2>1, <2>2
<1>6. CASE Queue
  <2>1. PICK w \in Workers, x \in Requests :
          /\ UNCHANGED requests
          /\ tasks'[x] = [tasks[x] EXCEPT !.state = "active"]
          /\ \A y \in Requests \ {x} : tasks'[y] = tasks[y]
    BY <1>1, <1>6, QueueDequeues DEF JobsInv
  <2>2. tasks'[x].state = "active"
    BY <1>1, <2>1 DEF Task
  <2> QED
    BY <1>2, <1>3, <2>1, <2>2
<1>7. ASSUME NEW w \in Workers, HandlerStep(w), UNCHANGED requests
      PROVE  requests'[t].session = s /\ Lasts(t)'
  <2>1. Busy(w) /\ workers[w].task \in Requests /\ workers[w].leased
        /\ tasks[workers[w].task].state = "active"
    BY <1>1, <1>7, HandlerFrame, SessionsOfWorkers DEF LaunchInv, OneHandlerPerTask
  <2>2. CASE UNCHANGED tasks
    BY <1>2, <1>7, <2>2
  <2>3. CASE ReturnNil(w)
    <3>1. tasks' = [tasks EXCEPT ![workers[w].task].state = "completed"]
      BY <2>1, <2>3 DEF ReturnNil
    <3> QED
      BY <1>1, <1>2, <1>3, <1>7, <3>1 DEF Task
  <2>4. CASE workers[w].task = t
    <3>1. workers[w].pc \notin ProvisionPCs /\ ~IsProvision(workers[w].task)
      BY <1>1, <1>3, <2>1, <2>4 DEF TypeInv, HandlersHaveTasks, IsProvision
    <3>2. ~CallMayFail(w, "db")
      BY <2>1 DEF CallMayFail
    <3>3. GetForTerminate(w) \/ TerminateNode(w) \/ MarkTerminated(w)
      BY <1>7, <3>1, <3>2 DEF HandlerStep, GetFails, GetForProvision, Claim, Provision,
         RunInstances, LaunchFails, WaitForRunning, RunProvision, BootFails, TerminateBestEffort,
         MarkReady, Fail, ProvisionPCs
    <3>4. UNCHANGED tasks \/ ReturnNil(w)
      BY <3>2, <3>3 DEF GetForTerminate, TerminateNode, MarkTerminated, Goto
    <3> QED
      BY <2>2, <2>3, <3>4
  <2>5. CASE workers[w].task # t
    BY <1>1, <1>2, <1>3, <1>7, <2>5, HandlerReturns
  <2> QED
    BY <2>4, <2>5
<1> QED
  BY <1>4, <1>5, <1>6, <1>7 DEF Next, Handlers

(* A row is told of a teardown, and a client of its DELETE, once there is a  *)
(* task for it, or about to be.                                              *)
LEMMA NextAccepted ==
  ASSUME {"lease", "db", "redis", "hangup", "crash"} \cap Faults = {}, TenantInv, NodeInv, LaunchInv,
         JobsInv, [Next]_vars
  PROVE  AcceptedDeletesLast'
<1>1. TypeInv /\ ServiceTypeOK /\ StoreTypeOK
  BY DEF LaunchInv, TypeInv, TypeOK
<1>2. \A s \in Sessions : HasTeardown(s) => HasTeardown(s)'
  BY TeardownsStay
<1>3. ASSUME NEW s \in Sessions, rows'[s].status \in {"terminating", "terminated"}
      PROVE  HasTeardown(s)'
  <2>1. CASE rows[s].status = rows'[s].status
    BY <1>2, <1>3, <2>1 DEF JobsInv, AcceptedDeletesLast
  <2>2. ASSUME NEW r \in Requests, Api(r), rows[s].status # rows'[s].status
        PROVE  HasTeardown(s)'
    <3>1. SetTerminating(r) /\ requests[r].session = s
      BY <1>3, <2>2, ApiWrites
    <3>2. requests'[r].pc = "enqueue" /\ requests'[r].session = s
      BY <1>1, <3>1 DEF SetTerminating, RequestCallMayFail, Proceed, ServiceTypeOK, Request
    <3>3. r \in Deletes
      BY <1>1, <3>1 DEF SetTerminating, TypeInv, TasksHaveSessions, Requests
    <3> QED
      BY <3>2, <3>3 DEF HasTeardown
  <2>3. ASSUME NEW w \in Workers, HandlerStep(w), rows[s].status # rows'[s].status
        PROVE  HasTeardown(s)'
    <3> DEFINE t == workers[w].task
    <3>1. /\ Busy(w) /\ SessionOf(w) \in Sessions /\ requests[t].session = SessionOf(w)
          /\ tasks[t].state = "active"
      BY <1>1, <2>3, HandlerFrame, SessionsOfWorkers DEF LaunchInv, OneHandlerPerTask
    <3>2. MarkTerminated(w) /\ s = SessionOf(w)
      <4>1. Claim(w) \/ MarkReady(w) \/ Fail(w) \/ MarkTerminated(w)
        BY <2>3 DEF HandlerStep, GetFails, GetForProvision, Provision, GetForTerminate, TerminateNode
      <4>2. MarkReady(w) => workers[w].node \in Instances
        BY DEF MarkReady, NodeInv, NodesInHand, InHandPCs
      <4>3. ASSUME ~MarkTerminated(w)
            PROVE  \E st \in {"provisioning", "ready", "error"} :
                     UNCHANGED rows \/ Writes(SessionOf(w), st)
        BY <1>1, <3>1, <4>1, <4>2, <4>3, StatementsWrite DEF Claim, Exec, MarkReady, Fail, Statuses
      <4>4. ~MarkTerminated(w) => FALSE
        BY <1>3, <2>3, <4>3 DEF Writes, Exists
      <4>5. UNCHANGED rows \/ Writes(SessionOf(w), "terminated")
        BY <1>1, <3>1, <4>4, StatementsWrite DEF MarkTerminated
      <4> QED
        BY <2>3, <4>4, <4>5 DEF Writes
    <3>3. t \in Deletes
      BY <1>1, <3>1, <3>2 DEF MarkTerminated, TypeInv, HandlersHaveTasks, TerminatePCs
    <3>4. HasTeardown(s)
      BY <3>1, <3>2, <3>3 DEF HasTeardown
    <3> QED
      BY <1>2, <3>4
  <2> QED
    BY <2>1, <2>2, <2>3 DEF Next, vars, Queue, Handlers
<1>4. ASSUME NEW r \in Deletes, requests'[r].response = "202"
      PROVE  HasTeardown(requests[r].session)'
  <2>1. r \in Requests
    BY DEF Requests
  <2>2. CASE requests'[r] = requests[r]
    <3>1. /\ requests[r].session \in Sessions \cup {Nil} /\ requests[r].response = "202"
          /\ HasTeardown(requests[r].session)
      BY <1>1, <1>4, <2>1, <2>2 DEF JobsInv, AcceptedDeletesLast, ServiceTypeOK, Request
    <3>2. requests[r].session \in Sessions
      BY <1>1, <3>1, DeploymentAssumption DEF HasTeardown, TypeInv, TasksHaveSessions, Requests
    <3> QED
      BY <1>2, <2>2, <3>1, <3>2 DEF HasTeardown
  <2>3. ASSUME Api(r)
        PROVE  HasTeardown(requests[r].session)'
    <3>1. CASE EnqueueTask(r)
      <4>1. Reply(r, "202") /\ tasks' = Enqueued(r, requests[r].session)
        BY <3>1 DEF EnqueueTask, RequestCallMayFail
      <4>2. tasks'[r].state = "pending"
        BY <1>1, <2>1, <4>1 DEF Enqueued, TypeInv, TypeOK, QueueTypeOK
      <4> QED
        BY <4>2 DEF HasTeardown
    <3>2. CASE LookupSession(r)
      <4>1. PICK s \in Sessions : /\ rows[s].status \in {"terminated", "terminating"}
                                  /\ Proceed(r, "done", s, "202")
        <5>1. "404" # "202" /\ "500" # "202" /\ Nil # "202"
          BY ServiceAssumption DEF Responses
        <5>2. \A s, pc, x : Proceed(r, pc, s, x) => requests'[r].response = x
          BY <1>1, <2>1 DEF Proceed, ServiceTypeOK, Request
        <5> QED
          BY <1>4, <3>2, <5>1, <5>2 DEF LookupSession
      <4>2. HasTeardown(s) /\ requests'[r].session = s
        BY <1>1, <2>1, <4>1 DEF JobsInv, AcceptedDeletesLast, Proceed, ServiceTypeOK, Request
      <4> QED
        BY <1>2, <4>2 DEF HasTeardown
    <3>3. CASE ~EnqueueTask(r) /\ ~LookupSession(r)
      <4>1. r \notin Creates
        BY DeploymentAssumption
      <4>2. \/ Authenticate(r)
            \/ SetTerminating(r)
        BY <2>3, <3>3, <4>1 DEF Api, RequestStep, RejectBody, InsertSession, CrashRequest
      <4>3. requests'[r].response \in {Nil, "401", "500"}
        <5>1. Authenticate(r) => requests'[r].response \in {Nil, "401", "500"}
          <6>1. CASE Reply(r, "401") \/ Reply(r, "500")
            BY <1>1, <2>1, <6>1 DEF Reply, Proceed, ServiceTypeOK, Request
          <6>2. ASSUME NEW c, NEW u, requests' = [requests EXCEPT
                         ![r] = [NoRequest EXCEPT !.pc = "authed", !.subject = c, !.user = u]]
                PROVE  requests'[r].response = Nil
            BY <1>1, <2>1, <6>2 DEF NoRequest, ServiceTypeOK
          <6> QED
            BY <6>1, <6>2 DEF Authenticate
        <5>2. SetTerminating(r) => requests'[r].response \in {Nil, "401", "500"}
          BY <1>1, <2>1 DEF SetTerminating, Reply, Proceed, ServiceTypeOK, Request
        <5> QED
          BY <4>2, <5>1, <5>2
      <4> QED
        BY <1>4, <4>3, ServiceAssumption DEF Responses
    <3> QED
      BY <3>1, <3>2, <3>3
  <2>4. ASSUME NEW x \in Requests, Api(x), x # r
        PROVE  requests'[r] = requests[r]
    BY <1>1, <2>1, <2>4 DEF Api, RequestStep, Authenticate, RejectBody, InsertSession,
       LookupSession, SetTerminating, EnqueueTask, CrashRequest, Reply, Proceed, ServiceTypeOK
  <2> QED
    BY <2>2, <2>3, <2>4 DEF Next, vars, Queue, Handlers
<1> QED
  BY <1>3, <1>4 DEF AcceptedDeletesLast, HasTeardown

(* JobsInv holds where nothing but AWS fails.                                *)
THEOREM JobsInvariant ==
  ASSUME {"lease", "db", "redis", "hangup", "crash"} \cap Faults = {}
  PROVE  Spec => []JobsInv
<1>1. Init => JobsInv
  BY ServiceAssumption
  DEF Init, QueueInit, NoTask, StoreInit, NoRow, ServiceInit, NoRequest, Responses, Requests,
      JobsInv, JobsBehindRows, ActiveTasksRun, AcceptedDeletesLast
<1>2. TenantInv /\ NodeInv /\ LaunchInv /\ WorkInv' /\ JobsInv /\ [Next]_vars => JobsInv'
  BY NextJobs, NextAccepted DEF JobsInv, WorkInv
<1>3. Spec => []LaunchInv /\ []WorkInv
  BY LaunchInvariant, WorkInvariant
<1> QED
  BY <1>1, <1>2, <1>3, TenantInvariant, NodeInvariant, PTL DEF Spec

(* A pending or terminating row has its task enqueued, about to be or at     *)
(* work, a provisioning row its handler, in every deployment in which the    *)
(* database and the queue answer, clients wait and no process stops:         *)
(* whatever AWS does.                                                        *)
THEOREM RowsHaveJobs ==
  ASSUME {"lease", "db", "redis", "hangup", "crash"} \cap Faults = {}
  PROVE  Spec => []JobsBehindRows
<1>1. JobsInv => JobsBehindRows
  BY DEF JobsInv
<1> QED
  BY <1>1, JobsInvariant, PTL

(* Where nothing is under way any more every session is settled, and every   *)
(* DELETE answered 202 has had a complete teardown: under the same           *)
(* assumptions, and whatever AWS does.                                       *)
THEOREM RestingIsSettled ==
  ASSUME {"lease", "db", "redis", "hangup", "crash"} \cap Faults = {}
  PROVE  Spec => []RestIsSettled
<1>1. TypeInv /\ LaunchInv /\ JobsInv => RestIsSettled
  <2> SUFFICES ASSUME TypeInv, LaunchInv, JobsInv, AtRest
               PROVE  /\ \A s \in Sessions : Exists(s) => Settled(s)
                      /\ \A r \in Deletes : requests[r].response = "202" => TornDown(requests[r].session)
    BY DEF RestIsSettled
  <2>1. \A w \in Workers : ~Busy(w)
    BY DEF AtRest, LaunchInv, OneHandlerPerTask, TypeInv, HandlersHaveTasks
  <2>2. ASSUME NEW s \in Sessions, Exists(s)
        PROVE  Settled(s)
    <3>1. rows[s].status \in Statuses
      BY <2>2 DEF Exists, TypeInv, TypeOK, StoreTypeOK, Row
    <3>2. ~HasHandler(s)
      BY <2>1 DEF HasHandler, Busy, ProvisionPCs
    <3>3. ~HasJob(s, Creates) /\ ~HasJob(s, Deletes)
      BY DEF HasJob, AtRest, Requests
    <3> QED
      BY <3>1, <3>2, <3>3 DEF JobsInv, JobsBehindRows, Settled, Statuses
  <2>3. ASSUME NEW r \in Deletes, requests[r].response = "202"
        PROVE  TornDown(requests[r].session)
    <3>1. PICK t \in Deletes : /\ requests[t].session = requests[r].session
                               /\ \/ requests[t].pc = "enqueue"
                                  \/ tasks[t].state \in {"pending", "active", "completed"}
      BY <2>3 DEF JobsInv, AcceptedDeletesLast, HasTeardown
    <3>2. tasks[t].state = "completed"
      BY <3>1 DEF AtRest, Requests
    <3>3. tasks[t].session = requests[t].session
      BY <3>2 DEF TypeInv, TasksHaveSessions, Requests
    <3> QED
      BY <3>1, <3>2, <3>3 DEF TornDown
  <2> QED
    BY <2>2, <2>3
<1>2. Spec => []TypeInv
  BY InitTypeInv, NextTypeInv, PTL DEF Spec
<1>3. Spec => []LaunchInv
  BY LaunchInvariant
<1> QED
  BY <1>1, <1>2, <1>3, JobsInvariant, PTL

-----------------------------------------------------------------------------
(* Why it comes to rest: every step uses up some of one request's work       *)

LEMMA HandlerWorkFacts ==
  /\ HandlerWork("get") = 9 /\ HandlerWork("claim") = 8 /\ HandlerWork("launch") = 7
  /\ HandlerWork("boot") = 6 /\ HandlerWork("script") = 5 /\ HandlerWork("cleanup") = 4
  /\ HandlerWork("fail") = 3 /\ HandlerWork("ready") = 2 /\ HandlerWork("terminate") = 2
  /\ HandlerWork("mark") = 1
  /\ \A pc \in PCs \ {"idle"} : HandlerWork(pc) \in 1..9
  /\ AttemptWork = 10
<1>1. /\ HandlerWork("get") = 9 /\ HandlerWork("claim") = 8 /\ HandlerWork("launch") = 7
      /\ HandlerWork("boot") = 6 /\ HandlerWork("script") = 5 /\ HandlerWork("cleanup") = 4
      /\ HandlerWork("fail") = 3 /\ HandlerWork("ready") = 2 /\ HandlerWork("terminate") = 2
      /\ HandlerWork("mark") = 1
  BY DEF HandlerWork
<1>2. \A pc \in PCs \ {"idle"} : HandlerWork(pc) \in 1..9
  BY <1>1 DEF PCs, ProvisionPCs, TerminatePCs
<1> QED
  BY <1>1, <1>2 DEF AttemptWork

(* What Work counts, case by case.                                           *)
Left(r) == BudgetOf(r) - tasks[r].retried

WorkIs(r) ==
  /\ Left(r) \in Nat
  /\ Work(r) = RequestWork(r) + TaskWork(r)
  /\ RequestWork(r) \in 0..4
  /\ TaskWork(r) \in Nat
  /\ tasks[r].state \in {"none", "pending"} => TaskWork(r) = (Left(r) + 1) * 10
  /\ tasks[r].state \in {"completed", "archived"} => TaskWork(r) = 0
  /\ \A w \in Workers : Busy(w) /\ workers[w].task = r =>
       TaskWork(r) = Left(r) * 10 + HandlerWork(workers[w].pc)

LEMMA Works == TypeInv /\ LaunchInv /\ WorkInv => \A r \in Requests : WorkIs(r)
<1> SUFFICES ASSUME TypeInv, LaunchInv, WorkInv, NEW r \in Requests
             PROVE  WorkIs(r)
  OBVIOUS
<1>1. /\ tasks[r] \in Task /\ requests[r] \in Request
      /\ tasks[r].retried \in Nat /\ BudgetOf(r) \in Nat /\ tasks[r].retried <= BudgetOf(r)
  BY DeploymentAssumption
  DEF TypeInv, TypeOK, QueueTypeOK, ServiceTypeOK, Task, RetriesWithinBudget, BudgetOf
<1>2. Left(r) \in Nat
  BY <1>1 DEF Left
<1>3. RequestWork(r) \in 0..4
  BY <1>1 DEF RequestWork, Request
<1>4. tasks[r].state \in {"none", "pending"} => TaskWork(r) = (Left(r) + 1) * 10
  BY HandlerWorkFacts DEF TaskWork, Left
<1>5. tasks[r].state \in {"completed", "archived"} => TaskWork(r) = 0
  BY DEF TaskWork
<1>6. ASSUME NEW w \in Workers, Busy(w), workers[w].task = r
      PROVE  /\ tasks[r].state = "active"
             /\ HandlerWork(workers[w].pc) \in 1..9
             /\ TaskWork(r) = Left(r) * 10 + HandlerWork(workers[w].pc)
  <2>1. \A v \in Workers : Busy(v) /\ workers[v].task = r => v = w
    BY <1>6 DEF LaunchInv, OneHandlerPerTask
  <2>2. HandlerOf(r) = w
    BY <1>6, <2>1 DEF HandlerOf
  <2>3. tasks[r].state = "active"
    BY <1>6 DEF LaunchInv, OneHandlerPerTask
  <2>4. TaskWork(r) = Left(r) * 10 + HandlerWork(workers[w].pc)
    BY <2>2, <2>3, HandlerWorkFacts DEF TaskWork, Left
  <2>5. workers[w].pc \in PCs \ {"idle"}
    BY <1>6 DEF Busy, TypeInv, TypeOK, QueueTypeOK, Worker
  <2> QED
    BY <2>3, <2>4, <2>5, HandlerWorkFacts
<1>7. TaskWork(r) \in Nat
  <2>1. CASE tasks[r].state = "active"
    <3>1. PICK w \in Workers : Busy(w) /\ workers[w].task = r
      BY <2>1 DEF WorkInv, ActiveTasksRun
    <3> QED
      BY <1>2, <1>6, <3>1
  <2>2. CASE tasks[r].state # "active"
    BY <1>1, <1>2, <1>4, <1>5, <2>2 DEF Task
  <2> QED
    BY <2>1, <2>2
<1> QED
  BY <1>2, <1>3, <1>4, <1>5, <1>6, <1>7 DEF WorkIs, Work

(* What a step does not touch has as much work left as before.               *)
LEMMA OthersKeepWork ==
  ASSUME TypeInv, LaunchInv, WorkInv, (\A r \in Requests : WorkIs(r))',
         NEW q \in Requests, requests'[q] = requests[q], tasks'[q] = tasks[q],
         \A w \in Workers : Busy(w) /\ workers[w].task = q => workers'[w] = workers[w]
  PROVE  Work(q)' = Work(q)
<1>1. WorkIs(q) /\ WorkIs(q)'
  BY Works
<1>2. RequestWork(q)' = RequestWork(q) /\ Left(q)' = Left(q)
  BY DEF RequestWork, Left, BudgetOf
<1>3. TaskWork(q)' = TaskWork(q)
  <2>1. CASE tasks[q].state = "active"
    <3>1. PICK w \in Workers : Busy(w) /\ workers[w].task = q
      BY <2>1 DEF WorkInv, ActiveTasksRun
    <3>2. workers'[w] = workers[w] /\ Busy(w)' /\ workers'[w].task = q
      BY <3>1 DEF Busy
    <3> QED
      BY <1>1, <1>2, <3>1, <3>2 DEF WorkIs
  <2>2. CASE tasks[q].state # "active"
    <3>1. tasks[q].state \in {"none", "pending", "completed", "archived"}
      BY <2>2 DEF TypeInv, TypeOK, QueueTypeOK, Task
    <3> QED
      BY <1>1, <1>2, <3>1 DEF WorkIs
  <2> QED
    BY <2>1, <2>2
<1> QED
  BY <1>1, <1>2, <1>3 DEF WorkIs

(* A request goes on, and its enqueue puts no more into the queue than Work  *)
(* had set aside.                                                            *)
LEMMA ApiShrinks ==
  ASSUME TypeInv, LaunchInv, WorkInv, (\A r \in Requests : WorkIs(r))',
         NEW r \in Requests, Api(r)
  PROVE  /\ Work(r)' \in 0..(Work(r) - 1)
         /\ \A q \in Requests \ {r} : Work(q)' = Work(q)
<1>1. /\ ServiceTypeOK /\ tasks \in [Requests -> Task]
      /\ requests[r].pc # "done" /\ tasks[r].state = "none"
      /\ \A x \in Requests \ {r} : requests'[x] = requests[x] /\ tasks'[x] = tasks[x]
      /\ UNCHANGED workers
  BY ApiFrameOfOthers, ApiFacts DEF TypeInv, TypeOK, QueueTypeOK
<1>2. tasks'[r].state \in {"none", "pending"} /\ tasks'[r].retried = tasks[r].retried
  <2>1. tasks' = tasks \/ tasks' = Enqueued(r, requests[r].session)
    BY DEF Api, RequestStep, Authenticate, RejectBody, InsertSession, LookupSession,
       SetTerminating, EnqueueTask, CrashRequest
  <2>2. tasks[r].retried = 0
    BY <1>1 DEF WorkInv, UntriedBeforeEnqueue
  <2> QED
    BY <1>1, <2>1, <2>2 DEF Enqueued
<1>3. RequestWork(r)' < RequestWork(r)
  <2>1. requests[r] \in Request
    BY <1>1 DEF ServiceTypeOK
  <2>2. \/ requests[r].pc = "idle" /\ requests'[r].pc \in {"authed", "done"}
        \/ requests[r].pc = "authed" /\ requests'[r].pc \in {"set", "enqueue", "done"}
        \/ requests[r].pc = "set" /\ requests'[r].pc \in {"enqueue", "done"}
        \/ requests[r].pc = "enqueue" /\ requests'[r].pc = "done"
    <3>1. Authenticate(r) =>
            requests[r].pc = "idle" /\ requests'[r].pc \in {"authed", "done"}
      <4>1. \A x : Reply(r, x) => requests'[r].pc = "done"
        BY <1>1 DEF Reply, Proceed, ServiceTypeOK, Request
      <4>2. \A c, u : requests' = [requests EXCEPT
                   ![r] = [NoRequest EXCEPT !.pc = "authed", !.subject = c, !.user = u]]
                 => requests'[r].pc = "authed"
        BY <1>1 DEF NoRequest, ServiceTypeOK
      <4> QED
        BY <4>1, <4>2 DEF Authenticate
    <3>2. \A pc, s, x : Proceed(r, pc, s, x) => requests'[r].pc = pc
      BY <1>1 DEF Proceed, ServiceTypeOK, Request
    <3>3. RejectBody(r) \/ InsertSession(r) \/ LookupSession(r) =>
            requests[r].pc = "authed" /\ requests'[r].pc \in {"set", "enqueue", "done"}
      BY <3>2 DEF RejectBody, InsertSession, LookupSession, Reply
    <3>4. SetTerminating(r) =>
            requests[r].pc = "set" /\ requests'[r].pc \in {"enqueue", "done"}
      BY <3>2 DEF SetTerminating, Reply
    <3>5. EnqueueTask(r) => requests[r].pc = "enqueue" /\ requests'[r].pc = "done"
      BY <3>2 DEF EnqueueTask, Reply
    <3>6. CrashRequest(r) =>
            requests[r].pc \in {"authed", "set", "enqueue"} /\ requests'[r].pc = "done"
      BY <3>2 DEF CrashRequest, Reply
    <3> QED
      BY <3>1, <3>3, <3>4, <3>5, <3>6 DEF Api, RequestStep
  <2> QED
    BY <2>2 DEF RequestWork
<1>4. WorkIs(r) /\ WorkIs(r)'
  BY Works
<1>5. TaskWork(r)' = TaskWork(r)
  <2>1. Left(r)' = Left(r)
    BY <1>2 DEF Left, BudgetOf
  <2> QED
    BY <1>1, <1>2, <1>4, <2>1 DEF WorkIs
<1>6. Work(r)' \in 0..(Work(r) - 1)
  BY <1>3, <1>4, <1>5 DEF WorkIs
<1>7. \A q \in Requests \ {r} : Work(q)' = Work(q)
  BY <1>1, OthersKeepWork
<1> QED
  BY <1>6, <1>7

(* Each call of a handler brings it nearer its return.                       *)
LEMMA HandlerLowers ==
  ASSUME TypeInv, NEW w \in Workers, HandlerStep(w), Busy(w)'
  PROVE  HandlerWork(workers'[w].pc) < HandlerWork(workers[w].pc)
<1>1. Busy(w)
  BY HandlerFrame
<1>2. ~ReturnNil(w) /\ ~ReturnErr(w)
  BY <1>1, ReturnFacts
<1>3. \A pc \in PCs \ {"idle"} : \A node : Goto(w, pc, node) => workers'[w].pc = pc
  BY <1>1, GotoFacts
<1>4. \A pc \in {"claim", "launch", "boot", "script", "cleanup", "ready", "fail",
                 "terminate", "mark"} : pc \in PCs \ {"idle"}
  BY DEF PCs, ProvisionPCs, TerminatePCs
<1>5. CASE GetForProvision(w) \/ GetForTerminate(w)
  <2>1. workers[w].pc = "get" /\ workers'[w].pc \in {"claim", "terminate", "mark"}
    BY <1>2, <1>3, <1>4, <1>5 DEF GetForProvision, GetForTerminate
  <2> QED
    BY <2>1, HandlerWorkFacts
<1>6. CASE Claim(w)
  <2>1. workers[w].pc = "claim" /\ workers'[w].pc = "launch"
    BY <1>2, <1>3, <1>4, <1>6 DEF Claim, Exec
  <2> QED
    BY <2>1, HandlerWorkFacts
<1>7. CASE Provision(w)
  <2>1. \/ workers[w].pc = "launch" /\ workers'[w].pc \in {"boot", "fail"}
        \/ workers[w].pc = "boot" /\ workers'[w].pc \in {"script", "cleanup"}
        \/ workers[w].pc = "script" /\ workers'[w].pc \in {"ready", "cleanup"}
        \/ workers[w].pc = "cleanup" /\ workers'[w].pc = "fail"
    BY <1>3, <1>4, <1>7 DEF Provision, RunInstances, LaunchFails, WaitForRunning, RunProvision,
       BootFails, TerminateBestEffort
  <2> QED
    BY <2>1, HandlerWorkFacts
<1>8. CASE TerminateNode(w)
  <2>1. workers[w].pc = "terminate" /\ workers'[w].pc = "mark"
    BY <1>3, <1>4, <1>8 DEF TerminateNode
  <2> QED
    BY <2>1, HandlerWorkFacts
<1> QED
  BY <1>2, <1>5, <1>6, <1>7, <1>8 DEF HandlerStep, GetFails, MarkReady, Fail, MarkTerminated

(* So does its return: the retry it may cost comes off the budget.           *)
LEMMA HandlersShrink ==
  ASSUME TypeInv, LaunchInv, WorkInv, (\A r \in Requests : WorkIs(r))',
         NEW w \in Workers, HandlerStep(w), UNCHANGED requests,
         NEW t, t = workers[w].task
  PROVE  /\ t \in Requests
         /\ Work(t)' \in 0..(Work(t) - 1)
         /\ \A q \in Requests \ {t} : Work(q)' = Work(q)
<1>1. /\ t \in Requests /\ tasks[t].state = "active"
      /\ \A v \in Workers \ {w} : workers'[v] = workers[v] /\ (Busy(v) => workers[v].task # t)
      /\ \A x \in Requests \ {t} : tasks'[x] = tasks[x]
      /\ \/ UNCHANGED tasks /\ Busy(w)' /\ workers'[w].task = t
         \/ ~Busy(w)' /\ (tasks' = [tasks EXCEPT ![t].state = "completed"] \/ tasks' = Retried(t))
  BY HandlerReturns
<1>2. Busy(w) /\ tasks \in [Requests -> Task]
  BY HandlerFrame DEF TypeInv, TypeOK, QueueTypeOK
<1>3. WorkIs(t) /\ WorkIs(t)' /\ RequestWork(t)' = RequestWork(t)
  BY <1>1, Works DEF RequestWork
<1>4. TaskWork(t) = Left(t) * 10 + HandlerWork(workers[w].pc)
  BY <1>1, <1>2, <1>3 DEF WorkIs
<1>5. HandlerWork(workers[w].pc) \in 1..9
  BY <1>2, HandlerWorkFacts DEF Busy, TypeInv, TypeOK, QueueTypeOK, Worker
<1>6. TaskWork(t)' < TaskWork(t)
  <2>1. CASE UNCHANGED tasks /\ Busy(w)' /\ workers'[w].task = t
    <3>1. TaskWork(t)' = Left(t)' * 10 + HandlerWork(workers'[w].pc) /\ Left(t)' = Left(t)
      BY <1>3, <2>1 DEF WorkIs, Left, BudgetOf
    <3>2. HandlerWork(workers'[w].pc) < HandlerWork(workers[w].pc)
      BY <2>1, HandlerLowers
    <3>3. HandlerWork(workers'[w].pc) \in 1..9
      <4>1. workers'[w].pc \in PCs \ {"idle"}
        <5>1. \E pc \in PCs \ {"idle"} : \E node : Goto(w, pc, node)
          BY <2>1, HandlerReturns
        <5> QED
          BY <1>2, <5>1, GotoFacts
      <4> QED
        BY <4>1, HandlerWorkFacts
    <3> QED
      BY <1>3, <1>4, <1>5, <3>1, <3>2, <3>3 DEF WorkIs
  <2>2. CASE tasks' = [tasks EXCEPT ![t].state = "completed"]
    <3>1. tasks'[t].state = "completed"
      BY <1>1, <1>2, <2>2 DEF Task
    <3> QED
      BY <1>3, <1>4, <1>5, <3>1 DEF WorkIs
  <2>3. CASE tasks' = Retried(t) /\ tasks[t].retried < BudgetOf(t)
    <3>1. tasks'[t].state = "pending" /\ tasks'[t].retried = tasks[t].retried + 1
      BY <1>1, <1>2, <2>3 DEF Retried, Task
    <3>2. tasks[t].retried \in Nat /\ BudgetOf(t) \in Nat
      BY <1>1, <1>2, DeploymentAssumption DEF Task, BudgetOf
    <3>3. Left(t)' = Left(t) - 1
      BY <3>1, <3>2 DEF Left, BudgetOf
    <3> QED
      BY <1>3, <1>4, <1>5, <3>1, <3>3 DEF WorkIs
  <2>4. CASE tasks' = Retried(t) /\ ~(tasks[t].retried < BudgetOf(t))
    <3>1. tasks'[t].state = "archived"
      BY <1>1, <1>2, <2>4 DEF Retried, Task
    <3> QED
      BY <1>3, <1>4, <1>5, <3>1 DEF WorkIs
  <2> QED
    BY <1>1, <2>1, <2>2, <2>3, <2>4
<1>7. Work(t)' \in 0..(Work(t) - 1)
  BY <1>3, <1>6 DEF WorkIs
<1>8. ASSUME NEW q \in Requests \ {t}
      PROVE  Work(q)' = Work(q)
  <2>1. \A v \in Workers : Busy(v) /\ workers[v].task = q => workers'[v] = workers[v]
    BY <1>1, <1>8
  <2> QED
    BY <1>1, <2>1, OthersKeepWork
<1> QED
  BY <1>1, <1>7, <1>8

(* Every step of the deployment uses up work of one request and adds none,   *)
(* as long as no process stops and no lease is lost: whatever else fails, it *)
(* comes to rest after at most as many steps as its requests have work.      *)
THEOREM WorkAlwaysShrinks ==
  ASSUME {"lease", "crash"} \cap Faults = {}
  PROVE  Spec => WorkShrinks
<1> DEFINE Shrinks == \E r \in Requests :
                        /\ Work(r)' \in 0..(Work(r) - 1)
                        /\ \A q \in Requests \ {r} : Work(q)' = Work(q)
<1>1. ASSUME TypeInv, LaunchInv, WorkInv, (\A r \in Requests : WorkIs(r))', Next
      PROVE  Shrinks
  <2>1. ASSUME NEW r \in Requests, Api(r)
        PROVE  Shrinks
    BY <1>1, <2>1, ApiShrinks
  <2>2. CASE Queue
    <3>1. PICK w \in Workers, t \in Requests :
            /\ UNCHANGED requests /\ ~Busy(w)
            /\ workers'[w].pc = "get" /\ workers'[w].task = t
            /\ \A v \in Workers \ {w} : workers'[v] = workers[v]
            /\ tasks[t].state = "pending" /\ tasks'[t] = [tasks[t] EXCEPT !.state = "active"]
            /\ \A x \in Requests \ {t} : tasks'[x] = tasks[x]
      BY <1>1, <2>2, QueueDequeues DEF WorkInv
    <3>2. WorkIs(t) /\ WorkIs(t)' /\ RequestWork(t)' = RequestWork(t)
      BY <1>1, <3>1, Works DEF RequestWork
    <3>3. Left(t)' = Left(t)
      BY <1>1, <3>1 DEF Left, BudgetOf, TypeInv, TypeOK, QueueTypeOK, Task
    <3>4. TaskWork(t) = (Left(t) + 1) * 10
      BY <3>1, <3>2 DEF WorkIs
    <3>5. TaskWork(t)' = Left(t) * 10 + 9
      BY <3>1, <3>2, <3>3, HandlerWorkFacts DEF WorkIs, Busy
    <3>6. Work(t)' \in 0..(Work(t) - 1)
      BY <3>2, <3>4, <3>5 DEF WorkIs
    <3>7. \A q \in Requests \ {t} : Work(q)' = Work(q)
      BY <1>1, <3>1, OthersKeepWork
    <3> QED
      BY <3>6, <3>7
  <2>3. ASSUME NEW w \in Workers, HandlerStep(w), UNCHANGED requests
        PROVE  Shrinks
    BY <1>1, <2>3, HandlersShrink
  <2> QED
    BY <1>1, <2>1, <2>2, <2>3 DEF Next, Handlers
<1>2. TypeInv /\ LaunchInv /\ WorkInv /\ (TypeInv /\ LaunchInv /\ WorkInv)' /\ [Next]_vars
        => [Shrinks]_vars
  <2>1. (TypeInv /\ LaunchInv /\ WorkInv)' => (\A r \in Requests : WorkIs(r))'
    BY Works, PTL
  <2> QED
    BY <1>1, <2>1
<1>3. Spec => []TypeInv
  BY InitTypeInv, NextTypeInv, PTL DEF Spec
<1>4. Spec => []LaunchInv
  BY LaunchInvariant
<1> QED
  BY <1>2, <1>3, <1>4, WorkInvariant, PTL DEF Spec, WorkShrinks
=============================================================================
