---------------------------- MODULE FailureProofs ----------------------------
(* What is left when something fails: no node behind an error, no node that  *)
(* nobody knows, no launch beyond the attempts that asynq counts.            *)
EXTENDS NodeProofs, FiniteSetTheorems

-----------------------------------------------------------------------------
(* Steps, and what they leave alone *)

(* The session of a busy worker is that of its task's request.               *)
LEMMA SessionsOfWorkers ==
  ASSUME TypeInv, NEW w \in Workers, Busy(w)
  PROVE  /\ SessionOf(w) \in Sessions
         /\ workers[w].task \in Requests
         /\ tasks[workers[w].task].state # "none"
         /\ requests[workers[w].task].session = SessionOf(w)
         /\ requests[workers[w].task].pc = "done"
BY DEF TypeInv, HandlersHaveTasks, TasksHaveSessions, SessionOf

(* UPDATE of session s writes status st into that row, if it is there.       *)
Writes(s, st) ==
  /\ \A x \in Sessions \ {s} : rows'[x].status = rows[x].status
  /\ Exists(s) => rows'[s].status = st
  /\ ~Exists(s) => rows'[s].status = "none"

LEMMA StatementsWrite ==
  ASSUME StoreTypeOK, NEW s \in Sessions
  PROVE  /\ \A st \in Statuses : rows' = SetSessionStatus(s, st) => Writes(s, st)
         /\ \A i \in Instances \cup {Nil} : rows' = SetSessionReady(s, i) => Writes(s, "ready")
         /\ rows' = SetSessionError(s) => Writes(s, "error")
         /\ rows' = SetSessionTerminated(s) => Writes(s, "terminated")
<1> USE DEF StoreTypeOK, Row, Statuses, Updated, Writes, Exists
<1>1. \A st \in Statuses : rows' = SetSessionStatus(s, st) => Writes(s, st)
  BY DEF SetSessionStatus
<1>2. \A i \in Instances \cup {Nil} : rows' = SetSessionReady(s, i) => Writes(s, "ready")
  BY DEF SetSessionReady
<1>3. rows' = SetSessionError(s) => Writes(s, "error")
  BY DEF SetSessionError
<1>4. rows' = SetSessionTerminated(s) => Writes(s, "terminated")
  BY DEF SetSessionTerminated
<1> QED
  BY <1>1, <1>2, <1>3, <1>4

(* What a request does to a row: its INSERT, its UPDATE or nothing.          *)
LEMMA ApiWrites ==
  ASSUME TenantInv, NEW r \in Requests, Api(r), NEW x \in Sessions, rows'[x].status # rows[x].status
  PROVE  \/ /\ InsertSession(r) /\ ~Exists(x)
            /\ rows'[x].status = "pending" /\ requests'[r].session = x
         \/ /\ SetTerminating(r) /\ requests[r].session = x
            /\ rows'[x].status = "terminating"
<1>1. StoreTypeOK /\ ServiceTypeOK
  BY DEF TenantInv, TypeInv, TypeOK
<1>2. CASE InsertSession(r)
  <2>1. PICK k \in SKUs, s \in FreshIDs :
          /\ rows' \in {rows, CreateSession(s, requests[r].user, k)}
          /\ Proceed(r, "enqueue", s, Nil) \/ Proceed(r, "done", s, "400")
    BY <1>2 DEF InsertSession
  <2>2. s \in Sessions /\ ~Exists(s)
    BY DEF FreshIDs, TenantInv, RowsHavePosts
  <2>3. x = s /\ rows'[x].status = "pending"
    BY <1>1, <2>1, <2>2 DEF CreateSession, StoreTypeOK
  <2>4. requests'[r].session = s
    BY <1>1, <2>1 DEF Proceed, ServiceTypeOK, Request
  <2> QED
    BY <1>2, <2>2, <2>3, <2>4
<1>3. CASE SetTerminating(r)
  <2>1. /\ requests[r].session \in Sessions
        /\ rows' = SetSessionStatus(requests[r].session, "terminating")
    BY <1>3 DEF SetTerminating, TenantInv, TypeInv, TasksHaveSessions
  <2>2. Writes(requests[r].session, "terminating")
    BY <1>1, <2>1, StatementsWrite DEF Statuses
  <2> QED
    BY <1>3, <2>1, <2>2 DEF Writes, Exists, SetSessionStatus, Updated
<1> QED
  BY <1>2, <1>3 DEF Api, RequestStep, Authenticate, RejectBody, LookupSession,
     EnqueueTask, CrashRequest

(* A step of a request is its own alone, and comes before its task.          *)
LEMMA ApiFrameOfOthers ==
  ASSUME TypeInv, NEW r \in Requests, Api(r)
  PROVE  /\ requests[r].pc # "done" /\ tasks[r].state = "none"
         /\ \A x \in Requests \ {r} : requests'[x] = requests[x] /\ tasks'[x] = tasks[x]
<1>1. ServiceTypeOK /\ tasks \in [Requests -> Task]
  BY DEF TypeInv, TypeOK, QueueTypeOK
<1>2. requests[r].pc # "done"
  BY DEF Api, RequestStep, Authenticate, RejectBody, InsertSession, LookupSession,
         SetTerminating, EnqueueTask, CrashRequest
<1>3. \A x \in Requests \ {r} : requests'[x] = requests[x]
  BY <1>1 DEF Api, RequestStep, Authenticate, RejectBody, InsertSession, LookupSession,
     SetTerminating, EnqueueTask, CrashRequest, Reply, Proceed, ServiceTypeOK
<1>4. \A x \in Requests \ {r} : tasks'[x] = tasks[x]
  BY <1>1 DEF Api, RequestStep, Authenticate, RejectBody, InsertSession, LookupSession,
     SetTerminating, EnqueueTask, CrashRequest, Enqueued
<1> QED
  BY <1>1, <1>2, <1>3, <1>4 DEF TypeInv, TasksHaveSessions

(* A handler's step is its own worker's alone.                               *)
LEMMA HandlerFrame ==
  ASSUME TypeInv, NEW w \in Workers, HandlerStep(w)
  PROVE  /\ Busy(w) /\ SessionOf(w) \in Sessions
         /\ \A v \in Workers \ {w} : workers'[v] = workers[v]
         /\ \A v \in Workers : Busy(v)' => Busy(v) /\ SessionOf(v)' = SessionOf(v)
<1>1. Busy(w) /\ SessionOf(w) \in Sessions
  <2>1. Busy(w)
    BY DEF HandlerStep, GetFails, GetForProvision, Claim, Provision, RunInstances, LaunchFails,
        WaitForRunning, RunProvision, BootFails, TerminateBestEffort, MarkReady, Fail,
        GetForTerminate, TerminateNode, MarkTerminated, Busy
  <2> QED
    BY <2>1, SessionsOfWorkers
<1>2. CASE ReturnNil(w) \/ ReturnErr(w)
  BY <1>1, <1>2, ReturnFacts
<1>3. ASSUME NEW pc \in PCs \ {"idle"}, NEW node, Goto(w, pc, node)
      PROVE  /\ \A v \in Workers \ {w} : workers'[v] = workers[v]
             /\ \A v \in Workers : Busy(v)' => Busy(v) /\ SessionOf(v)' = SessionOf(v)
  BY <1>1, <1>3, GotoFacts
<1>4. \/ ReturnNil(w) \/ ReturnErr(w)
      \/ \E pc \in PCs \ {"idle"} : \E node : Goto(w, pc, node)
  <2>1. CASE Provision(w)
    <3>1. \E pc \in {"boot", "script", "cleanup", "ready", "fail"} : \E node : Goto(w, pc, node)
      BY <2>1 DEF Provision, RunInstances, LaunchFails, WaitForRunning, RunProvision, BootFails,
         TerminateBestEffort
    <3> QED
      BY <3>1 DEF PCs, ProvisionPCs
  <2>2. CASE ~Provision(w)
    <3>1. \/ ReturnNil(w) \/ ReturnErr(w)
          \/ \E pc \in {"claim", "launch", "terminate", "mark"} : \E node : Goto(w, pc, node)
      BY <2>2 DEF HandlerStep, GetFails, GetForProvision, Claim, Exec, MarkReady, Fail,
         GetForTerminate, TerminateNode, MarkTerminated
    <3> QED
      BY <3>1 DEF PCs, ProvisionPCs, TerminatePCs
  <2> QED
    BY <2>1, <2>2
<1> QED
  BY <1>1, <1>2, <1>3, <1>4

(* More runs for a session only after a launch of its own.                   *)
LEMMA LiveShrinks ==
  ASSUME TypeInv, UNCHANGED instances \/ \E i : instances' = Terminated(i)
  PROVE  \A s \in Sessions : Live(s)' \subseteq Live(s)
<1>1. instances \in [Instances -> Instance]
  BY DEF TypeInv, TypeOK, Ec2TypeOK
<1>2. \A i \in Instances : /\ instances'[i].session = instances[i].session
                           /\ instances'[i].state = "live" => instances[i].state = "live"
  BY <1>1 DEF Terminated, Instance
<1> QED
  BY <1>2 DEF Live, LaunchedFor

LEMMA LiveGrows ==
  ASSUME TypeInv, NEW i \in Instances, NEW s, instances' = Launched(i, s)
  PROVE  \A x \in Sessions : Live(x)' \subseteq Live(x) \cup IF x = s THEN {i} ELSE {}
BY DEF TypeInv, TypeOK, Ec2TypeOK, Launched, Live, LaunchedFor

-----------------------------------------------------------------------------
(* No node behind an error *)

(* Nothing is launched, nobody turns to writing error who has something      *)
(* running, nobody starts provisioning after error, no row becomes error.    *)
LEMMA FailuresFrame ==
  ASSUME FailuresAreClean, TypeInv, TypeInv', \A s \in Sessions : Live(s)' \subseteq Live(s),
         \A v \in Workers : Busy(v)' /\ workers'[v].pc # "get" =>
           Busy(v) /\ SessionOf(v)' = SessionOf(v),
         \A v \in Workers : workers'[v].pc = "fail" =>
           workers[v].pc = "fail" \/ Live(SessionOf(v))' = {},
         \A v \in Workers : workers'[v].pc \in ProvisionPCs =>
           workers[v].pc \in ProvisionPCs \/ rows[SessionOf(v)].status # "error",
         \A s \in Sessions : rows'[s].status = "error" => rows[s].status = "error"
  PROVE  FailuresAreClean'
<1>1. ASSUME NEW v \in Workers, workers'[v].pc \in ProvisionPCs
      PROVE  Busy(v) /\ SessionOf(v)' = SessionOf(v) /\ SessionOf(v) \in Sessions
  BY <1>1, SessionsOfWorkers DEF Busy, ProvisionPCs
<1>2. ASSUME NEW v \in Workers, workers'[v].pc = "fail"
      PROVE  Live(SessionOf(v))' = {}
  <2>1. SessionOf(v)' = SessionOf(v) /\ SessionOf(v) \in Sessions
    BY <1>1, <1>2 DEF ProvisionPCs
  <2>2. CASE workers[v].pc = "fail"
    <3>1. Live(SessionOf(v)) = {}
      BY <2>2 DEF FailuresAreClean
    <3>2. \A s \in Sessions : Live(s) = {} => Live(s)' = {}
      OBVIOUS
    <3>3. ASSUME NEW s, SessionOf(v)' = s, Live(s)' = {}
          PROVE  Live(SessionOf(v))' = {}
      BY <3>3 DEF Live, LaunchedFor
    <3>4. PICK s \in Sessions : s = SessionOf(v)
      BY <2>1
    <3>5. Live(s) = {}
      BY <3>1, <3>4
    <3> QED
      BY <2>1, <3>2, <3>3, <3>4, <3>5
  <2> QED
    BY <1>2, <2>2
<1>3. ASSUME NEW s \in Sessions, rows'[s].status = "error"
      PROVE  /\ Live(s)' = {}
             /\ \A v \in Workers : workers'[v].pc \in ProvisionPCs => SessionOf(v)' # s
  BY <1>1, <1>3 DEF FailuresAreClean
<1> QED
  BY <1>2, <1>3 DEF FailuresAreClean

(* Provision returns an error only with nothing running.                     *)
LEMMA ProvisionLeavesNothing ==
  ASSUME {"lease", "ec2"} \cap Faults = {}, NodeInv, LaunchInv, FailuresAreClean, TypeInv',
         NEW w \in Workers, Provision(w), HandlerStep(w)
  PROVE  FailuresAreClean'
<1>1. /\ UNCHANGED rows /\ TypeInv
      /\ workers[w].pc \in {"launch", "boot", "script", "cleanup"}
  BY DEF Provision, NodeInv, RunInstances, LaunchFails, WaitForRunning, RunProvision,
     BootFails, TerminateBestEffort
<1>2. ~CallMayFail(w, "ec2") /\ "ec2" \notin Faults
  BY <1>1 DEF CallMayFail, LaunchInv, OneHandlerPerTask, Busy
<1>3. /\ Busy(w)
      /\ \A v \in Workers \ {w} : workers'[v] = workers[v]
      /\ \A v \in Workers : Busy(v)' => Busy(v) /\ SessionOf(v)' = SessionOf(v)
  BY <1>1, HandlerFrame
<1>4. PICK s \in Sessions : s = SessionOf(w)
  BY <1>1, HandlerFrame
<1>5. ASSUME \A x \in Sessions : Live(x)' \subseteq Live(x),
             workers'[w].pc = "fail" => Live(s)' = {}
      PROVE  FailuresAreClean'
  <2>1. workers'[w].pc = "fail" => Live(SessionOf(w))' = {}
    BY <1>3, <1>4, <1>5 DEF Busy, Live, LaunchedFor
  <2> QED
    BY <1>1, <1>3, <1>5, <2>1, FailuresFrame DEF ProvisionPCs
<1>6. ASSUME NEW pc \in {"boot", "script", "cleanup", "ready", "fail"}, NEW node, Goto(w, pc, node)
      PROVE  workers'[w].pc = pc
  BY <1>1, <1>3, <1>6, GotoFacts DEF PCs, ProvisionPCs
(* The session is claimed, so no row shows error, and no other handler of it *)
(* is about to write one.                                                    *)
<1>7. CASE RunInstances(w, rows[SessionOf(w)].sku)
  <2>1. PICK i \in Free : instances' = Launched(i, s) /\ Goto(w, "boot", i)
    BY <1>4, <1>7 DEF RunInstances
  <2>2. workers'[w].pc = "boot" /\ i \in Instances
    BY <1>6, <2>1 DEF Free
  <2>3. \A x \in Sessions \ {s} : Live(x)' \subseteq Live(x)
    BY <1>1, <2>1, <2>2, LiveGrows
  <2>4. rows[s].status # "error"
    BY <1>1, <1>4 DEF FailuresAreClean, ProvisionPCs
  <2>5. ASSUME NEW v \in Workers, workers'[v].pc = "fail"
        PROVE  Live(SessionOf(v))' = {}
    <3>1. v # w /\ workers[v].pc = "fail" /\ SessionOf(v)' = SessionOf(v)
      BY <1>3, <2>2, <2>5 DEF Busy
    <3>2. SessionOf(v) \in Sessions
      BY <1>1, <3>1, SessionsOfWorkers DEF Busy
    <3>3. SessionOf(v) # s
      BY <1>1, <1>4, <3>1, OneProvisionerPerSession DEF ProvisionPCs
    <3>4. PICK x \in Sessions : x = SessionOf(v)
      BY <3>2
    <3>5. Live(x) = {}
      BY <3>1, <3>4 DEF FailuresAreClean
    <3>6. Live(x)' = {}
      BY <2>3, <3>3, <3>4, <3>5
    <3> QED
      BY <3>1, <3>4, <3>6 DEF Live, LaunchedFor
  <2>6. ASSUME NEW x \in Sessions, rows'[x].status = "error"
        PROVE  /\ Live(x)' = {}
               /\ \A v \in Workers : workers'[v].pc \in ProvisionPCs => SessionOf(v)' # x
    <3>1. /\ x # s /\ Live(x) = {}
          /\ \A v \in Workers : workers[v].pc \in ProvisionPCs => SessionOf(v) # x
      BY <1>1, <2>4, <2>6 DEF FailuresAreClean
    <3>2. \A v \in Workers : workers'[v].pc \in ProvisionPCs =>
            workers[v].pc \in ProvisionPCs /\ SessionOf(v)' = SessionOf(v)
      BY <1>1, <1>3 DEF ProvisionPCs, Busy
    <3> QED
      BY <2>3, <3>1, <3>2
  <2> QED
    BY <2>5, <2>6 DEF FailuresAreClean
<1>8. CASE LaunchFails(w, rows[SessionOf(w)].sku)
  <2>1. workers[w].pc = "launch" /\ Goto(w, "fail", Nil) /\ UNCHANGED instances
    BY <1>2, <1>8 DEF LaunchFails
  <2>2. Live(s)' = {}
    BY <1>4, <2>1, DeploymentAssumption DEF LaunchInv, ClaimBeforeLaunch, Live, LaunchedFor
  <2> QED
    BY <1>1, <1>5, <2>1, <2>2, LiveShrinks
<1>9. CASE WaitForRunning(w) \/ RunProvision(w) \/ BootFails(w)
  <2>1. PICK pc \in {"script", "cleanup", "ready"} : Goto(w, pc, workers[w].node)
    BY <1>9 DEF WaitForRunning, RunProvision, BootFails
  <2>2. workers'[w].pc # "fail" /\ UNCHANGED instances
    BY <1>6, <1>9, <2>1 DEF WaitForRunning, RunProvision, BootFails
  <2> QED
    BY <1>1, <1>5, <2>2, LiveShrinks
(* The node in hand is the only one the session has ever had.                *)
<1>10. CASE TerminateBestEffort(w)
  <2> DEFINE i == workers[w].node
  <2>1. workers[w].pc = "cleanup" /\ instances' = Terminated(i)
    BY <1>2, <1>10 DEF TerminateBestEffort, TerminateInstances
  <2>2. i \in Instances /\ instances[i] = [state |-> "live", session |-> s]
    BY <1>4, <2>1 DEF NodeInv, NodesInHand, InHandPCs
  <2>3. \A j \in Instances : instances[j].session = s => j = i
    BY <2>2, DeploymentAssumption DEF LaunchInv, AtMostOneLaunch
  <2>4. Live(s)' = {}
    BY <1>1, <2>1, <2>2, <2>3 DEF Terminated, Live, LaunchedFor, TypeInv, TypeOK, Ec2TypeOK, Instance
  <2> QED
    BY <1>1, <1>5, <2>1, <2>4, LiveShrinks
<1> QED
  BY <1>7, <1>8, <1>9, <1>10 DEF Provision

(* fail: error is written with nothing running, and the handler that wrote   *)
(* it was the session's only one.                                            *)
LEMMA FailLeavesNothing ==
  ASSUME LaunchInv, FailuresAreClean, TypeInv', NEW w \in Workers, Fail(w), HandlerStep(w)
  PROVE  FailuresAreClean'
<1>1. /\ workers[w].pc = "fail" /\ ReturnErr(w) /\ UNCHANGED instances
      /\ TypeInv /\ StoreTypeOK /\ Busy(w)
  BY DEF Fail, LaunchInv, TypeInv, TypeOK, Busy
<1>2. PICK s \in Sessions : s = SessionOf(w)
  BY <1>1, HandlerFrame
<1>3. \A x \in Sessions \ {s} : rows'[x].status = rows[x].status
  BY <1>1, <1>2, StatementsWrite DEF Fail, Writes
<1>4. /\ workers'[w].pc = "idle"
      /\ \A v \in Workers \ {w} : workers'[v] = workers[v]
      /\ \A v \in Workers : Busy(v)' => Busy(v) /\ SessionOf(v)' = SessionOf(v)
  BY <1>1, ReturnFacts
<1>5. \A v \in Workers : workers'[v].pc \in ProvisionPCs =>
        workers[v].pc \in ProvisionPCs /\ SessionOf(v)' = SessionOf(v) /\ v # w
  BY <1>4 DEF ProvisionPCs, Busy
<1>6. ASSUME NEW x \in Sessions, rows'[x].status = "error"
      PROVE  /\ Live(x)' = {}
             /\ \A v \in Workers : workers'[v].pc \in ProvisionPCs => SessionOf(v)' # x
  <2>1. CASE x = s
    <3>1. Live(x) = {}
      BY <1>1, <1>2, <2>1 DEF FailuresAreClean
    <3>2. \A v \in Workers \ {w} : workers[v].pc \in ProvisionPCs => SessionOf(v) # s
      BY <1>1, <1>2, OneProvisionerPerSession DEF ProvisionPCs
    <3> QED
      BY <1>1, <1>5, <2>1, <3>1, <3>2 DEF Live, LaunchedFor
  <2>2. CASE x # s
    <3>1. rows[x].status = "error"
      BY <1>3, <1>6, <2>2
    <3> QED
      BY <1>1, <1>5, <3>1 DEF FailuresAreClean, Live, LaunchedFor
  <2> QED
    BY <2>1, <2>2
<1>7. ASSUME NEW v \in Workers, workers'[v].pc = "fail"
      PROVE  Live(SessionOf(v))' = {}
  <2>1. workers[v].pc = "fail" /\ SessionOf(v)' = SessionOf(v)
    BY <1>4, <1>5, <1>7 DEF ProvisionPCs
  <2>2. PICK x : x = SessionOf(v)
    OBVIOUS
  <2>3. Live(x) = {}
    BY <2>1, <2>2 DEF FailuresAreClean
  <2> QED
    BY <1>1, <2>1, <2>2, <2>3 DEF Live, LaunchedFor
<1> QED
  BY <1>6, <1>7 DEF FailuresAreClean

(* So does every other step.                                                 *)
LEMMA NextFailuresClean ==
  ASSUME {"lease", "ec2"} \cap Faults = {}, TenantInv, NodeInv, LaunchInv, FailuresAreClean,
         [Next]_vars
  PROVE  FailuresAreClean'
<1>1. TypeInv /\ TypeInv' /\ StoreTypeOK
  BY NextTypeInv DEF NodeInv, TypeInv, TypeOK
<1>2. CASE UNCHANGED vars
  BY <1>1, <1>2, LiveShrinks, FailuresFrame DEF vars, Busy, SessionOf
<1>3. ASSUME NEW r \in Requests, Api(r)
      PROVE  FailuresAreClean'
  <2>1. \A s \in Sessions : rows'[s].status = "error" => rows[s].status = "error"
    BY <1>3, ApiWrites
  <2>2. UNCHANGED <<workers, instances>> /\ \A v \in Workers : Busy(v) => SessionOf(v)' = SessionOf(v)
    BY <1>1, <1>3, ApiFacts
  <2> QED
    BY <1>1, <2>1, <2>2, LiveShrinks, FailuresFrame DEF Busy
<1>4. CASE Queue
  <2>1. \A v \in Workers : workers'[v].pc \notin {"idle", "get"} =>
          workers'[v].pc = workers[v].pc /\ SessionOf(v)' = SessionOf(v)
    BY <1>1, <1>4, QueueFacts
  <2>2. UNCHANGED <<rows, instances>>
    BY <1>4 DEF Queue
  <2>3. \A s \in Sessions : Live(s)' \subseteq Live(s)
    BY <1>1, <2>2, LiveShrinks
  <2>4. \A v \in Workers : Busy(v)' /\ workers'[v].pc # "get" => Busy(v) /\ SessionOf(v)' = SessionOf(v)
    BY <2>1 DEF Busy
  <2> QED
    BY <1>1, <2>1, <2>2, <2>3, <2>4, FailuresFrame DEF ProvisionPCs
<1>5. ASSUME NEW w \in Workers, HandlerStep(w)
      PROVE  FailuresAreClean'
  <2>1. /\ Busy(w) /\ SessionOf(w) \in Sessions
        /\ \A v \in Workers \ {w} : workers'[v] = workers[v]
        /\ \A v \in Workers : Busy(v)' => Busy(v) /\ SessionOf(v)' = SessionOf(v)
    BY <1>1, <1>5, HandlerFrame
  <2>2. CASE Provision(w)
    BY <1>1, <1>5, <2>2, ProvisionLeavesNothing
  <2>3. CASE Fail(w)
    BY <1>1, <1>5, <2>3, FailLeavesNothing
  <2>4. ASSUME ~Provision(w), ~Fail(w)
        PROVE  FailuresAreClean'
    <3>1. \A s \in Sessions : Live(s)' \subseteq Live(s)
      <4>1. UNCHANGED instances \/ \E i : instances' = Terminated(i)
        BY <1>5, <2>4 DEF HandlerStep, GetFails, GetForProvision, Claim, MarkReady,
           GetForTerminate, TerminateNode, TerminateInstances, MarkTerminated
      <4> QED
        BY <1>1, <4>1, LiveShrinks
    <3>2. \A s \in Sessions : rows'[s].status = "error" => rows[s].status = "error"
      <4>1. CASE rows' = rows
        BY <4>1
      <4>2. CASE rows' # rows
        <5>1. \E st \in {"provisioning", "ready", "terminated"} : Writes(SessionOf(w), st)
          <6>1. MarkReady(w) => workers[w].node \in Instances
            BY DEF MarkReady, NodeInv, NodesInHand, InHandPCs
          <6> QED
            BY <1>1, <1>5, <2>1, <2>4, <4>2, <6>1, StatementsWrite
            DEF HandlerStep, GetFails, GetForProvision, Claim, Exec, MarkReady,
                GetForTerminate, TerminateNode, MarkTerminated, Statuses
        <5>2. PICK st \in {"provisioning", "ready", "terminated"} : Writes(SessionOf(w), st)
          BY <5>1
        <5>3. ASSUME NEW s \in Sessions, rows'[s].status = "error"
              PROVE  s # SessionOf(w)
          BY <5>2, <5>3 DEF Writes, Exists
        <5> QED
          BY <5>2, <5>3 DEF Writes
      <4> QED
        BY <4>1, <4>2
    <3>3. /\ workers'[w].pc # "fail"
          /\ workers'[w].pc \in ProvisionPCs =>
               workers[w].pc \in ProvisionPCs \/ rows[SessionOf(w)].status # "error"
      <4>1. CASE ReturnNil(w) \/ ReturnErr(w)
        BY <1>1, <2>1, <4>1, ReturnFacts DEF ProvisionPCs
      <4>2. CASE ~(ReturnNil(w) \/ ReturnErr(w))
        <5>1. \/ rows[SessionOf(w)].status = "pending" /\ Goto(w, "claim", Nil)
              \/ workers[w].pc = "claim" /\ Goto(w, "launch", workers[w].node)
              \/ \E pc \in {"terminate", "mark"} : \E node : Goto(w, pc, node)
          BY <1>5, <2>4, <4>2 DEF HandlerStep, GetFails, GetForProvision, Claim, Exec, MarkReady,
             GetForTerminate, TerminateNode, MarkTerminated
        <5>2. ASSUME NEW pc \in {"claim", "launch", "terminate", "mark"}, NEW node, Goto(w, pc, node)
              PROVE  workers'[w].pc = pc
          BY <1>1, <2>1, <5>2, GotoFacts DEF PCs, ProvisionPCs, TerminatePCs
        <5> QED
          BY <5>1, <5>2 DEF ProvisionPCs
      <4> QED
        BY <4>1, <4>2
    <3> QED
      BY <1>1, <2>1, <3>1, <3>2, <3>3, FailuresFrame
  <2> QED
    BY <2>2, <2>3, <2>4
<1> QED
  BY <1>2, <1>3, <1>4, <1>5 DEF Next, Handlers

(* A session in error has no instance running, in every deployment in which  *)
(* a failed AWS call has had no effect and no worker outlives its lease:     *)
(* through retries, crashes, failed statements and DELETEs at any time.      *)
THEOREM ErrorsCostNothing ==
  ASSUME {"lease", "ec2"} \cap Faults = {}
  PROVE  Spec => []ErrorLeavesNothingRunning
<1>1. Init => FailuresAreClean
  BY DEF Init, QueueInit, IdleWorker, StoreInit, NoRow, FailuresAreClean
<1>2. TenantInv /\ NodeInv /\ LaunchInv /\ FailuresAreClean /\ [Next]_vars => FailuresAreClean'
  BY NextFailuresClean
<1>3. FailuresAreClean => ErrorLeavesNothingRunning
  BY DEF FailuresAreClean, ErrorLeavesNothingRunning
<1>4. Spec => []LaunchInv
  BY LaunchInvariant
<1> QED
  BY <1>1, <1>2, <1>3, <1>4, TenantInvariant, NodeInvariant, PTL DEF Spec

-----------------------------------------------------------------------------
(* No node that nobody knows *)

(* Nothing is launched, no record changes, and what leaves a hand stops.     *)
LEMMA KnownFrame ==
  ASSUME NodesAreKnown, TypeInv, UNCHANGED instances \/ \E i : instances' = Terminated(i),
         KeepsRecords,
         \A w \in Workers, i \in Instances :
           InHand(w, i) => InHand(w, i)' \/ instances'[i].state # "live"
  PROVE  NodesAreKnown'
<1>1. \A s \in Sessions : Live(s)' \subseteq Live(s)
  BY LiveShrinks
<1>2. \A s \in Sessions : \A i \in Live(s)' : i \in Instances /\ instances'[i].state = "live"
  BY DEF Live, LaunchedFor
<1> QED
  BY <1>1, <1>2 DEF NodesAreKnown, KeepsRecords

LEMMA NextNodesKnown ==
  ASSUME {"lease", "ec2", "db", "crash"} \cap Faults = {}, TenantInv, NodeInv, LaunchInv,
         NodesAreKnown, [Next]_vars
  PROVE  NodesAreKnown'
<1>1. /\ TypeInv /\ workers \in [Workers -> Worker] /\ instances \in [Instances -> Instance]
      /\ rows \in [Sessions -> Row]
  BY DEF NodeInv, TypeInv, TypeOK, QueueTypeOK, Ec2TypeOK, StoreTypeOK
<1>2. CASE UNCHANGED <<workers, instances>> /\ KeepsRecords
  BY <1>1, <1>2, KnownFrame DEF InHand
<1>3. ASSUME NEW r \in Requests, Api(r)
      PROVE  NodesAreKnown'
  BY <1>1, <1>2, <1>3, ApiFacts, ApiKeepsRecords
<1>4. CASE Queue
  <2>1. UNCHANGED instances /\ KeepsRecords
    BY <1>4 DEF Queue, KeepsRecords, Exists
  <2>2. \A v \in Workers : workers'[v] = workers[v] \/ workers[v].pc = "idle"
    BY <1>1, <1>4 DEF Queue, Dequeue, Busy, CrashWorker, ShutdownWorker, LoseLease, Recover
  <2> QED
    BY <1>1, <2>1, <2>2, KnownFrame DEF InHand, InHandPCs
<1>5. ASSUME NEW w \in Workers, HandlerStep(w)
      PROVE  NodesAreKnown'
  <2>1. /\ Busy(w) /\ SessionOf(w) \in Sessions
        /\ \A v \in Workers \ {w} : workers'[v] = workers[v]
    BY <1>1, <1>5, HandlerFrame
  <2>2. ~CallMayFail(w, "ec2") /\ ~CallMayFail(w, "db") /\ "ec2" \notin Faults
    BY <2>1 DEF CallMayFail, LaunchInv, OneHandlerPerTask
  <2>3. ASSUME NEW pc \in {"boot", "script", "cleanup", "ready", "fail"}, NEW node, Goto(w, pc, node)
        PROVE  workers'[w].pc = pc /\ workers'[w].node = node
    BY <1>1, <2>1, <2>3, GotoFacts DEF PCs, ProvisionPCs
  <2>4. rows' = rows => KeepsRecords
    BY DEF KeepsRecords, Exists
  <2>5. CASE RunInstances(w, rows[SessionOf(w)].sku) /\ UNCHANGED rows
    <3>1. PICK i \in Free : instances' = Launched(i, SessionOf(w)) /\ Goto(w, "boot", i)
      BY <2>5 DEF RunInstances
    <3>2. InHand(w, i)' /\ i \in Instances
      BY <2>3, <3>1 DEF InHand, InHandPCs, Free
    <3>3. \A v \in Workers, j \in Instances : InHand(v, j) => InHand(v, j)'
      BY <2>1, <2>5 DEF RunInstances, InHand, InHandPCs
    <3>4. \A s \in Sessions : Live(s)' \subseteq Live(s) \cup {i}
      BY <1>1, <3>1, <3>2, LiveGrows
    <3>5. \A s \in Sessions : Live(s) \subseteq Instances
      BY DEF Live, LaunchedFor
    <3> QED
      BY <2>5, <3>2, <3>3, <3>4, <3>5 DEF NodesAreKnown
  <2>6. CASE (WaitForRunning(w) \/ RunProvision(w) \/ BootFails(w)) /\ UNCHANGED rows
    <3>1. PICK pc \in {"script", "cleanup", "ready"} : Goto(w, pc, workers[w].node)
      BY <2>6 DEF WaitForRunning, RunProvision, BootFails
    <3>2. UNCHANGED instances
      BY <2>6 DEF WaitForRunning, RunProvision, BootFails
    <3>3. \A v \in Workers, j \in Instances : InHand(v, j) => InHand(v, j)'
      BY <2>1, <2>3, <3>1 DEF InHand, InHandPCs
    <3> QED
      BY <1>1, <2>4, <2>6, <3>2, <3>3, KnownFrame
  <2>7. CASE TerminateBestEffort(w) /\ UNCHANGED rows
    <3>1. instances' = Terminated(workers[w].node)
      BY <2>2, <2>7 DEF TerminateBestEffort, TerminateInstances
    <3>2. \A v \in Workers, j \in Instances :
            InHand(v, j) => InHand(v, j)' \/ instances'[j].state # "live"
      BY <1>1, <2>1, <3>1 DEF InHand, Terminated
    <3> QED
      BY <1>1, <2>4, <2>7, <3>1, <3>2, KnownFrame
  <2>8. CASE MarkReady(w)
    <3> DEFINE i == workers[w].node
    <3>1. /\ workers[w].pc = "ready" /\ UNCHANGED instances
          /\ rows' = SetSessionReady(SessionOf(w), i)
      BY <2>2, <2>8 DEF MarkReady
    <3>2. Exists(SessionOf(w))
      BY <3>1 DEF LaunchInv, HandlersKnowTheirRow, ProvisionPCs
    <3>3. rows[SessionOf(w)].instance_id = Nil
      BY <2>8, RecordsAreNew
    <3>4. \A s \in Sessions : rows'[s].instance_id =
            IF s = SessionOf(w) THEN i ELSE rows[s].instance_id
      BY <1>1, <2>1, <3>1, <3>2 DEF SetSessionReady, Updated
    <3>5. i \in Instances /\ instances[i].session = SessionOf(w)
      <4>1. i \in Instances /\ instances[i] = [state |-> "live", session |-> SessionOf(w)]
        BY <3>1 DEF NodeInv, NodesInHand, InHandPCs
      <4> QED
        BY <4>1
    <3>6. ASSUME NEW s \in Sessions, NEW j \in Instances,
                 instances'[j].session = s, instances'[j].state = "live"
          PROVE  rows'[s].instance_id = j \/ \E v \in Workers : InHand(v, j)'
      <4>1. j # Nil
        BY DeploymentAssumption
      <4>2. CASE j = i
        BY <3>1, <3>4, <3>5, <3>6, <4>2
      <4>3. CASE j # i
        <5>1. rows[s].instance_id = j \/ \E v \in Workers : InHand(v, j)
          BY <3>1, <3>6 DEF NodesAreKnown, Live, LaunchedFor
        <5>2. CASE rows[s].instance_id = j
          BY <3>3, <3>4, <4>1, <5>2
        <5>3. ASSUME NEW v \in Workers, InHand(v, j)
              PROVE  InHand(v, j)'
          BY <2>1, <4>3, <5>3 DEF InHand
        <5> QED
          BY <5>1, <5>2, <5>3
      <4> QED
        BY <4>2, <4>3
    <3> QED
      BY <3>6 DEF NodesAreKnown, Live, LaunchedFor
  <2>9. ASSUME workers[w].pc \notin InHandPCs,
               UNCHANGED instances \/ \E i : instances' = Terminated(i)
        PROVE  NodesAreKnown'
    <3>1. \A v \in Workers, j \in Instances : InHand(v, j) => InHand(v, j)'
      BY <2>1, <2>9 DEF InHand
    <3>2. KeepsRecords
      <4>1. ASSUME NEW v \in Workers, MarkReady(v)
            PROVE  FALSE
        <5>1. v # w
          BY <2>9, <4>1 DEF MarkReady, InHandPCs
        <5>2. workers'[v].pc = "idle" /\ workers[v].pc = "ready"
          BY <1>1, <4>1, ReturnFacts DEF MarkReady, Busy
        <5> QED
          BY <2>1, <5>1, <5>2
      <4> QED
        BY <4>1, OthersKeepRecords
    <3> QED
      BY <1>1, <2>9, <3>1, <3>2, KnownFrame
  <2>10. CASE LaunchFails(w, rows[SessionOf(w)].sku) \/ GetFails(w) \/ GetForProvision(w) \/ Claim(w)
              \/ Fail(w) \/ GetForTerminate(w) \/ TerminateNode(w) \/ MarkTerminated(w)
    <3>1. /\ workers[w].pc \notin InHandPCs
          /\ UNCHANGED instances \/ \E i : instances' = Terminated(i)
      BY <2>2, <2>10 DEF LaunchFails, GetFails, GetForProvision, Claim, Fail, GetForTerminate,
         TerminateNode, TerminateInstances, MarkTerminated, InHandPCs
    <3> QED
      BY <2>9, <3>1
  <2> QED
    BY <1>5, <2>5, <2>6, <2>7, <2>8, <2>10 DEF HandlerStep, Provision
<1>6. CASE UNCHANGED vars
  BY <1>2, <1>6 DEF vars, KeepsRecords, Exists
<1> QED
  BY <1>3, <1>4, <1>5, <1>6 DEF Next, Handlers

(* A running node is in its session's row, or a handler that will record or  *)
(* stop it has its id, in every deployment in which AWS calls and statements *)
(* work, no process stops and no lease is lost: whatever boots fail, clients *)
(* hang up and enqueues fail.                                                *)
THEOREM NoInstanceIsLost ==
  ASSUME {"lease", "ec2", "db", "crash"} \cap Faults = {}
  PROVE  Spec => []NoLostInstance
<1>1. Init => NodesAreKnown
  BY DEF Init, Ec2Init, NotLaunched, NodesAreKnown, Live, LaunchedFor
<1>2. TenantInv /\ NodeInv /\ LaunchInv /\ NodesAreKnown /\ [Next]_vars => NodesAreKnown'
  BY NextNodesKnown
<1>3. NodeInv /\ NodesAreKnown => NoLostInstance
  <2> SUFFICES ASSUME NodeInv, NodesAreKnown, NEW s \in Sessions, NEW i \in Live(s),
                      NEW w \in Workers, InHand(w, i)
               PROVE  workers[w].node = i /\ SessionOf(w) = s
    BY DEF NodesAreKnown, NoLostInstance
  <2>1. instances[i] = [state |-> "live", session |-> SessionOf(w)] /\ workers[w].node = i
    BY DEF NodeInv, NodesInHand, InHand
  <2> QED
    BY <2>1 DEF Live, LaunchedFor
<1>4. Spec => []LaunchInv
  BY LaunchInvariant
<1> QED
  BY <1>1, <1>2, <1>3, <1>4, TenantInvariant, NodeInvariant, PTL DEF Spec

-----------------------------------------------------------------------------
(* No more launches than attempts, whatever happens to the leases *)

(* No row of a session that has its POST goes away or back to pending.       *)
OneWay ==
  \A s \in Sessions : (\E c \in Creates : requests[c].session = s) =>
    /\ Exists(s) => Exists(s)'
    /\ rows'[s].status = "pending" => rows[s].status = "pending"

LEMMA HandlersDoNotReset ==
  ASSUME TypeInv, NEW w \in Workers, HandlerStep(w)
  PROVE  NoReset
<1>1. StoreTypeOK /\ SessionOf(w) \in Sessions /\ workers[w].node \in Instances \cup {Nil}
  BY HandlerFrame DEF TypeInv, TypeOK, QueueTypeOK, Worker
<1>2. CASE UNCHANGED rows
  BY <1>1, <1>2, StatementsDoNotReset
<1>3. CASE Claim(w)
  BY <1>1, <1>3, StatementsDoNotReset DEF Claim, Exec, Statuses
<1>4. CASE MarkReady(w) \/ Fail(w) \/ MarkTerminated(w)
  <2>1. \/ rows' = rows
        \/ rows' = SetSessionReady(SessionOf(w), workers[w].node)
        \/ rows' = SetSessionError(SessionOf(w))
        \/ rows' = SetSessionTerminated(SessionOf(w))
    BY <1>4 DEF MarkReady, Fail, MarkTerminated
  <2> QED
    BY <1>1, <2>1, StatementsDoNotReset
<1> QED
  BY <1>2, <1>3, <1>4 DEF HandlerStep, GetFails, GetForProvision, Provision, GetForTerminate,
     TerminateNode

LEMMA NextOneWay ==
  ASSUME TenantInv, TenantInv', [Next]_vars
  PROVE  OneWay
<1>1. TypeInv /\ ServiceTypeOK
  BY DEF TenantInv, TypeInv, TypeOK
<1>2. CASE UNCHANGED rows
  BY <1>2 DEF OneWay, Exists
<1>3. ASSUME NEW w \in Workers, HandlerStep(w)
      PROVE  OneWay
  BY <1>1, <1>3, HandlersDoNotReset DEF NoReset, OneWay
<1>4. ASSUME NEW r \in Requests, Api(r)
      PROVE  OneWay
  <2> SUFFICES ASSUME NEW s \in Sessions, NEW c \in Creates, requests[c].session = s
               PROVE  /\ Exists(s) => Exists(s)'
                      /\ rows'[s].status = "pending" => rows[s].status = "pending"
    BY DEF OneWay
  <2>1. CASE rows'[s].status = rows[s].status
    BY <2>1 DEF Exists
  <2>2. CASE InsertSession(r) /\ requests'[r].session = s /\ ~Exists(s)
    <3>1. r \in Creates /\ requests[r].session = Nil /\ s # Nil
      BY <1>1, <2>2, DeploymentAssumption DEF InsertSession, TypeInv, TasksHaveSessions
    <3>2. c # r /\ c \in Requests
      BY <3>1 DEF Requests
    <3>3. requests'[c] = requests[c]
      BY <1>1, <2>2, <3>2 DEF InsertSession, Proceed, ServiceTypeOK
    <3> QED
      BY <2>2, <3>1, <3>2, <3>3 DEF TenantInv, OnePostPerSession
  <2>3. CASE rows'[s].status = "terminating"
    BY <2>3 DEF Exists
  <2> QED
    BY <1>4, <2>1, <2>2, <2>3, ApiWrites
<1> QED
  BY <1>2, <1>3, <1>4 DEF Next, Queue, Handlers, vars

(* A task that was enqueued once stays, and loses its claim to an attempt    *)
(* only when a shutdown puts it back.                                        *)
LEMMA NextTasks ==
  ASSUME TypeInv, [Next]_vars, NEW t \in Creates, tasks[t].state # "none",
         tasks[t].retried <= ProvisionMaxRetry
  PROVE  /\ tasks'[t].state # "none"
         /\ tasks'[t].session = tasks[t].session
         /\ tasks'[t].retried <= ProvisionMaxRetry
         /\ \/ Allowed(t) <= Allowed(t)'
            \/ \E w \in Workers : ShutdownWorker(w) /\ workers[w].task = t
<1> DEFINE Kept == /\ tasks'[t].state # "none"
                   /\ tasks'[t].session = tasks[t].session
                   /\ tasks'[t].retried <= ProvisionMaxRetry
                   /\ Allowed(t) <= Allowed(t)'
<1>1. /\ t \in Requests /\ tasks \in [Requests -> Task] /\ tasks[t].retried \in Nat
      /\ BudgetOf(t) = ProvisionMaxRetry
      /\ \A w \in Workers : Busy(w) => workers[w].task \in Requests
  BY DEF TypeInv, TypeOK, QueueTypeOK, Requests, Task, BudgetOf, IsProvision, HandlersHaveTasks
<1> HIDE DEF Kept
<1>2. ASSUME tasks'[t] = tasks[t]
      PROVE  Kept
  BY <1>1, <1>2 DEF Allowed, Kept
<1>3. ASSUME NEW x \in Requests, tasks' = Retried(x)
      PROVE  Kept
  <2>1. CASE x # t
    BY <1>1, <1>2, <1>3, <2>1, RetriedFacts
  <2>2. CASE x = t /\ tasks[t].retried < ProvisionMaxRetry
    <3>1. tasks'[t] = [tasks[t] EXCEPT !.state = "pending", !.retried = tasks[t].retried + 1]
      BY <1>1, <1>3, <2>2 DEF Retried
    <3>2. /\ tasks'[t].state = "pending" /\ tasks'[t].retried = tasks[t].retried + 1
          /\ tasks'[t].session = tasks[t].session
      BY <1>1, <3>1 DEF Task
    <3> QED
      BY <1>1, <2>2, <3>2, DeploymentAssumption DEF Allowed, Kept
  <2>3. CASE x = t /\ ~(tasks[t].retried < ProvisionMaxRetry)
    <3>1. tasks'[t] = [tasks[t] EXCEPT !.state = "archived"]
      BY <1>1, <1>3, <2>3 DEF Retried
    <3>2. /\ tasks'[t].state = "archived" /\ tasks'[t].retried = tasks[t].retried
          /\ tasks'[t].session = tasks[t].session
      BY <1>1, <3>1 DEF Task
    <3> QED
      BY <1>1, <3>2 DEF Allowed, Kept
  <2> QED
    BY <2>1, <2>2, <2>3
<1>4. ASSUME NEW x \in Requests, NEW st \in {"active", "completed"},
             tasks' = [tasks EXCEPT ![x].state = st]
      PROVE  Kept
  <2>1. CASE x # t
    BY <1>1, <1>2, <1>4, <2>1
  <2>2. CASE x = t
    <3>1. /\ tasks'[t].state = st /\ tasks'[t].retried = tasks[t].retried
          /\ tasks'[t].session = tasks[t].session
      BY <1>1, <1>4, <2>2 DEF Task
    <3> QED
      BY <1>1, <3>1 DEF Allowed, Kept
  <2> QED
    BY <2>1, <2>2
<1>5. ASSUME NEW r \in Requests, Api(r)
      PROVE  Kept
  BY <1>1, <1>2, <1>5, ApiFacts
<1>6. ASSUME NEW w \in Workers, HandlerStep(w)
      PROVE  Kept
  <2>1. workers[w].task \in Requests
    BY <1>1, <1>6, HandlerFrame
  <2>2. CASE ReturnNil(w)
    BY <1>2, <1>4, <2>1, <2>2 DEF ReturnNil
  <2>3. CASE ReturnErr(w)
    BY <1>2, <1>3, <2>1, <2>3 DEF ReturnErr
  <2>4. CASE Provision(w)
    BY <1>2, <2>4 DEF Provision, RunInstances, LaunchFails, WaitForRunning, RunProvision,
       BootFails, TerminateBestEffort, Goto
  <2> QED
    BY <1>2, <1>6, <2>2, <2>3, <2>4 DEF HandlerStep, GetFails, GetForProvision, Claim, Exec,
       MarkReady, Fail, GetForTerminate, TerminateNode, MarkTerminated, Goto
<1>7. ASSUME NEW w \in Workers, ShutdownWorker(w), workers[w].task # t
      PROVE  Kept
  BY <1>1, <1>2, <1>7 DEF ShutdownWorker
<1>8. ASSUME NEW w \in Workers, ShutdownWorker(w), workers[w].task = t
      PROVE  /\ tasks'[t].state # "none" /\ tasks'[t].session = tasks[t].session
             /\ tasks'[t].retried = tasks[t].retried
  BY <1>1, <1>8 DEF ShutdownWorker, Task
<1>9. UNCHANGED vars => Kept
  BY <1>2 DEF vars
<1>10. CASE Queue
  <2>1. ASSUME NEW w \in Workers, NEW x \in Requests, Dequeue(w, x)
        PROVE  Kept
    BY <1>4, <2>1 DEF Dequeue
  <2>2. ASSUME NEW w \in Workers, CrashWorker(w) \/ LoseLease(w)
        PROVE  Kept
    BY <1>2, <2>2 DEF CrashWorker, LoseLease
  <2>3. ASSUME NEW x \in Requests, Recover(x)
        PROVE  Kept
    BY <1>3, <2>3 DEF Recover
  <2>4. Kept \/ \E w \in Workers : ShutdownWorker(w)
    BY <1>10, <2>1, <2>2, <2>3 DEF Queue
  <2> QED
    BY <1>7, <1>8, <2>4 DEF Kept
<1> QED
  BY <1>5, <1>6, <1>9, <1>10 DEF Next, Handlers, Kept

(* Who may launch for a task next could before, unless he has just got it.   *)
LEMMA NextAttempts ==
  ASSUME TenantInv, OneWay, [Next]_vars,
         NEW t \in Creates, tasks[t].state # "none", tasks[t].retried <= ProvisionMaxRetry,
         NEW v \in Workers, v \in Attempts(t)'
  PROVE  v \in Attempts(t) \/ Dequeue(v, t)
<1>1. /\ TypeInv /\ t \in Requests
      /\ workers \in [Workers -> Worker] /\ tasks \in [Requests -> Task]
      /\ requests[t].session = tasks[t].session /\ tasks[t].session \in Sessions
  BY DEF TenantInv, TypeInv, TypeOK, QueueTypeOK, TasksHaveSessions, Requests
<1>2. rows'[tasks[t].session].status = "pending" => rows[tasks[t].session].status = "pending"
  BY <1>1 DEF OneWay
<1>3. ASSUME workers'[v] = workers[v], tasks'[t].session = tasks[t].session
      PROVE  v \in Attempts(t)
  BY <1>2, <1>3 DEF Attempts
<1>4. ASSUME NEW r \in Requests, Api(r)
      PROVE  workers'[v] = workers[v] /\ tasks'[t].session = tasks[t].session
  BY <1>1, <1>4, ApiFacts
<1>5. CASE Queue
  <2>1. tasks'[t].session = tasks[t].session
    BY <1>1, NextTasks
  <2>2. ASSUME NEW w \in Workers, CrashWorker(w) \/ ShutdownWorker(w)
        PROVE  workers'[v] = workers[v]
    BY <1>1, <2>2 DEF CrashWorker, ShutdownWorker, IdleWorker, Attempts
  <2>3. ASSUME NEW w \in Workers, LoseLease(w)
        PROVE  v \in Attempts(t)
    <3>1. workers'[v].pc = workers[v].pc /\ workers'[v].task = workers[v].task
      BY <1>1, <2>3 DEF LoseLease, Worker
    <3> QED
      BY <1>2, <2>1, <3>1 DEF Attempts
  <2>4. ASSUME NEW w \in Workers, NEW x \in Requests, Dequeue(w, x)
        PROVE  v \in Attempts(t) \/ Dequeue(v, t)
    <3>1. CASE v # w
      BY <1>1, <1>3, <2>1, <2>4, <3>1 DEF Dequeue
    <3>2. CASE v = w
      <4>1. workers'[v].task = x
        BY <1>1, <2>4, <3>2 DEF Dequeue
      <4> QED
        BY <2>4, <3>2, <4>1 DEF Attempts
    <3> QED
      BY <3>1, <3>2
  <2> QED
    BY <1>3, <1>5, <2>1, <2>2, <2>3, <2>4 DEF Queue, Recover
<1>6. ASSUME NEW w \in Workers, HandlerStep(w)
      PROVE  v \in Attempts(t)
  <2>1. /\ Busy(w)
        /\ \A x \in Workers \ {w} : workers'[x] = workers[x]
    BY <1>1, <1>6, HandlerFrame
  <2>2. tasks'[t].session = tasks[t].session
    BY <1>1, NextTasks
  <2>3. CASE v # w
    BY <1>3, <2>1, <2>2, <2>3
  <2>4. CASE v = w
    <3>1. workers'[w].pc \in {"get", "claim", "launch"} /\ workers'[w].task = t
      BY <2>4 DEF Attempts
    <3>2. ~ReturnNil(w) /\ ~ReturnErr(w)
      BY <1>1, <2>1, <3>1, ReturnFacts
    <3>3. \A pc \in PCs \ {"idle"} : \A node : Goto(w, pc, node) =>
            workers'[w].pc = pc /\ workers[w].task = t
      BY <1>1, <2>1, <3>1, GotoFacts
    <3>4. CASE GetForProvision(w)
      BY <2>4, <3>2, <3>3, <3>4 DEF GetForProvision, PCs, ProvisionPCs, Attempts, SessionOf
    <3>5. CASE Claim(w)
      BY <2>4, <3>2, <3>3, <3>5 DEF Claim, Exec, PCs, ProvisionPCs, Attempts
    <3>6. CASE Provision(w)
      <4>1. \E pc \in {"boot", "script", "cleanup", "ready", "fail"} : \E node : Goto(w, pc, node)
        BY <3>6 DEF Provision, RunInstances, LaunchFails, WaitForRunning, RunProvision, BootFails,
           TerminateBestEffort
      <4> QED
        BY <3>1, <3>3, <4>1 DEF PCs, ProvisionPCs
    <3>7. CASE GetForTerminate(w) \/ TerminateNode(w)
      <4>1. \E pc \in {"terminate", "mark"} : \E node : Goto(w, pc, node)
        BY <3>2, <3>7 DEF GetForTerminate, TerminateNode
      <4> QED
        BY <3>1, <3>3, <4>1 DEF PCs, TerminatePCs
    <3> QED
      BY <1>6, <3>2, <3>4, <3>5, <3>6, <3>7 DEF HandlerStep, GetFails, MarkReady, Fail, MarkTerminated
  <2> QED
    BY <2>3, <2>4
<1>7. CASE UNCHANGED vars
  BY <1>3, <1>7 DEF vars
<1> QED
  BY <1>3, <1>4, <1>5, <1>6, <1>7 DEF Next, Handlers

(* EC2 launches for the session of a handler at launch, and for no other.    *)
LEMMA NextLaunches ==
  ASSUME TypeInv, [Next]_vars
  PROVE  \/ \A i \in Instances : instances'[i].session = instances[i].session
         \/ \E w \in Workers, i \in Instances :
              /\ HandlerStep(w) /\ UNCHANGED rows
              /\ workers[w].pc = "launch" /\ workers'[w].pc \in {"boot", "fail"}
              /\ instances' = Launched(i, SessionOf(w))
<1>1. instances \in [Instances -> Instance]
  BY DEF TypeInv, TypeOK, Ec2TypeOK
<1>2. CASE UNCHANGED instances
  BY <1>2
<1>3. ASSUME NEW r \in Requests, Api(r)
      PROVE  UNCHANGED instances
  BY <1>3 DEF Api
<1>4. ASSUME NEW w \in Workers, HandlerStep(w), ~UNCHANGED instances
      PROVE  \/ \E i : instances' = Terminated(i)
             \/ \E i \in Instances :
                  /\ UNCHANGED rows
                  /\ workers[w].pc = "launch" /\ workers'[w].pc \in {"boot", "fail"}
                  /\ instances' = Launched(i, SessionOf(w))
  <2>1. Busy(w)
    BY <1>4, HandlerFrame
  <2>2. CASE TerminateNode(w) \/ TerminateBestEffort(w)
    BY <1>4, <2>2 DEF TerminateNode, TerminateBestEffort, TerminateInstances
  <2>3. CASE /\ Provision(w)
             /\ RunInstances(w, rows[SessionOf(w)].sku) \/ LaunchFails(w, rows[SessionOf(w)].sku)
    <3>1. PICK i \in Free, pc \in {"boot", "fail"}, node \in Instances \cup {Nil} :
            instances' = Launched(i, SessionOf(w)) /\ Goto(w, pc, node) /\ workers[w].pc = "launch"
      BY <1>4, <2>3 DEF RunInstances, LaunchFails, Free
    <3>2. workers'[w].pc = pc
      BY <2>1, <3>1, GotoFacts DEF PCs, ProvisionPCs
    <3> QED
      BY <2>3, <3>1, <3>2 DEF Provision, Free
  <2> QED
    BY <1>4, <2>2, <2>3 DEF HandlerStep, GetFails, GetForProvision, Claim, Provision, WaitForRunning,
       RunProvision, BootFails, MarkReady, Fail, GetForTerminate, MarkTerminated
<1>5. ASSUME NEW i, instances' = Terminated(i)
      PROVE  \A j \in Instances : instances'[j].session = instances[j].session
  BY <1>1, <1>5 DEF Terminated, Instance
<1> QED
  BY <1>2, <1>3, <1>4, <1>5 DEF Next, Queue, Handlers, vars

(* What handlers know of their rows no step takes from them, lease or not.   *)
LEMMA NextHandlersKnow ==
  ASSUME TenantInv, OneWay, HandlersKnowTheirRow, [Next]_vars
  PROVE  HandlersKnowTheirRow'
<1>1. /\ TypeInv /\ StoreTypeOK
      /\ workers \in [Workers -> Worker] /\ tasks \in [Requests -> Task]
  BY DEF TenantInv, TypeInv, TypeOK, QueueTypeOK
<1> SUFFICES ASSUME NEW v \in Workers, workers'[v].pc \in ProvisionPCs
             PROVE  /\ Exists(SessionOf(v))'
                    /\ workers'[v].pc # "claim" => rows'[SessionOf(v)'].status # "pending"
  BY DEF HandlersKnowTheirRow
<1>2. CASE /\ workers[v].pc \in ProvisionPCs /\ SessionOf(v)' = SessionOf(v)
           /\ workers'[v].pc # "claim" => workers[v].pc # "claim"
  <2>1. Busy(v) /\ workers[v].task \in Creates
    BY <1>1, <1>2 DEF Busy, ProvisionPCs, TypeInv, HandlersHaveTasks
  <2>2. requests[workers[v].task].session = SessionOf(v) /\ SessionOf(v) \in Sessions
    BY <1>1, <2>1, SessionsOfWorkers
  <2>3. PICK s \in Sessions : s = SessionOf(v)
    BY <2>2
  <2>4. /\ Exists(s) => Exists(s)'
        /\ rows'[s].status = "pending" => rows[s].status = "pending"
    BY <2>1, <2>2, <2>3 DEF OneWay
  <2>5. Exists(s) /\ (workers[v].pc # "claim" => rows[s].status # "pending")
    BY <1>2, <2>3 DEF HandlersKnowTheirRow
  <2> QED
    BY <1>2, <2>3, <2>4, <2>5 DEF Exists
<1>3. ASSUME NEW r \in Requests, Api(r)
      PROVE  workers'[v].pc = workers[v].pc /\ SessionOf(v)' = SessionOf(v)
  BY <1>1, <1>3, ApiFacts DEF Busy, ProvisionPCs
<1>4. CASE Queue
  <2>1. \A w \in Workers : Busy(w) => workers[w].task \in Requests
    BY <1>1 DEF TypeInv, HandlersHaveTasks
  <2>2. workers'[v].pc = workers[v].pc /\ workers'[v].task = workers[v].task
    <3>1. ASSUME NEW w \in Workers, NEW x \in Requests, Dequeue(w, x)
          PROVE  workers'[v] = workers[v]
      BY <1>1, <3>1 DEF Dequeue, ProvisionPCs
    <3>2. ASSUME NEW w \in Workers, CrashWorker(w) \/ ShutdownWorker(w)
          PROVE  workers'[v] = workers[v]
      BY <1>1, <3>2 DEF CrashWorker, ShutdownWorker, IdleWorker, ProvisionPCs
    <3>3. ASSUME NEW w \in Workers, LoseLease(w)
          PROVE  workers'[v].pc = workers[v].pc /\ workers'[v].task = workers[v].task
      BY <1>1, <3>3 DEF LoseLease, Worker
    <3> QED
      BY <1>4, <3>1, <3>2, <3>3 DEF Queue, Recover
  <2>3. \A x \in Requests : tasks'[x].session = tasks[x].session
    <3>1. CASE \E x \in Requests : Recover(x)
      BY <1>1, <3>1, RetriedFacts DEF Recover
    <3>2. ASSUME NEW x \in Requests, NEW st \in {"active", "pending"},
                 tasks' = [tasks EXCEPT ![x].state = st]
          PROVE  \A y \in Requests : tasks'[y].session = tasks[y].session
      BY <1>1, <3>2 DEF Task
    <3>3. CASE \E w \in Workers, x \in Requests : Dequeue(w, x)
      BY <3>2, <3>3 DEF Dequeue
    <3>4. CASE \E w \in Workers : ShutdownWorker(w)
      BY <2>1, <3>2, <3>4 DEF ShutdownWorker
    <3> QED
      BY <1>4, <3>1, <3>3, <3>4 DEF Queue, CrashWorker, LoseLease
  <2>4. SessionOf(v)' = SessionOf(v)
    BY <2>1, <2>2, <2>3 DEF SessionOf, Busy, ProvisionPCs
  <2> QED
    BY <1>2, <2>2, <2>4
<1>5. ASSUME NEW w \in Workers, HandlerStep(w)
      PROVE  /\ Exists(SessionOf(v))'
             /\ workers'[v].pc # "claim" => rows'[SessionOf(v)'].status # "pending"
  <2>1. /\ Busy(w) /\ SessionOf(w) \in Sessions
        /\ v # w => workers'[v] = workers[v]
        /\ SessionOf(v)' = SessionOf(v)
    BY <1>1, <1>5, HandlerFrame DEF Busy, ProvisionPCs
  <2>2. CASE v # w
    BY <1>2, <2>1, <2>2
  <2>3. CASE v = w
    <3>1. ~ReturnNil(w) /\ ~ReturnErr(w)
      BY <1>1, <2>1, <2>3, ReturnFacts DEF ProvisionPCs
    <3>2. \A pc \in PCs \ {"idle"} : \A node : Goto(w, pc, node) => workers'[w].pc = pc
      BY <1>1, <2>1, GotoFacts
    <3>3. CASE GetForProvision(w)
      <4>1. rows'[SessionOf(w)].status = "pending" /\ workers'[w].pc = "claim"
        BY <3>1, <3>2, <3>3 DEF GetForProvision, PCs, ProvisionPCs
      <4> QED
        BY <2>1, <2>3, <4>1 DEF Exists
    <3>4. CASE Claim(w)
      <4>1. rows' = SetSessionStatus(SessionOf(w), "provisioning") /\ workers[w].pc = "claim"
        BY <3>1, <3>4 DEF Claim, Exec
      <4>2. Exists(SessionOf(w))
        BY <4>1 DEF HandlersKnowTheirRow, ProvisionPCs
      <4>3. rows'[SessionOf(w)].status = "provisioning"
        BY <1>1, <2>1, <4>1, <4>2, StatementsWrite DEF Writes, Statuses
      <4> QED
        BY <2>1, <2>3, <4>3 DEF Exists
    <3>5. CASE Provision(w)
      <4>1. /\ workers[w].pc \in ProvisionPCs \ {"claim"}
            /\ \E pc \in {"boot", "script", "cleanup", "ready", "fail"} : \E node : Goto(w, pc, node)
        BY <3>5 DEF Provision, RunInstances, LaunchFails, WaitForRunning, RunProvision, BootFails,
           TerminateBestEffort, ProvisionPCs
      <4> QED
        BY <1>2, <2>1, <2>3, <4>1
    <3>6. CASE GetForTerminate(w) \/ TerminateNode(w)
      <4>1. \E pc \in {"terminate", "mark"} : \E node : Goto(w, pc, node)
        BY <3>1, <3>6 DEF GetForTerminate, TerminateNode
      <4> QED
        BY <2>3, <3>2, <4>1 DEF PCs, TerminatePCs, ProvisionPCs
    <3> QED
      BY <1>5, <3>1, <3>3, <3>4, <3>5, <3>6 DEF HandlerStep, GetFails, MarkReady, Fail, MarkTerminated
  <2> QED
    BY <2>2, <2>3
<1>6. CASE UNCHANGED vars
  BY <1>2, <1>6 DEF vars, SessionOf
<1> QED
  BY <1>2, <1>3, <1>4, <1>5, <1>6 DEF Next, Handlers

LEMMA NextLaunchesHaveTasks ==
  ASSUME BudgetInv, OneWay, [Next]_vars
  PROVE  LaunchesHaveTasks'
<1>1. /\ TypeInv /\ instances \in [Instances -> Instance]
      /\ TenantInv /\ LaunchesHaveTasks /\ HandlersKnowTheirRow
  BY DEF BudgetInv, TenantInv, TypeInv, TypeOK, Ec2TypeOK
<1> SUFFICES ASSUME NEW i \in Instances, instances'[i].session # Nil
             PROVE  /\ rows'[instances'[i].session].status \notin {"none", "pending"}
                    /\ \E t \in Creates : /\ tasks'[t].state # "none"
                                          /\ tasks'[t].session = instances'[i].session
  BY DEF LaunchesHaveTasks
(* It is enough that every session in EC2 had its task before the step.      *)
<1> SUFFICES \E t \in Creates, s \in Sessions :
               /\ instances'[i].session = s
               /\ tasks[t].state # "none" /\ tasks[t].session = s
               /\ rows[s].status \notin {"none", "pending"}
  <2>1. PICK t \in Creates, s \in Sessions : /\ instances'[i].session = s
                                            /\ tasks[t].state # "none" /\ tasks[t].session = s
                                            /\ rows[s].status \notin {"none", "pending"}
    OBVIOUS
  <2>2. t \in Requests /\ requests[t].session = s
    BY <1>1, <2>1 DEF TypeInv, TasksHaveSessions, Requests
  <2>3. rows'[s].status \notin {"none", "pending"}
    BY <2>1, <2>2 DEF OneWay, Exists
  <2>4. tasks'[t].state # "none" /\ tasks'[t].session = s
    BY <1>1, <2>1, NextTasks DEF BudgetInv, AttemptsWithinBudget
  <2> QED
    BY <2>1, <2>3, <2>4 DEF LaunchesHaveTasks
<1>2. CASE instances'[i].session = instances[i].session
  BY <1>1, <1>2 DEF LaunchesHaveTasks, Instance
<1>3. CASE \E w \in Workers, j \in Instances :
             workers[w].pc = "launch" /\ instances' = Launched(j, SessionOf(w))
  <2>1. PICK w \in Workers, j \in Instances :
               workers[w].pc = "launch" /\ instances' = Launched(j, SessionOf(w))
    BY <1>3
  <2>2. CASE i # j
    BY <1>1, <1>2, <2>1, <2>2 DEF Launched
  <2>3. CASE i = j
    <3>1. instances'[i].session = SessionOf(w)
      BY <1>1, <2>1, <2>3 DEF Launched
    <3>2. Busy(w) /\ workers[w].task \in Creates
      BY <1>1, <2>1 DEF Busy, ProvisionPCs, TypeInv, HandlersHaveTasks
    <3>3. SessionOf(w) \in Sessions /\ tasks[workers[w].task].state # "none"
      BY <1>1, <3>2, SessionsOfWorkers
    <3>4. rows[SessionOf(w)].status \notin {"none", "pending"}
      BY <1>1, <2>1 DEF HandlersKnowTheirRow, ProvisionPCs, Exists
    <3> QED
      BY <3>1, <3>2, <3>3, <3>4 DEF SessionOf
  <2> QED
    BY <2>2, <2>3
<1> QED
  BY <1>1, <1>2, <1>3, NextLaunches

LEMMA FiniteAttempts ==
  ASSUME IsFiniteSet(Workers), NEW A, A \subseteq Workers
  PROVE  IsFiniteSet(A) /\ Cardinality(A) \in Nat
<1>1. IsFiniteSet(A)
  BY FS_Subset
<1> QED
  BY <1>1, FS_CardinalityType

(* A task that is there already stays within its budget: a launch takes its  *)
(* handler out of the attempts, and a retry, counted, makes room for one.    *)
LEMMA OldTaskBudget ==
  ASSUME IsFiniteSet(Workers), BudgetInv, OneWay, [Next]_vars,
         NEW t \in Creates, tasks[t].state # "none"
  PROVE  AttemptsWithinBudget(t)'
<1>1. /\ TenantInv /\ TypeInv /\ t \in Requests
      /\ tasks \in [Requests -> Task] /\ workers \in [Workers -> Worker]
      /\ instances \in [Instances -> Instance] /\ tasks[t].retried \in Nat
      /\ requests[t].session = tasks[t].session /\ tasks[t].session \in Sessions
  BY DEF BudgetInv, TenantInv, TypeInv, TypeOK, QueueTypeOK, Ec2TypeOK, Task, TasksHaveSessions,
     Requests
<1>2. PICK s \in Sessions : s = tasks[t].session
  BY <1>1
<1>3. PICK A : A = Attempts(t)
  OBVIOUS
<1>4. PICK B : B = Attempts(t)'
  OBVIOUS
<1>5. PICK L : L = LaunchedFor(s)
  OBVIOUS
<1>6. PICK M : M = LaunchedFor(s)'
  OBVIOUS
<1>7. AttemptsWithinBudget(t)
  BY DEF BudgetInv
<1>8. /\ tasks[t].retried <= ProvisionMaxRetry /\ ProvisionMaxRetry \in Nat
      /\ IsFiniteSet(L) /\ Cardinality(L) + Cardinality(A) <= ProvisionMaxRetry + 1
      /\ rows[s].status = "pending" => Cardinality(A) <= Allowed(t)
  BY <1>2, <1>3, <1>5, <1>7, DeploymentAssumption DEF AttemptsWithinBudget
<1>9. /\ tasks'[t].state # "none" /\ tasks'[t].session = s
      /\ tasks'[t].retried <= ProvisionMaxRetry
      /\ \/ Allowed(t) <= Allowed(t)'
         \/ \E w \in Workers : ShutdownWorker(w) /\ workers[w].task = t
  BY <1>1, <1>2, <1>8, NextTasks
<1>10. /\ IsFiniteSet(A) /\ IsFiniteSet(B)
       /\ Cardinality(A) \in Nat /\ Cardinality(B) \in Nat /\ Cardinality(L) \in Nat
  BY <1>3, <1>4, <1>8, FiniteAttempts, FS_CardinalityType DEF Attempts
<1>11. rows'[s].status = "pending" => rows[s].status = "pending" /\ L = {} /\ Cardinality(L) = 0
  <2>1. rows'[s].status = "pending" => rows[s].status = "pending"
    BY <1>1, <1>2 DEF OneWay
  <2>2. ASSUME NEW i \in L
        PROVE  rows[s].status # "pending"
    BY <1>2, <1>5, <2>2, DeploymentAssumption DEF BudgetInv, LaunchesHaveTasks, LaunchedFor
  <2> QED
    BY <2>1, <2>2, FS_EmptySet
<1>12. ASSUME IsFiniteSet(M),
              Cardinality(M) + Cardinality(B) <= ProvisionMaxRetry + 1,
              rows'[s].status = "pending" => Cardinality(B) <= Allowed(t)'
       PROVE  AttemptsWithinBudget(t)'
  <2>1. M = LaunchedFor(tasks[t].session)'
    BY <1>2, <1>6, <1>9 DEF LaunchedFor
  <2> QED
    BY <1>2, <1>4, <1>9, <1>12, <2>1 DEF AttemptsWithinBudget
<1>13. ASSUME \A v \in Workers : ~Dequeue(v, t)
       PROVE  B \subseteq A /\ Cardinality(B) <= Cardinality(A)
  <2>1. B \subseteq A
    BY <1>1, <1>3, <1>4, <1>8, <1>13, NextAttempts DEF Attempts
  <2> QED
    BY <1>10, <2>1, FS_Subset
(* The launch itself. *)
<1>14. ASSUME NEW w \in Workers, NEW i \in Instances,
              HandlerStep(w), UNCHANGED rows, workers[w].pc = "launch",
              workers'[w].pc \in {"boot", "fail"},
              instances' = Launched(i, SessionOf(w)), workers[w].task = t
       PROVE  AttemptsWithinBudget(t)'
  <2>1. Busy(w) /\ SessionOf(w) = s /\ \A v \in Workers \ {w} : workers'[v] = workers[v]
    BY <1>1, <1>2, <1>14, HandlerFrame DEF SessionOf
  <2>2. \A v \in Workers : ~Dequeue(v, t)
    BY <1>1, <2>1 DEF Dequeue, Busy
  <2>3. w \in A /\ w \notin B /\ B \subseteq A \ {w}
    BY <1>3, <1>4, <1>13, <1>14, <2>2 DEF Attempts
  <2>4. Cardinality(B) <= Cardinality(A) - 1
    <3>1. IsFiniteSet(A \ {w}) /\ Cardinality(A \ {w}) = Cardinality(A) - 1
      BY <1>10, <2>3, FS_RemoveElement
    <3> QED
      BY <2>3, <3>1, FS_Subset
  <2>5. M \subseteq L \cup {i}
    BY <1>1, <1>5, <1>6, <1>14 DEF Launched, LaunchedFor
  <2>6. IsFiniteSet(M) /\ Cardinality(M) \in Nat /\ Cardinality(M) <= Cardinality(L) + 1
    <3>1. IsFiniteSet(L \cup {i}) /\ Cardinality(L \cup {i}) \in {Cardinality(L), Cardinality(L) + 1}
      BY <1>8, FS_AddElement
    <3>2. IsFiniteSet(M) /\ Cardinality(M) <= Cardinality(L \cup {i})
      BY <2>5, <3>1, FS_Subset
    <3>3. Cardinality(M) \in Nat
      BY <3>2, FS_CardinalityType
    <3> QED
      BY <1>10, <3>1, <3>2, <3>3
  <2>7. rows'[s].status # "pending"
    BY <1>14, <2>1 DEF BudgetInv, HandlersKnowTheirRow, ProvisionPCs
  <2> QED
    BY <1>8, <1>10, <1>12, <2>4, <2>6, <2>7
(* Nothing is launched for the session. *)
<1>15. ASSUME M \subseteq L
       PROVE  AttemptsWithinBudget(t)'
  <2>0. IsFiniteSet(M) /\ Cardinality(M) \in Nat /\ Cardinality(M) <= Cardinality(L)
    BY <1>8, <1>15, FS_Subset, FS_CardinalityType
  <2>1. CASE /\ \A v \in Workers : ~Dequeue(v, t)
             /\ Allowed(t) <= Allowed(t)'
    <3>1. tasks'[t].retried \in Nat
      BY <1>1, NextTypeInv DEF TypeInv, TypeOK, QueueTypeOK, Task
    <3>2. Allowed(t) \in Nat /\ Allowed(t)' \in Nat
      BY <1>1, <3>1 DEF Allowed
    <3> QED
      BY <1>8, <1>10, <1>11, <1>12, <1>13, <2>0, <2>1, <3>2
  <2>2. ASSUME NEW v \in Workers, Dequeue(v, t)
        PROVE  AttemptsWithinBudget(t)'
    <3>1. /\ tasks[t].state = "pending" /\ tasks'[t].state = "active"
          /\ tasks'[t].retried = tasks[t].retried
          /\ ~Busy(v) /\ workers'[v].pc = "get"
          /\ \A x \in Workers \ {v} : workers'[x] = workers[x]
      BY <1>1, <2>2 DEF Dequeue, Task
    <3>2. B \subseteq A \cup {v}
      <4>1. \A x \in Workers : Dequeue(x, t) => x = v
        BY <1>1, <3>1 DEF Dequeue, Busy
      <4>2. B \subseteq Workers
        BY <1>4 DEF Attempts
      <4> QED
        BY <1>1, <1>3, <1>4, <1>8, <4>1, <4>2, NextAttempts
    <3>3. CASE rows'[s].status = "pending"
      <4>1. Allowed(t) = tasks[t].retried /\ Allowed(t)' = tasks[t].retried + 1
        BY <1>1, <3>1 DEF Allowed
      <4>2. Cardinality(B) <= Cardinality(A) + 1
        <5>1. IsFiniteSet(A \cup {v}) /\ Cardinality(A \cup {v}) \in {Cardinality(A), Cardinality(A) + 1}
          BY <1>10, FS_AddElement
        <5>2. Cardinality(B) <= Cardinality(A \cup {v})
          BY <3>2, <5>1, FS_Subset
        <5> QED
          BY <1>10, <5>1, <5>2
      <4> QED
        BY <1>1, <1>8, <1>10, <1>11, <1>12, <2>0, <3>3, <4>1, <4>2
    <3>4. CASE rows'[s].status # "pending"
      <4>1. v \notin B
        BY <1>4, <1>9, <3>1, <3>4 DEF Attempts
      <4>2. Cardinality(B) <= Cardinality(A)
        BY <1>10, <3>2, <4>1, FS_Subset
      <4> QED
        BY <1>8, <1>10, <1>12, <2>0, <3>4, <4>2
    <3> QED
      BY <3>3, <3>4
  <2>3. ASSUME NEW w \in Workers, ShutdownWorker(w), workers[w].task = t
        PROVE  AttemptsWithinBudget(t)'
    <3>1. /\ tasks'[t].state = "pending" /\ tasks'[t].retried = tasks[t].retried
          /\ Busy(w) /\ workers'[w].pc = "idle"
          /\ \A x \in Workers \ {w} : workers'[x] = workers[x]
      BY <1>1, <2>3 DEF ShutdownWorker, IdleWorker, Task
    <3>2. \A v \in Workers : ~Dequeue(v, t)
      BY <1>1, <3>1 DEF Dequeue, Busy
    <3>3. B \subseteq A \ {w} /\ Cardinality(B) <= Cardinality(A)
      BY <1>4, <1>13, <3>1, <3>2 DEF Attempts
    <3>4. CASE rows'[s].status = "pending"
      <4>1. rows[s].status = "pending" /\ Cardinality(L) = 0
        BY <1>11, <3>4
      <4>2. w \in A
        <5>1. workers[w].pc \notin TerminatePCs
          BY <1>1, <2>3, <3>1, DeploymentAssumption DEF TypeInv, HandlersHaveTasks
        <5>2. workers[w].pc \notin ProvisionPCs \ {"claim"}
          BY <1>2, <2>3, <4>1 DEF BudgetInv, HandlersKnowTheirRow, SessionOf
        <5> QED
          BY <1>1, <1>2, <1>3, <2>3, <3>1, <4>1, <5>1, <5>2 DEF Attempts, Busy, Worker, PCs
      <4>3. Cardinality(B) <= Cardinality(A) - 1
        <5>1. IsFiniteSet(A \ {w}) /\ Cardinality(A \ {w}) = Cardinality(A) - 1
          BY <1>10, <4>2, FS_RemoveElement
        <5> QED
          BY <3>3, <5>1, FS_Subset
      <4>4. Allowed(t) <= tasks[t].retried + 1 /\ Allowed(t)' = tasks[t].retried /\ Allowed(t) \in Nat
        BY <1>1, <3>1 DEF Allowed
      <4> QED
        BY <1>1, <1>8, <1>10, <1>12, <2>0, <4>1, <4>3, <4>4
    <3>5. CASE rows'[s].status # "pending"
      BY <1>8, <1>10, <1>12, <2>0, <3>3, <3>5
    <3> QED
      BY <3>4, <3>5
  <2> QED
    BY <1>9, <2>1, <2>2, <2>3
<1>16. CASE \A i \in Instances : instances'[i].session = instances[i].session
  BY <1>5, <1>6, <1>15, <1>16 DEF LaunchedFor
<1>17. ASSUME NEW w \in Workers, NEW i \in Instances, workers[w].pc = "launch",
              instances' = Launched(i, SessionOf(w)), workers[w].task # t
       PROVE  M \subseteq L
  <2>1. Busy(w) /\ workers[w].task \in Creates
    BY <1>1, <1>17 DEF Busy, ProvisionPCs, TypeInv, HandlersHaveTasks
  <2>2. requests[workers[w].task].session = SessionOf(w) /\ SessionOf(w) \in Sessions
    BY <1>1, <2>1, SessionsOfWorkers
  <2>3. SessionOf(w) # s
    BY <1>1, <1>2, <1>17, <2>1, <2>2, DeploymentAssumption DEF TenantInv, OnePostPerSession
  <2> QED
    BY <1>1, <1>5, <1>6, <1>17, <2>3 DEF Launched, LaunchedFor
<1> QED
  BY <1>1, <1>14, <1>15, <1>16, <1>17, NextLaunches

LEMMA NewTaskBudget ==
  ASSUME IsFiniteSet(Workers), BudgetInv, [Next]_vars,
         NEW t \in Creates, tasks[t].state = "none", tasks'[t].state # "none"
  PROVE  AttemptsWithinBudget(t)'
<1>1. /\ TenantInv /\ TypeInv /\ t \in Requests /\ tasks \in [Requests -> Task]
      /\ instances \in [Instances -> Instance]
  BY DEF BudgetInv, TenantInv, TypeInv, TypeOK, QueueTypeOK, Ec2TypeOK, Requests
<1>2. PICK r \in Requests : Api(r)
  BY <1>1, TasksComeFromRequests DEF NoNewTasks, Next, Handlers, vars
<1>3. UNCHANGED <<workers, instances>>
  BY <1>1, <1>2, ApiFacts
<1>4. EnqueueTask(r)
  BY <1>2 DEF Api, RequestStep, Authenticate, RejectBody, InsertSession, LookupSession,
     SetTerminating, CrashRequest
<1>5. /\ requests[t].session \in Sessions
      /\ tasks'[t] = [state |-> "pending", session |-> requests[t].session, retried |-> 0]
  <2>1. tasks' = Enqueued(r, requests[r].session) /\ r = t
    BY <1>1, <1>4 DEF EnqueueTask, Enqueued
  <2> QED
    BY <1>1, <1>4, <2>1 DEF EnqueueTask, Enqueued, TypeInv, TasksHaveSessions
<1>6. Attempts(t)' = {}
  BY <1>1, <1>3 DEF Attempts, TypeInv, HandlersHaveTasks, Busy
<1>7. LaunchedFor(tasks[t].session)' = {}
  <2> SUFFICES ASSUME NEW i \in Instances, instances[i].session = requests[t].session
               PROVE  FALSE
    BY <1>3, <1>5 DEF LaunchedFor
  <2>1. PICK x \in Creates : tasks[x].state # "none" /\ tasks[x].session = requests[t].session
    BY <1>5, DeploymentAssumption DEF BudgetInv, LaunchesHaveTasks
  <2>2. requests[x].session = requests[t].session
    BY <1>1, <2>1 DEF TypeInv, TasksHaveSessions, Requests
  <2> QED
    BY <1>1, <1>5, <2>1, <2>2, DeploymentAssumption DEF TenantInv, OnePostPerSession
<1>8. ProvisionMaxRetry \in Nat
  BY DeploymentAssumption
<1>9. Cardinality({}) = 0 /\ IsFiniteSet({})
  BY FS_EmptySet
<1>10. tasks'[t].retried = 0 /\ tasks'[t].state = "pending"
  BY <1>5
<1>11. Allowed(t)' = 0
  BY <1>10 DEF Allowed
<1> QED
  BY <1>6, <1>7, <1>8, <1>9, <1>10, <1>11 DEF AttemptsWithinBudget

LEMMA NextBudgetInv ==
  ASSUME IsFiniteSet(Workers), BudgetInv, [Next]_vars
  PROVE  BudgetInv'
<1>1. TenantInv /\ TenantInv' /\ TypeInv /\ TypeInv'
  BY NextTenantInv DEF BudgetInv, TenantInv
<1>2. OneWay
  BY <1>1, NextOneWay
<1>3. HandlersKnowTheirRow'
  BY <1>1, <1>2, NextHandlersKnow DEF BudgetInv
<1>4. LaunchesHaveTasks'
  BY <1>2, NextLaunchesHaveTasks
<1>5. ASSUME NEW t \in Creates, tasks'[t].state # "none"
      PROVE  AttemptsWithinBudget(t)'
  BY <1>2, <1>5, OldTaskBudget, NewTaskBudget
<1> QED
  BY <1>1, <1>3, <1>4, <1>5 DEF BudgetInv

(* What a session can cost at most: an attempt that may still launch has     *)
(* been paid for with a retry, also when its worker has outlived its lease.  *)
THEOREM BudgetInvariant ==
  ASSUME IsFiniteSet(Workers)
  PROVE  Spec => []BudgetInv
<1>1. Init => BudgetInv
  <2> SUFFICES ASSUME Init
               PROVE  BudgetInv
    OBVIOUS
  <2>1. /\ \A w \in Workers : workers[w].pc = "idle"
        /\ \A t \in Requests : tasks[t].state = "none"
        /\ \A i \in Instances : instances[i].session = Nil
    BY DEF Init, QueueInit, IdleWorker, NoTask, Ec2Init, NotLaunched
  <2>2. HandlersKnowTheirRow /\ LaunchesHaveTasks
    BY <2>1 DEF HandlersKnowTheirRow, LaunchesHaveTasks, ProvisionPCs
  <2> QED
    BY <2>1, <2>2, InitTenantInv DEF BudgetInv, Requests
<1>2. BudgetInv /\ [Next]_vars => BudgetInv'
  BY NextBudgetInv
<1> QED
  BY <1>1, <1>2, PTL DEF Spec

(* However leases are lost, and whatever else fails, EC2 launches at most    *)
(* one instance per attempt that asynq counts, in deployments of any size.   *)
THEOREM LaunchesStayWithinBudget ==
  ASSUME IsFiniteSet(Workers)
  PROVE  Spec => []LaunchesWithinBudget
<1>1. BudgetInv => LaunchesWithinBudget
  <2> SUFFICES ASSUME BudgetInv, NEW s \in Sessions
               PROVE  Cardinality(LaunchedFor(s)) <= ProvisionMaxRetry + 1
    BY DEF LaunchesWithinBudget
  <2>1. CASE LaunchedFor(s) = {}
    BY <2>1, FS_EmptySet, DeploymentAssumption
  <2>2. ASSUME NEW i \in LaunchedFor(s)
        PROVE  Cardinality(LaunchedFor(s)) <= ProvisionMaxRetry + 1
    <3>1. PICK t \in Creates : tasks[t].state # "none" /\ tasks[t].session = s
      BY DeploymentAssumption DEF BudgetInv, LaunchesHaveTasks, LaunchedFor
    <3>2. PICK A : A = Attempts(t)
      OBVIOUS
    <3>3. IsFiniteSet(A) /\ Cardinality(A) \in Nat
      BY <3>2, FiniteAttempts DEF Attempts
    <3>4. /\ IsFiniteSet(LaunchedFor(s))
          /\ Cardinality(LaunchedFor(s)) + Cardinality(A) <= ProvisionMaxRetry + 1
      BY <3>1, <3>2 DEF BudgetInv, AttemptsWithinBudget
    <3>5. Cardinality(LaunchedFor(s)) \in Nat
      BY <3>4, FS_CardinalityType
    <3> QED
      BY <3>3, <3>4, <3>5, DeploymentAssumption
  <2> QED
    BY <2>1, <2>2
<1> QED
  BY <1>1, BudgetInvariant, PTL
=============================================================================
