----------------------------- MODULE NodeProofs -----------------------------
(* Who has which instance: what the handlers have in hand, what the rows     *)
(* record, and what follows for the nodes clients pay for.                   *)
EXTENDS TenantProofs

-----------------------------------------------------------------------------
(* Workers *)

(* A handler that goes on changes its own control point and node only.       *)
LEMMA GotoFacts ==
  ASSUME TypeInv, NEW w \in Workers, Busy(w), NEW pc \in PCs \ {"idle"}, NEW node, Goto(w, pc, node)
  PROVE  /\ workers'[w].pc = pc /\ workers'[w].node = node
         /\ \A v \in Workers \ {w} : workers'[v] = workers[v]
         /\ \A v \in Workers : /\ workers'[v].task = workers[v].task
                               /\ workers'[v].leased = workers[v].leased
                               /\ SessionOf(v)' = SessionOf(v)
                               /\ Busy(v)' <=> Busy(v)
<1>1. workers \in [Workers -> Worker]
  BY DEF TypeInv, TypeOK, QueueTypeOK
<1> QED
  BY <1>1 DEF Goto, Worker, Busy, SessionOf

(* A handler that returns leaves an idle worker, and the others alone.       *)
LEMMA ReturnFacts ==
  ASSUME TypeInv, NEW w \in Workers, Busy(w), ReturnNil(w) \/ ReturnErr(w)
  PROVE  /\ ~Busy(w)' /\ workers'[w].pc = "idle"
         /\ \A v \in Workers \ {w} : workers'[v] = workers[v]
         /\ \A v \in Workers : Busy(v)' => Busy(v) /\ SessionOf(v)' = SessionOf(v)
<1>1. workers \in [Workers -> Worker] /\ tasks \in [Requests -> Task]
  BY DEF TypeInv, TypeOK, QueueTypeOK
<1>2. \A v \in Workers : Busy(v) => workers[v].task \in Requests
  BY DEF TypeInv, HandlersHaveTasks
<1>3. workers' = [workers EXCEPT ![w] = IdleWorker]
  BY DEF ReturnNil, ReturnErr
<1>4. \A t \in Requests : tasks'[t].session = tasks[t].session
  <2>1. CASE ReturnNil(w)
    BY <1>1, <1>2, <2>1 DEF ReturnNil, Task
  <2>2. CASE ReturnErr(w)
    BY <1>1, <1>2, <2>2, RetriedFacts DEF ReturnErr
  <2> QED
    BY <2>1, <2>2
<1>5. /\ workers'[w].pc = "idle"
      /\ \A v \in Workers \ {w} : workers'[v] = workers[v]
  BY <1>1, <1>3 DEF IdleWorker
<1> QED
  BY <1>2, <1>4, <1>5 DEF Busy, SessionOf

(* asynq never moves a handler: it starts one, drops one or takes its lease. *)
LEMMA QueueFacts ==
  ASSUME TypeInv, Queue
  PROVE  \A v \in Workers : workers'[v].pc \notin {"idle", "get"} =>
           /\ workers'[v].pc = workers[v].pc
           /\ workers'[v].node = workers[v].node
           /\ workers'[v].task = workers[v].task
           /\ SessionOf(v)' = SessionOf(v)
<1>1. workers \in [Workers -> Worker] /\ tasks \in [Requests -> Task]
  BY DEF TypeInv, TypeOK, QueueTypeOK
<1>2. \A v \in Workers : Busy(v) => workers[v].task \in Requests
  BY DEF TypeInv, HandlersHaveTasks
<1>3. \A v \in Workers : workers[v].pc \notin {"idle", "get"} => Busy(v)
  BY DEF Busy
<1>4. ASSUME NEW w \in Workers, NEW t \in Requests, Dequeue(w, t)
      PROVE  /\ \A v \in Workers : workers'[v] = workers[v] \/ workers'[v].pc = "get"
             /\ \A x \in Requests : tasks'[x].session = tasks[x].session
  BY <1>1, <1>4 DEF Dequeue, Task
<1>5. ASSUME NEW w \in Workers, CrashWorker(w) \/ ShutdownWorker(w)
      PROVE  /\ \A v \in Workers : workers'[v] = workers[v] \/ workers'[v].pc = "idle"
             /\ \A x \in Requests : tasks'[x].session = tasks[x].session
  BY <1>1, <1>2, <1>5 DEF CrashWorker, ShutdownWorker, IdleWorker, Task
<1>6. ASSUME NEW w \in Workers, LoseLease(w)
      PROVE  /\ \A v \in Workers : /\ workers'[v].pc = workers[v].pc
                                   /\ workers'[v].node = workers[v].node
                                   /\ workers'[v].task = workers[v].task
             /\ UNCHANGED tasks
  BY <1>1, <1>6 DEF LoseLease, Worker
<1>7. ASSUME NEW t \in Requests, Recover(t)
      PROVE  UNCHANGED workers /\ \A x \in Requests : tasks'[x].session = tasks[x].session
  BY <1>1, <1>7, RetriedFacts DEF Recover
<1>8. CASE \E w \in Workers, t \in Requests : Dequeue(w, t)
  BY <1>2, <1>3, <1>4, <1>8 DEF SessionOf
<1>9. CASE \E w \in Workers : CrashWorker(w) \/ ShutdownWorker(w)
  BY <1>2, <1>3, <1>5, <1>9 DEF SessionOf
<1>10. CASE \E w \in Workers : LoseLease(w)
  BY <1>6, <1>10 DEF SessionOf
<1>11. CASE \E t \in Requests : Recover(t)
  BY <1>2, <1>3, <1>7, <1>11 DEF SessionOf
<1> QED
  BY <1>8, <1>9, <1>10, <1>11 DEF Queue

(* Nor does the API.                                                         *)
LEMMA ApiFacts ==
  ASSUME TypeInv, NEW r \in Requests, Api(r)
  PROVE  /\ UNCHANGED <<workers, instances>>
         /\ \A x \in Requests : tasks[x].state # "none" => tasks'[x] = tasks[x]
         /\ \A v \in Workers : Busy(v) => SessionOf(v)' = SessionOf(v)
<1>1. UNCHANGED <<workers, instances>>
  BY DEF Api, RequestStep, Authenticate, RejectBody, InsertSession, LookupSession,
         SetTerminating, EnqueueTask, CrashRequest
<1>2. \A x \in Requests : tasks[x].state # "none" => tasks'[x] = tasks[x]
  <2>1. CASE UNCHANGED tasks
    BY <2>1
  <2>2. CASE EnqueueTask(r)
    <3>1. tasks[r].state = "none" /\ tasks \in [Requests -> Task]
      BY <2>2 DEF EnqueueTask, TypeInv, TasksHaveSessions, TypeOK, QueueTypeOK
    <3> QED
      BY <2>2, <3>1 DEF EnqueueTask, Enqueued
  <2> QED
    BY <2>1, <2>2 DEF Api, RequestStep, Authenticate, RejectBody, InsertSession, LookupSession,
         SetTerminating, CrashRequest
<1>3. \A v \in Workers : Busy(v) =>
        workers[v].task \in Requests /\ tasks[workers[v].task].state # "none"
  BY DEF TypeInv, HandlersHaveTasks
<1> QED
  BY <1>1, <1>2, <1>3 DEF SessionOf

-----------------------------------------------------------------------------
(* NodeInv *)

(* An empty deployment has nothing in hand and nothing recorded.             *)
LEMMA InitNodeInv == Init => NodeInv
<1> SUFFICES ASSUME Init PROVE NodeInv
  OBVIOUS
<1>1. \A w \in Workers : workers[w].pc = "idle"
  BY DEF Init, QueueInit, IdleWorker
<1>2. NodesInHand
  BY <1>1 DEF NodesInHand, InHand, InHandPCs
<1>3. RecordedNodes
  BY <1>1 DEF RecordedNodes, Init, StoreInit, NoRow
<1>4. BlanksAreBlank
  BY DEF BlanksAreBlank, Init, Ec2Init, NotLaunched, StoreInit, NoRow
<1> QED
  BY <1>2, <1>3, <1>4, InitTypeInv DEF NodeInv

(* No statement but SetSessionReady writes instance_id, and a row that is    *)
(* inserted has none.                                                        *)
KeepsRecords ==
  \A x \in Sessions : /\ rows'[x].instance_id = rows[x].instance_id
                      /\ Exists(x) => Exists(x)'

LEMMA StatementsKeepRecords ==
  ASSUME StoreTypeOK, NEW s \in Sessions,
         \/ rows' = rows
         \/ \E st \in Statuses : rows' = SetSessionStatus(s, st)
         \/ rows' = SetSessionError(s)
         \/ rows' = SetSessionTerminated(s)
  PROVE  KeepsRecords
<1> USE DEF KeepsRecords, Exists
<1>1. CASE rows' = rows
  BY <1>1
<1>2. ASSUME NEW st \in Statuses, rows' = SetSessionStatus(s, st)
      PROVE  KeepsRecords
  BY <1>2 DEF SetSessionStatus, Updated, StoreTypeOK, Row, Statuses
<1>3. CASE rows' = SetSessionError(s)
  BY <1>3 DEF SetSessionError, Updated, StoreTypeOK, Row
<1>4. CASE rows' = SetSessionTerminated(s)
  BY <1>4 DEF SetSessionTerminated, Updated, StoreTypeOK, Row
<1> QED
  BY <1>1, <1>2, <1>3, <1>4

(* What worker v has, it had before.                                         *)
HadBefore(v) ==
  /\ workers[v].pc \in InHandPCs <=> workers'[v].pc \in InHandPCs
  /\ workers[v].pc = "terminate" <=> workers'[v].pc = "terminate"
  /\ workers'[v].node = workers[v].node
  /\ SessionOf(v)' = SessionOf(v)

HasSomething(v) == workers[v].pc \in InHandPCs \cup {"terminate"}

(* Nobody gets anything into its hands, EC2 does nothing, no record changes. *)
LEMMA NodeFrame ==
  ASSUME NodeInv, TypeInv', KeepsRecords, UNCHANGED instances,
         \A v \in Workers : HasSomething(v)' => HadBefore(v)
  PROVE  NodeInv'
<1> USE DEF NodeInv, HadBefore, HasSomething, InHandPCs
<1>1. BlanksAreBlank'
  BY DEF BlanksAreBlank, KeepsRecords
<1>2. NodesInHand'
  BY DEF NodesInHand, InHand
<1>3. ASSUME NEW i, NEW s, HandedOver(i, s)
      PROVE  HandedOver(i, s)'
  BY <1>3 DEF HandedOver, InHand
<1>4. RecordedNodes'
  BY <1>3 DEF RecordedNodes, KeepsRecords
<1> QED
  BY <1>1, <1>2, <1>4

(* Instance i leaves worker w's hands, or was in nobody's, and may stop.     *)
LEMMA NodeStops ==
  ASSUME NodeInv, TypeInv', KeepsRecords, NEW i \in Instances,
         instances' \in {instances, Terminated(i)},
         NEW w \in Workers, Busy(w), NEW pc \in {"fail", "mark"}, NEW node, Goto(w, pc, node),
         InHand(w, i) \/ HandedOver(i, SessionOf(w)), SessionOf(w) \in Sessions
  PROVE  NodeInv'
<1> USE DEF NodeInv
<1>1. /\ workers'[w].pc = pc /\ \A v \in Workers \ {w} : workers'[v] = workers[v]
      /\ \A v \in Workers : SessionOf(v)' = SessionOf(v)
  BY GotoFacts DEF PCs, ProvisionPCs, TerminatePCs
<1>2. /\ \A j \in Instances : instances'[j].session = instances[j].session
      /\ \A j \in Instances \ {i} : instances'[j] = instances[j]
      /\ instances'[i].state \in {instances[i].state, "terminated"}
  BY DEF Terminated, TypeInv, TypeOK, Ec2TypeOK, Instance
<1>3. instances[i].session # Nil
  <2>1. CASE InHand(w, i)
    <3>1. instances[i] = [state |-> "live", session |-> SessionOf(w)]
      BY <2>1 DEF NodesInHand, InHand
    <3> QED
      BY <3>1, DeploymentAssumption
  <2>2. CASE HandedOver(i, SessionOf(w))
    BY <2>2, DeploymentAssumption DEF HandedOver
  <2> QED
    BY <2>1, <2>2
<1>4. BlanksAreBlank'
  BY <1>2, <1>3 DEF BlanksAreBlank, KeepsRecords
<1>5. \A v \in Workers \ {w} : ~InHand(v, i)
  BY DEF HandedOver, NodesInHand
<1>6. NodesInHand'
  BY <1>1, <1>2, <1>5 DEF NodesInHand, InHand, InHandPCs
<1>7. ASSUME NEW j, NEW s, HandedOver(j, s)
      PROVE  HandedOver(j, s)'
  BY <1>1, <1>2, <1>7 DEF HandedOver, InHand, InHandPCs
<1>8. RecordedNodes'
  BY <1>1, <1>7 DEF RecordedNodes, KeepsRecords
<1> QED
  BY <1>4, <1>6, <1>8

(* Worker w launches i: nobody can have had it, no row can record it.        *)
LEMMA NodeStarts ==
  ASSUME NodeInv, TypeInv', UNCHANGED rows, NEW w \in Workers, Busy(w),
         NEW i \in Free, instances' = Launched(i, SessionOf(w)), SessionOf(w) \in Sessions,
         Goto(w, "boot", i) \/ Goto(w, "fail", Nil)
  PROVE  NodeInv'
<1> USE DEF NodeInv
<1>1. /\ workers'[w].pc = "fail" \/ (workers'[w].pc = "boot" /\ workers'[w].node = i)
      /\ \A v \in Workers \ {w} : workers'[v] = workers[v]
      /\ \A v \in Workers : SessionOf(v)' = SessionOf(v)
  BY GotoFacts DEF PCs, ProvisionPCs, Free
<1>2. /\ i \in Instances /\ instances[i].state = "none" /\ instances[i].session = Nil
      /\ \A j \in Instances : instances'[j] =
           IF j = i THEN [state |-> "live", session |-> SessionOf(w)] ELSE instances[j]
  BY DEF Free, Launched, BlanksAreBlank, TypeInv, TypeOK, Ec2TypeOK
<1>3. BlanksAreBlank'
  BY <1>2, DeploymentAssumption DEF BlanksAreBlank, Exists
<1>4. ASSUME NEW v \in Workers, InHand(v, i)
      PROVE  FALSE
  <2>1. instances[i] = [state |-> "live", session |-> SessionOf(v)]
    BY <1>4 DEF NodesInHand, InHand
  <2> QED
    BY <1>2, <2>1
<1>5. NodesInHand'
  BY <1>1, <1>2, <1>4 DEF NodesInHand, InHand, InHandPCs
<1>6. ASSUME NEW j, NEW s \in Sessions, HandedOver(j, s)
      PROVE  HandedOver(j, s)'
  BY <1>1, <1>2, <1>6, DeploymentAssumption DEF HandedOver, InHand, InHandPCs
<1>7. \A v \in Workers : Busy(v) => SessionOf(v) \in Sessions
  BY DEF TypeInv, HandlersHaveTasks, TasksHaveSessions, SessionOf
<1>8. RecordedNodes'
  BY <1>1, <1>6, <1>7 DEF RecordedNodes, Busy
<1> QED
  BY <1>3, <1>5, <1>8

(* SetSessionReady: the row takes over what the handler lets go of.          *)
LEMMA NodeRecorded ==
  ASSUME NodeInv, TypeInv', NEW w \in Workers, MarkReady(w), SessionOf(w) \in Sessions
  PROVE  NodeInv'
<1> USE DEF NodeInv
<1>0. PICK i, x : i = workers[w].node /\ x = SessionOf(w)
  OBVIOUS
<1>1. /\ workers[w].pc = "ready" /\ Busy(w)
      /\ ReturnNil(w) \/ ReturnErr(w)
      /\ UNCHANGED instances /\ rows' \in {rows, SetSessionReady(x, i)}
  BY <1>0 DEF MarkReady, Busy
<1>2. /\ workers'[w].pc = "idle"
      /\ \A v \in Workers \ {w} : workers'[v] = workers[v]
      /\ \A v \in Workers : Busy(v)' => SessionOf(v)' = SessionOf(v)
  BY <1>1, ReturnFacts DEF MarkReady, Busy
<1>3. /\ InHand(w, i) /\ i \in Instances /\ instances[i] = [state |-> "live", session |-> x]
      /\ instances[i].session = x
  BY <1>0, <1>1 DEF NodesInHand, InHand, InHandPCs
<1>4. \A v \in Workers : HasSomething(v)' => v # w /\ Busy(v)'
  BY <1>2 DEF HasSomething, Busy, InHandPCs
<1>5. \A v \in Workers : \A j : InHand(v, j)' => v # w /\ InHand(v, j)
  BY <1>2 DEF InHand, InHandPCs
<1>6. /\ \A y \in Sessions : rows'[y].instance_id # rows[y].instance_id => y = x /\ rows'[y].instance_id = i
      /\ \A y \in Sessions : ~Exists(y)' => ~Exists(y) /\ rows'[y] = rows[y]
  <2>1. rows \in [Sessions -> Row] /\ x \in Sessions
    BY <1>0 DEF TypeInv, TypeOK, StoreTypeOK
  <2>2. CASE rows' = rows
    BY <2>2 DEF Exists
  <2>3. CASE rows' = [rows EXCEPT ![x] = [rows[x] EXCEPT !.status = "ready", !.instance_id = i]]
    BY <2>1, <2>3 DEF Exists, Row
  <2> QED
    BY <1>1, <2>2, <2>3 DEF SetSessionReady, Updated
<1>7. BlanksAreBlank'
  BY <1>1, <1>6 DEF BlanksAreBlank
<1>8. NodesInHand'
  <2>1. ASSUME NEW v \in Workers, workers'[v].pc \in InHandPCs
        PROVE  /\ workers'[v].node \in Instances
               /\ instances'[workers'[v].node] = [state |-> "live", session |-> SessionOf(v)']
    <3>1. v # w /\ workers'[v] = workers[v] /\ SessionOf(v)' = SessionOf(v)
      BY <1>2, <1>4, <2>1 DEF HasSomething
    <3> QED
      BY <1>1, <2>1, <3>1 DEF NodesInHand
  <2> QED
    BY <1>5, <2>1 DEF NodesInHand
<1>9. ASSUME NEW j, NEW y, HandedOver(j, y)
      PROVE  HandedOver(j, y)'
  BY <1>1, <1>5, <1>9 DEF HandedOver
<1>10. HandedOver(i, x)'
  <2>1. \A v \in Workers \ {w} : ~InHand(v, i)
    BY <1>3 DEF NodesInHand
  <2> QED
    BY <1>1, <1>3, <1>5, <2>1 DEF HandedOver
<1>11. RecordedNodes'
  <2>1. ASSUME NEW y \in Sessions, rows'[y].instance_id # Nil
        PROVE  HandedOver(rows[y].instance_id, y)'
    BY <1>6, <1>9, <1>10, <2>1 DEF RecordedNodes
  <2>2. ASSUME NEW v \in Workers, workers'[v].pc = "terminate"
        PROVE  HandedOver(workers[v].node, SessionOf(v))'
    <3>1. v # w /\ workers'[v] = workers[v] /\ SessionOf(v)' = SessionOf(v)
      BY <1>2, <1>4, <2>2 DEF HasSomething
    <3>2. HandedOver(workers[v].node, SessionOf(v))
      BY <2>2, <3>1 DEF RecordedNodes
    <3> QED
      BY <1>9, <3>1, <3>2
  <2> QED
    BY <2>1, <2>2 DEF RecordedNodes
<1> QED
  BY <1>7, <1>8, <1>11

(* Every step of a handler keeps NodeInv.                                    *)
LEMMA HandlerNodeInv ==
  ASSUME NodeInv, TypeInv', NEW w \in Workers, HandlerStep(w)
  PROVE  NodeInv'
<1> USE DEF NodeInv
<1> DEFINE x == SessionOf(w)
<1>1. StoreTypeOK /\ Ec2TypeOK
  BY DEF TypeInv, TypeOK
<1>2. Busy(w) => x \in Sessions
  BY DEF TypeInv, HandlersHaveTasks, TasksHaveSessions, SessionOf
<1>3. rows' = rows => KeepsRecords
  BY DEF KeepsRecords, Exists
(* The handler returns, or goes on without taking anything over.             *)
<1>4. ASSUME Busy(w), ReturnNil(w) \/ ReturnErr(w), KeepsRecords, UNCHANGED instances
      PROVE  NodeInv'
  <2>1. \A v \in Workers : HasSomething(v)' => HadBefore(v)
    BY <1>4, ReturnFacts DEF HasSomething, HadBefore, InHandPCs, Busy
  <2> QED
    BY <1>4, <2>1, NodeFrame
<1>5. ASSUME Busy(w), NEW pc \in PCs \ {"idle"}, NEW node, Goto(w, pc, node),
             KeepsRecords, UNCHANGED instances,
             pc \in InHandPCs => workers[w].pc \in InHandPCs /\ node = workers[w].node,
             pc # "terminate"
      PROVE  NodeInv'
  <2>1. \A v \in Workers : HasSomething(v)' => HadBefore(v)
    BY <1>5, GotoFacts DEF HasSomething, HadBefore, InHandPCs
  <2> QED
    BY <1>5, <2>1, NodeFrame
<1>6. CASE GetFails(w)
  BY <1>3, <1>4, <1>6 DEF GetFails, Busy
<1>7. CASE GetForProvision(w)
  <2>1. "claim" \in PCs \ {"idle"} /\ "claim" \notin InHandPCs
    BY DEF PCs, ProvisionPCs, InHandPCs
  <2> QED
    BY <1>3, <1>4, <1>5, <1>7, <2>1 DEF GetForProvision, Busy
<1>8. CASE Claim(w)
  <2>1. "launch" \in PCs \ {"idle"} /\ "launch" \notin InHandPCs
    BY DEF PCs, ProvisionPCs, InHandPCs
  <2>2. Busy(w) /\ UNCHANGED instances /\ rows' \in {rows, SetSessionStatus(x, "provisioning")}
    BY <1>8 DEF Claim, Exec, Busy
  <2>3. KeepsRecords
    BY <1>1, <1>2, <2>2, StatementsKeepRecords DEF Statuses
  <2> QED
    BY <1>4, <1>5, <1>8, <2>1, <2>2, <2>3 DEF Claim, Exec
<1>9. CASE Provision(w)
  <2>1. UNCHANGED rows /\ KeepsRecords
    BY <1>3, <1>9 DEF Provision
  <2>2. CASE RunInstances(w, rows[x].sku)
    BY <1>2, <2>1, <2>2, NodeStarts DEF RunInstances, Busy
  <2>3. CASE LaunchFails(w, rows[x].sku)
    <3>1. Busy(w) /\ Goto(w, "fail", Nil) /\ "fail" \in PCs \ {"idle"} /\ "fail" \notin InHandPCs
      BY <2>3 DEF LaunchFails, Busy, PCs, ProvisionPCs, InHandPCs
    <3>2. CASE UNCHANGED instances
      BY <1>5, <2>1, <3>1, <3>2
    <3>3. CASE \E i \in Free : instances' = Launched(i, x)
      BY <1>2, <2>1, <3>1, <3>3, NodeStarts
    <3> QED
      BY <2>3, <3>2, <3>3 DEF LaunchFails
  <2>4. CASE WaitForRunning(w) \/ RunProvision(w) \/ BootFails(w)
    <3>1. PICK pc \in {"script", "ready", "cleanup"} : Goto(w, pc, workers[w].node)
      BY <2>4 DEF WaitForRunning, RunProvision, BootFails
    <3>2. /\ pc \in PCs \ {"idle"} /\ pc # "terminate" /\ workers[w].pc \in InHandPCs
          /\ Busy(w) /\ UNCHANGED instances
      BY <2>4, <3>1 DEF WaitForRunning, RunProvision, BootFails, Busy, PCs, ProvisionPCs, InHandPCs
    <3> QED
      BY <1>5, <2>1, <3>1, <3>2
  <2>5. CASE TerminateBestEffort(w)
    <3> DEFINE i == workers[w].node
    <3>1. Busy(w) /\ Goto(w, "fail", Nil) /\ instances' \in {instances, Terminated(i)}
      BY <2>5 DEF TerminateBestEffort, TerminateInstances, Busy
    <3>2. i \in Instances /\ InHand(w, i)
      BY <2>5 DEF TerminateBestEffort, NodesInHand, InHand, InHandPCs
    <3> QED
      BY <1>2, <2>1, <3>1, <3>2, NodeStops
  <2> QED
    BY <1>9, <2>2, <2>3, <2>4, <2>5 DEF Provision
<1>10. CASE MarkReady(w)
  BY <1>2, <1>10, NodeRecorded DEF MarkReady, Busy
<1>11. CASE Fail(w)
  <2>1. Busy(w) /\ UNCHANGED instances /\ ReturnErr(w) /\ rows' \in {rows, SetSessionError(x)}
    BY <1>11 DEF Fail, Busy
  <2>2. KeepsRecords
    BY <1>1, <1>2, <2>1, StatementsKeepRecords
  <2> QED
    BY <1>4, <2>1, <2>2
<1>12. CASE GetForTerminate(w)
  <2> DEFINE node == rows[x].instance_id
  <2>1. Busy(w) /\ UNCHANGED <<rows, instances>> /\ KeepsRecords
    BY <1>3, <1>12 DEF GetForTerminate, Busy
  <2>2. CASE ReturnNil(w)
    BY <1>4, <2>1, <2>2
  <2>3. CASE Goto(w, "mark", node)
    BY <1>5, <2>1, <2>3 DEF PCs, TerminatePCs, InHandPCs
  <2>4. CASE node # Nil /\ Goto(w, "terminate", node)
    <3>1. /\ workers'[w].pc = "terminate" /\ workers'[w].node = node
          /\ \A v \in Workers \ {w} : workers'[v] = workers[v]
          /\ \A v \in Workers : SessionOf(v)' = SessionOf(v)
      BY <2>1, <2>4, GotoFacts DEF PCs, TerminatePCs
    <3>2. NodesInHand'
      BY <2>1, <3>1 DEF NodesInHand, InHand, InHandPCs
    <3>3. HandedOver(node, x)
      BY <1>2, <2>1, <2>4 DEF RecordedNodes
    <3>4. ASSUME NEW j, NEW y, HandedOver(j, y)
          PROVE  HandedOver(j, y)'
      BY <2>1, <3>1, <3>4 DEF HandedOver, InHand, InHandPCs
    <3>5. RecordedNodes'
      BY <2>1, <3>1, <3>3, <3>4 DEF RecordedNodes
    <3>6. BlanksAreBlank'
      BY <2>1 DEF BlanksAreBlank, Exists
    <3> QED
      BY <3>2, <3>5, <3>6
  <2> QED
    BY <1>12, <2>2, <2>3, <2>4 DEF GetForTerminate
<1>13. CASE TerminateNode(w)
  <2> DEFINE i == workers[w].node
  <2>1. /\ Busy(w) /\ Goto(w, "mark", Nil) /\ KeepsRecords
        /\ instances' \in {instances, Terminated(i)}
    BY <1>3, <1>13 DEF TerminateNode, TerminateInstances, Busy
  <2>2. i \in Instances /\ HandedOver(i, x)
    BY <1>13 DEF TerminateNode, RecordedNodes, HandedOver
  <2> QED
    BY <1>2, <2>1, <2>2, NodeStops
<1>14. CASE MarkTerminated(w)
  <2>1. Busy(w) /\ UNCHANGED instances /\ rows' \in {rows, SetSessionTerminated(x)}
    BY <1>14 DEF MarkTerminated, Busy
  <2>2. KeepsRecords
    BY <1>1, <1>2, <2>1, StatementsKeepRecords
  <2> QED
    BY <1>4, <1>14, <2>1, <2>2 DEF MarkTerminated
<1> QED
  BY <1>6, <1>7, <1>8, <1>9, <1>10, <1>11, <1>12, <1>13, <1>14 DEF HandlerStep

(* A request writes no instance_id: the session it inserts has no row yet.   *)
LEMMA ApiKeepsRecords ==
  ASSUME TenantInv, NodeInv, NEW r \in Requests, Api(r)
  PROVE  KeepsRecords
<1>1. StoreTypeOK
  BY DEF NodeInv, TypeInv, TypeOK
<1>2. CASE rows' = rows
  BY <1>2 DEF KeepsRecords, Exists
<1>3. CASE InsertSession(r)
  <2>1. PICK k \in SKUs, s \in FreshIDs : rows' \in {rows, CreateSession(s, requests[r].user, k)}
    BY <1>3 DEF InsertSession
  <2>2. s \in Sessions /\ ~Exists(s)
    BY DEF FreshIDs, TenantInv, RowsHavePosts
  <2>3. rows[s].instance_id = Nil
    BY <2>2 DEF NodeInv, BlanksAreBlank
  <2> QED
    BY <1>1, <1>2, <2>1, <2>2, <2>3 DEF CreateSession, StoreTypeOK, KeepsRecords, Exists
<1>4. CASE SetTerminating(r)
  <2>1. /\ requests[r].session \in Sessions
        /\ rows' \in {rows, SetSessionStatus(requests[r].session, "terminating")}
    BY <1>4 DEF SetTerminating, NodeInv, TypeInv, TasksHaveSessions
  <2> QED
    BY <1>1, <2>1, StatementsKeepRecords DEF Statuses
<1> QED
  BY <1>2, <1>3, <1>4 DEF Api, RequestStep, Authenticate, RejectBody, LookupSession,
     EnqueueTask, CrashRequest

(* NodeInv is inductive, beside TenantInv.                                   *)
LEMMA NextNodeInv == TenantInv /\ NodeInv /\ [Next]_vars => NodeInv'
<1> SUFFICES ASSUME TenantInv, NodeInv, [Next]_vars
             PROVE  NodeInv'
  OBVIOUS
<1>1. TypeInv /\ TypeInv'
  BY NextTypeInv DEF NodeInv
<1>2. CASE UNCHANGED vars
  <2>1. KeepsRecords /\ UNCHANGED instances
    BY <1>2 DEF vars, KeepsRecords, Exists
  <2>2. \A v \in Workers : HasSomething(v)' => HadBefore(v)
    BY <1>2 DEF vars, HasSomething, HadBefore, SessionOf
  <2> QED
    BY <1>1, <2>1, <2>2, NodeFrame
<1>3. ASSUME NEW r \in Requests, Api(r)
      PROVE  NodeInv'
  <2>1. \A v \in Workers : HasSomething(v)' => HadBefore(v)
    BY <1>1, <1>3, ApiFacts DEF HasSomething, HadBefore, InHandPCs, Busy
  <2> QED
    BY <1>1, <1>3, <2>1, ApiFacts, ApiKeepsRecords, NodeFrame
<1>4. CASE Queue
  <2>1. \A v \in Workers : HasSomething(v)' => HadBefore(v)
    BY <1>1, <1>4, QueueFacts DEF HasSomething, HadBefore, InHandPCs
  <2>2. KeepsRecords /\ UNCHANGED instances
    BY <1>4 DEF Queue, KeepsRecords, Exists
  <2> QED
    BY <1>1, <2>1, <2>2, NodeFrame
<1>5. CASE Handlers
  BY <1>1, <1>5, HandlerNodeInv DEF Handlers
<1> QED
  BY <1>2, <1>3, <1>4, <1>5 DEF Next

(* What is in a handler's hands runs, belongs to its session, and is in      *)
(* nobody else's hands nor in a row, whatever fails.                         *)
THEOREM NodeInvariant == Spec => []NodeInv
<1>1. Spec => [](TenantInv /\ NodeInv)
  <2>1. Init => TenantInv /\ NodeInv
    BY InitTenantInv, InitNodeInv
  <2>2. (TenantInv /\ NodeInv) /\ [Next]_vars => (TenantInv /\ NodeInv)'
    BY NextTenantInv, NextNodeInv
  <2> QED
    BY <2>1, <2>2, PTL DEF Spec
<1> QED
  BY <1>1, PTL

-----------------------------------------------------------------------------
(* Who stops a recorded instance                                             *)

(* A handler that stops what a row records tears down that row's session:    *)
(* the cleanup of a failed Provision stops only what it has in hand itself.  *)
LEMMA OnlyTeardownStopsRecorded ==
  ASSUME NodeInv, NEW w \in Workers, HandlerStep(w), NEW s \in Sessions,
         NEW i \in Live(s), rows[s].instance_id = i, instances'[i].state # "live"
  PROVE  workers[w].pc = "terminate" /\ SessionOf(w) = s
<1>1. /\ i \in Instances /\ instances[i] = [state |-> "live", session |-> s]
      /\ instances \in [Instances -> Instance]
  BY DEF Live, LaunchedFor, NodeInv, TypeInv, TypeOK, Ec2TypeOK, Instance
<1>2. HandedOver(i, s)
  BY <1>1, DeploymentAssumption DEF NodeInv, RecordedNodes
<1>3. ~UNCHANGED instances
  BY <1>1
<1>4. \A j \in Free : \A x : instances' # Launched(j, x)
  BY <1>1 DEF Free, Launched
<1>5. \A j : instances' = Terminated(j) => i = j
  BY <1>1 DEF Terminated
<1>6. CASE TerminateBestEffort(w)
  BY <1>2, <1>3, <1>5, <1>6 DEF TerminateBestEffort, TerminateInstances, HandedOver, InHand, InHandPCs
<1>7. CASE TerminateNode(w)
  <2>1. workers[w].pc = "terminate" /\ workers[w].node = i
    BY <1>3, <1>5, <1>7 DEF TerminateNode, TerminateInstances
  <2>2. HandedOver(i, SessionOf(w))
    BY <2>1 DEF NodeInv, RecordedNodes
  <2> QED
    BY <1>2, <2>1, <2>2 DEF HandedOver
<1> QED
  BY <1>3, <1>4, <1>6, <1>7
  DEF HandlerStep, GetFails, GetForProvision, Claim, Provision, RunInstances, LaunchFails,
      WaitForRunning, RunProvision, BootFails, MarkReady, Fail, GetForTerminate, MarkTerminated

(* A recorded instance stops only when a DELETE by the subject that POSTed   *)
(* its session has reached the queue, in every deployment, whatever fails.   *)
THEOREM OwnerStopsNode == Spec => OnlyOwnerStopsNode
<1> DEFINE Owned ==
      \A s \in Sessions : \A i \in Live(s) :
        rows[s].instance_id = i /\ instances'[i].state # "live" =>
          \E r \in Deletes : /\ tasks[r].state # "none" /\ tasks[r].session = s
                             /\ PostedBy(s, requests[r].subject)
<1>1. ASSUME TenantInv, NodeInv, [Next]_vars
      PROVE  Owned
  <2> SUFFICES ASSUME NEW s \in Sessions, NEW i \in Live(s),
                      rows[s].instance_id = i, instances'[i].state # "live"
               PROVE  \E r \in Deletes : /\ tasks[r].state # "none" /\ tasks[r].session = s
                                         /\ PostedBy(s, requests[r].subject)
    OBVIOUS
  <2>1. PICK w \in Workers : HandlerStep(w)
    <3>1. ~UNCHANGED instances
      BY DEF Live, LaunchedFor
    <3> QED
      BY <1>1, <3>1 DEF Next, vars, Api, Queue, Handlers
  <2>2. workers[w].pc = "terminate" /\ SessionOf(w) = s
    BY <1>1, <2>1, OnlyTeardownStopsRecorded
  <2> DEFINE r == workers[w].task
  <2>3. r \in Deletes /\ r \in Requests /\ tasks[r].state # "none" /\ tasks[r].session = s
    BY <1>1, <2>2 DEF NodeInv, TypeInv, HandlersHaveTasks, Busy, TerminatePCs, Requests, SessionOf
  <2>4. requests[r].session = s
    BY <1>1, <2>3 DEF NodeInv, TypeInv, TasksHaveSessions
  <2>5. FoundForUser(s, requests[r].user) /\ requests[r].user # Nil
    BY <1>1, <2>3, <2>4, DeploymentAssumption DEF TenantInv, DeletesByOwners, ClaimsMatchUsers
  <2>6. PostedBy(s, requests[r].subject)
    BY <1>1, <2>3, <2>5, OwnersPosted DEF FoundForUser
  <2> QED
    BY <2>3, <2>6
<1> QED
  BY <1>1, TenantInvariant, NodeInvariant, PTL DEF Spec, OnlyOwnerStopsNode

-----------------------------------------------------------------------------
(* What a row records                                                        *)

(* Only SetSessionReady writes instance_id.                                  *)
LEMMA OthersKeepRecords ==
  ASSUME TenantInv, NodeInv, [Next]_vars, \A w \in Workers : ~MarkReady(w)
  PROVE  KeepsRecords
<1>1. StoreTypeOK
  BY DEF NodeInv, TypeInv, TypeOK
<1>2. CASE rows' = rows
  BY <1>2 DEF KeepsRecords, Exists
<1>3. ASSUME NEW r \in Requests, Api(r)
      PROVE  KeepsRecords
  BY <1>3, ApiKeepsRecords
<1>4. ASSUME NEW w \in Workers, HandlerStep(w), rows' # rows
      PROVE  KeepsRecords
  <2>1. Busy(w) => SessionOf(w) \in Sessions
    BY DEF NodeInv, TypeInv, HandlersHaveTasks, TasksHaveSessions, SessionOf
  <2>2. /\ Busy(w)
        /\ \/ rows' = SetSessionStatus(SessionOf(w), "provisioning")
           \/ rows' = SetSessionError(SessionOf(w))
           \/ rows' = SetSessionTerminated(SessionOf(w))
    BY <1>4 DEF HandlerStep, GetFails, GetForProvision, Claim, Exec, Provision, Fail,
         GetForTerminate, TerminateNode, MarkTerminated, Busy
  <2> QED
    BY <1>1, <2>1, <2>2, StatementsKeepRecords DEF Statuses
<1> QED
  BY <1>2, <1>3, <1>4 DEF Next, vars, Queue, Handlers

(* SetSessionReady never meets a record: the session's one instance is still *)
(* in the hands of the handler that writes it.                               *)
LEMMA RecordsAreNew ==
  ASSUME NodeInv, LaunchInv, NEW w \in Workers, MarkReady(w)
  PROVE  rows[SessionOf(w)].instance_id = Nil
<1> DEFINE s == SessionOf(w)
<1> DEFINE i == workers[w].node
<1>1. s \in Sessions
  BY DEF MarkReady, LaunchInv, TypeInv, HandlersHaveTasks, TasksHaveSessions, SessionOf, Busy
<1>2. InHand(w, i) /\ i \in Instances /\ instances[i].session = s
  <2>1. workers[w].pc = "ready"
    BY DEF MarkReady
  <2>2. i \in Instances /\ instances[i] = [state |-> "live", session |-> s]
    BY <2>1 DEF NodeInv, NodesInHand, InHandPCs
  <2> QED
    BY <2>1, <2>2 DEF InHand, InHandPCs
<1>3. SUFFICES ASSUME rows[s].instance_id # Nil
               PROVE  FALSE
  OBVIOUS
<1>4. HandedOver(rows[s].instance_id, s)
  BY <1>1, <1>3 DEF NodeInv, RecordedNodes
<1>5. rows[s].instance_id = i
  BY <1>1, <1>2, <1>4, DeploymentAssumption DEF HandedOver, LaunchInv, AtMostOneLaunch
<1> QED
  BY <1>2, <1>4, <1>5 DEF HandedOver

(* The id a row records is never changed or lost, in every deployment, as    *)
(* long as no worker outlives its lease.                                     *)
THEOREM RecordsAreForGood ==
  ASSUME "lease" \notin Faults
  PROVE  Spec => RecordedForGood
<1> DEFINE Kept == \A s \in Sessions :
      rows[s].instance_id # Nil => rows'[s].instance_id = rows[s].instance_id
<1>1. ASSUME TenantInv, NodeInv, LaunchInv, [Next]_vars
      PROVE  Kept
  <2>1. CASE \A w \in Workers : ~MarkReady(w)
    BY <1>1, <2>1, OthersKeepRecords DEF KeepsRecords
  <2>2. ASSUME NEW w \in Workers, MarkReady(w)
        PROVE  Kept
    <3>1. rows[SessionOf(w)].instance_id = Nil
      BY <1>1, <2>2, RecordsAreNew
    <3>2. rows \in [Sessions -> Row]
      BY <1>1 DEF NodeInv, TypeInv, TypeOK, StoreTypeOK
    <3> QED
      BY <2>2, <3>1, <3>2 DEF MarkReady, SetSessionReady, Updated
  <2> QED
    BY <2>1, <2>2
<1> QED
  BY <1>1, TenantInvariant, NodeInvariant, LaunchInvariant, PTL DEF Spec, RecordedForGood
=============================================================================
