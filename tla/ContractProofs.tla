--------------------------- MODULE ContractProofs ---------------------------
(* The refinements: the orchestrator and aws_managed implement               *)
(* ProviderContract, the control plane implements NodeContract, and with     *)
(* patient clients SessionContract; and what a completed teardown is worth.  *)
EXTENDS ProgressProofs

-----------------------------------------------------------------------------
(* ProviderContract: every step of the control plane is a step of the        *)
(* contract, or changes nothing there.                                       *)

InCall == {"launch", "boot", "script", "cleanup", "ready", "fail"}

CallUnchanged == UNCHANGED <<Calls, Running>>

-----------------------------------------------------------------------------
(* The mapping *)

(* What a worker's control point says of its call.                           *)
LEMMA CallFacts ==
  ASSUME NEW w \in Workers
  PROVE  /\ workers[w].pc \notin InCall => CallOf(w) = Provider!NoCall
         /\ workers[w].pc = "launch" => CallOf(w) = [state |-> "provisioning", node |-> Nil]
         /\ workers[w].pc \in {"boot", "script", "cleanup"} =>
              CallOf(w) = [state |-> "provisioning", node |-> workers[w].node]
         /\ workers[w].pc = "ready" => CallOf(w) = [state |-> "returned", node |-> workers[w].node]
         /\ workers[w].pc = "fail" => CallOf(w) = [state |-> "failed", node |-> Nil]
BY DEF CallOf, InCall, Provider!NoCall

(* A step of worker w changes w's call only.                                 *)
LEMMA OneCallChanges ==
  ASSUME NEW w \in Workers, \A v \in Workers \ {w} : workers'[v] = workers[v],
         NEW call, CallOf(w)' = call
  PROVE  Calls' = [Calls EXCEPT ![w] = call]
<1>1. \A v \in Workers \ {w} : CallOf(v)' = CallOf(v)
  BY DEF CallOf
<1> QED
  BY <1>1 DEF Calls

(* Nobody's call changes unless somebody's control point does.               *)
LEMMA NoCallChanges ==
  ASSUME \A v \in Workers : CallOf(v)' = CallOf(v)
  PROVE  UNCHANGED Calls
BY DEF Calls

(* What a call of the contract has in hand is what a handler has in hand.    *)
LEMMA CallsInHand ==
  ASSUME NEW i \in Instances
  PROVE  i \in Provider!InHand <=> \E w \in Workers : InHand(w, i)
<1>1. ASSUME NEW w \in Workers
      PROVE  Calls[w].node = i <=> InHand(w, i)
  BY CallFacts, DeploymentAssumption DEF Calls, InHand, InHandPCs, InCall, Provider!NoCall
<1> QED
  BY <1>1 DEF Provider!InHand

(* It runs.                                                                  *)
LEMMA InHandRuns ==
  ASSUME NodeInv, NEW w \in Workers, workers[w].pc \in InHandPCs
  PROVE  workers[w].node \in Running
<1>1. /\ workers[w].node \in Instances
      /\ instances[workers[w].node] = [state |-> "live", session |-> SessionOf(w)]
  BY DEF NodeInv, NodesInHand
<1> QED
  BY <1>1 DEF Running

-----------------------------------------------------------------------------
(* Steps *)

(* asynq calls nothing; a worker it drops forgets its call.                  *)
LEMMA QueueCalls ==
  ASSUME TypeInv, Queue
  PROVE  CallUnchanged \/ \E w \in Workers : Provider!Forget(w)
<1>1. workers \in [Workers -> Worker] /\ UNCHANGED Running
  BY DEF TypeInv, TypeOK, QueueTypeOK, Queue, Running
<1>2. ASSUME NEW w \in Workers, NEW t \in Requests, Dequeue(w, t)
      PROVE  UNCHANGED Calls
  <2>1. /\ workers[w].pc = "idle" /\ workers'[w].pc = "get"
        /\ \A v \in Workers \ {w} : workers'[v] = workers[v]
    BY <1>1, <1>2 DEF Dequeue, Busy
  <2> QED
    BY <2>1, NoCallChanges DEF CallOf
<1>3. ASSUME NEW w \in Workers, CrashWorker(w) \/ ShutdownWorker(w)
      PROVE  Provider!Forget(w)
  <2>1. workers'[w].pc = "idle" /\ \A v \in Workers \ {w} : workers'[v] = workers[v]
    BY <1>1, <1>3 DEF CrashWorker, ShutdownWorker, IdleWorker
  <2>2. CallOf(w)' = Provider!NoCall
    BY <2>1 DEF CallOf, Provider!NoCall
  <2> QED
    BY <1>1, <2>1, <2>2, OneCallChanges DEF Provider!Forget
<1>4. ASSUME NEW w \in Workers, LoseLease(w)
      PROVE  UNCHANGED Calls
  <2>1. \A v \in Workers : workers'[v].pc = workers[v].pc /\ workers'[v].node = workers[v].node
    BY <1>1, <1>4 DEF LoseLease, Worker
  <2> QED
    BY <2>1, NoCallChanges DEF CallOf
<1>5. ASSUME NEW t \in Requests, Recover(t)
      PROVE  UNCHANGED Calls
  BY <1>5, NoCallChanges DEF Recover, CallOf
<1> QED
  BY <1>1, <1>2, <1>3, <1>4, <1>5 DEF Queue, CallUnchanged

(* A handler outside Provision that goes on outside it, or returns.          *)
LEMMA OutsideCalls ==
  ASSUME TypeInv, NEW w \in Workers, Busy(w), workers[w].pc \notin InCall,
         \/ ReturnNil(w) \/ ReturnErr(w)
         \/ \E pc \in {"claim", "terminate", "mark"} : \E node : Goto(w, pc, node)
  PROVE  UNCHANGED Calls
<1>1. workers'[w].pc \notin InCall /\ \A v \in Workers \ {w} : workers'[v] = workers[v]
  <2>1. CASE ReturnNil(w) \/ ReturnErr(w)
    BY <2>1, ReturnFacts DEF InCall
  <2>2. CASE \E pc \in {"claim", "terminate", "mark"} : \E node : Goto(w, pc, node)
    BY <2>2, GotoFacts DEF InCall, PCs, ProvisionPCs, TerminatePCs
  <2> QED
    BY <2>1, <2>2
<1>2. CallOf(w)' = CallOf(w)
  BY <1>1 DEF CallOf, InCall
<1>3. \A v \in Workers \ {w} : CallOf(v)' = CallOf(v)
  BY <1>1 DEF CallOf
<1> QED
  BY <1>2, <1>3, NoCallChanges

(* handleProvision around its call: it begins with the claim, and is         *)
(* forgotten with the handler's return.                                      *)
LEMMA ProvisionCalls ==
  ASSUME TypeInv, NEW w \in Workers, UNCHANGED instances,
         GetForProvision(w) \/ Claim(w) \/ MarkReady(w) \/ Fail(w) \/ GetFails(w)
  PROVE  CallUnchanged \/ Provider!Call(w) \/ Provider!Forget(w)
<1>1. Busy(w) /\ UNCHANGED Running
  BY DEF GetForProvision, Claim, MarkReady, Fail, GetFails, Busy, Running
<1>2. CASE GetForProvision(w) \/ GetFails(w)
  <2>1. workers[w].pc \notin InCall
    BY <1>2 DEF GetForProvision, GetFails, InCall
  <2>2. Goto(w, "claim", Nil) \/ ReturnNil(w) \/ ReturnErr(w)
    BY <1>2 DEF GetForProvision, GetFails
  <2> QED
    BY <1>1, <2>1, <2>2, OutsideCalls DEF CallUnchanged
<1>3. CASE Claim(w)
  <2>1. workers[w].pc \notin InCall /\ (Goto(w, "launch", workers[w].node) \/ ReturnErr(w))
    BY <1>3 DEF Claim, Exec, InCall
  <2>2. CASE ReturnErr(w)
    BY <1>1, <2>1, <2>2, OutsideCalls DEF CallUnchanged
  <2>3. CASE Goto(w, "launch", workers[w].node)
    <3>1. workers'[w].pc = "launch" /\ \A v \in Workers \ {w} : workers'[v] = workers[v]
      BY <1>1, <2>3, GotoFacts DEF PCs, ProvisionPCs
    <3>2. CallOf(w)' = [state |-> "provisioning", node |-> Nil]
      BY <3>1 DEF CallOf
    <3>3. Calls[w].state = "none"
      BY <2>1, CallFacts DEF Calls, Provider!NoCall
    <3> QED
      BY <1>1, <3>1, <3>2, <3>3, OneCallChanges DEF Provider!Call
  <2> QED
    BY <2>1, <2>2, <2>3
<1>4. CASE MarkReady(w) \/ Fail(w)
  <2>1. ReturnNil(w) \/ ReturnErr(w)
    BY <1>4 DEF MarkReady, Fail
  <2>2. workers'[w].pc = "idle" /\ \A v \in Workers \ {w} : workers'[v] = workers[v]
    BY <1>1, <2>1, ReturnFacts
  <2>3. CallOf(w)' = Provider!NoCall
    BY <2>2 DEF CallOf, Provider!NoCall
  <2> QED
    BY <1>1, <2>2, <2>3, OneCallChanges DEF Provider!Forget
<1> QED
  BY <1>2, <1>3, <1>4

(* aws_managed itself, when an AWS call that fails has done nothing.         *)
LEMMA AwsCalls ==
  ASSUME {"lease", "ec2"} \cap Faults = {}, NodeInv, LaunchInv,
         NEW w \in Workers, Provision(w)
  PROVE  \/ CallUnchanged
         \/ Provider!Launch(w) \/ Provider!ReturnNode(w) \/ Provider!ReturnError(w)
<1>1. TypeInv /\ instances \in [Instances -> Instance]
  BY DEF NodeInv, TypeInv, TypeOK, Ec2TypeOK
<1>2. Busy(w) /\ ~CallMayFail(w, "ec2") /\ "ec2" \notin Faults
  BY DEF Provision, RunInstances, LaunchFails, WaitForRunning, RunProvision, BootFails,
         TerminateBestEffort, Busy, CallMayFail, LaunchInv, OneHandlerPerTask
<1>3. ASSUME NEW pc \in {"boot", "script", "cleanup", "ready", "fail"}, NEW node, Goto(w, pc, node)
      PROVE  /\ workers'[w].pc = pc /\ workers'[w].node = node
             /\ \A v \in Workers \ {w} : workers'[v] = workers[v]
  BY <1>1, <1>2, <1>3, GotoFacts DEF PCs, ProvisionPCs
<1>4. CASE RunInstances(w, rows[SessionOf(w)].sku)
  <2>1. PICK i \in Free : instances' = Launched(i, SessionOf(w)) /\ Goto(w, "boot", i)
    BY <1>4 DEF RunInstances
  <2>2. i \in Instances /\ instances[i].state = "none" /\ i \notin Running
    BY DEF Free, Running
  <2>3. Running' = Running \cup {i}
    BY <1>1, <2>1, <2>2 DEF Launched, Running
  <2>4. ASSUME NEW v \in Workers, InHand(v, i)
        PROVE  FALSE
    <3>1. instances[i] = [state |-> "live", session |-> SessionOf(v)]
      BY <2>4 DEF NodeInv, NodesInHand, InHand
    <3> QED
      BY <2>2, <3>1
  <2>5. i \notin Provider!InHand
    BY <2>2, <2>4, CallsInHand
  <2>6. Calls[w] = [state |-> "provisioning", node |-> Nil]
    BY <1>4, CallFacts DEF RunInstances, Calls
  <2>7. CallOf(w)' = [state |-> "provisioning", node |-> i]
    BY <1>3, <2>1 DEF CallOf
  <2>8. Calls' = [Calls EXCEPT ![w] = [state |-> "provisioning", node |-> i]]
    BY <1>3, <2>1, <2>7, OneCallChanges
  <2>9. Calls' = [Calls EXCEPT ![w].node = i]
    <3>1. [Calls[w] EXCEPT !.node = i] = [state |-> "provisioning", node |-> i]
      BY <2>6
    <3> QED
      BY <2>8, <3>1
  <2> QED
    BY <2>2, <2>3, <2>5, <2>6, <2>9 DEF Provider!Launch
<1>5. CASE LaunchFails(w, rows[SessionOf(w)].sku)
  <2>1. workers[w].pc = "launch" /\ Goto(w, "fail", Nil) /\ UNCHANGED instances
    BY <1>2, <1>5 DEF LaunchFails
  <2>2. Calls[w] = [state |-> "provisioning", node |-> Nil]
    BY <2>1, CallFacts DEF Calls
  <2>3. CallOf(w)' = [state |-> "failed", node |-> Nil]
    BY <1>3, <2>1 DEF CallOf
  <2>4. Calls' = [Calls EXCEPT ![w] = [state |-> "failed", node |-> Nil]]
    BY <1>3, <2>1, <2>3, OneCallChanges
  <2>5. Running' = Running \ {Nil}
    BY <2>1, DeploymentAssumption DEF Running
  <2> QED
    BY <2>2, <2>4, <2>5 DEF Provider!ReturnError
<1>6. CASE WaitForRunning(w) \/ BootFails(w)
  <2>1. PICK pc \in {"script", "cleanup"} : Goto(w, pc, workers[w].node)
    BY <1>6 DEF WaitForRunning, BootFails
  <2>2. workers[w].pc \in {"boot", "script"} /\ UNCHANGED instances
    BY <1>6 DEF WaitForRunning, BootFails
  <2>3. CallOf(w)' = CallOf(w)
    BY <1>3, <2>1, <2>2 DEF CallOf
  <2>4. \A v \in Workers \ {w} : CallOf(v)' = CallOf(v)
    BY <1>3, <2>1 DEF CallOf
  <2> QED
    BY <2>2, <2>3, <2>4, NoCallChanges DEF CallUnchanged, Running
<1>7. CASE RunProvision(w)
  <2> DEFINE i == workers[w].node
  <2>1. workers[w].pc = "script" /\ Goto(w, "ready", i) /\ UNCHANGED instances
    BY <1>7 DEF RunProvision
  <2>2. Calls[w] = [state |-> "provisioning", node |-> i]
    BY <2>1, CallFacts DEF Calls
  <2>3. i \in Running
    BY <2>1, InHandRuns DEF InHandPCs
  <2>4. CallOf(w)' = [state |-> "returned", node |-> i]
    BY <1>3, <2>1 DEF CallOf
  <2>5. Calls' = [Calls EXCEPT ![w].state = "returned"]
    <3>1. Calls' = [Calls EXCEPT ![w] = [state |-> "returned", node |-> i]]
      BY <1>3, <2>1, <2>4, OneCallChanges
    <3>2. [Calls[w] EXCEPT !.state = "returned"] = [state |-> "returned", node |-> i]
      BY <2>2
    <3> QED
      BY <3>1, <3>2
  <2> QED
    BY <2>1, <2>2, <2>3, <2>5 DEF Provider!ReturnNode, Running
<1>8. CASE TerminateBestEffort(w)
  <2> DEFINE i == workers[w].node
  <2>1. workers[w].pc = "cleanup" /\ Goto(w, "fail", Nil) /\ instances' = Terminated(i)
    BY <1>2, <1>8 DEF TerminateBestEffort, TerminateInstances
  <2>2. Calls[w] = [state |-> "provisioning", node |-> i]
    BY <2>1, CallFacts DEF Calls
  <2>3. i \in Instances
    BY <2>1 DEF NodeInv, NodesInHand, InHandPCs
  <2>4. Running' = Running \ {i}
    BY <1>1, <2>1, <2>3 DEF Terminated, Running
  <2>5. CallOf(w)' = [state |-> "failed", node |-> Nil]
    BY <1>3, <2>1 DEF CallOf
  <2>6. Calls' = [Calls EXCEPT ![w] = [state |-> "failed", node |-> Nil]]
    BY <1>3, <2>1, <2>5, OneCallChanges
  <2> QED
    BY <2>2, <2>4, <2>6 DEF Provider!ReturnError
<1> QED
  BY <1>4, <1>5, <1>6, <1>7, <1>8 DEF Provision

(* handleTerminate stops only what no Provision call has in hand.            *)
LEMMA TeardownCalls ==
  ASSUME {"lease", "ec2"} \cap Faults = {}, NodeInv, LaunchInv, NEW w \in Workers,
         GetForTerminate(w) \/ TerminateNode(w) \/ MarkTerminated(w)
  PROVE  CallUnchanged \/ \E i \in Instances : Provider!Terminate(i)
<1>1. TypeInv /\ Busy(w) /\ workers[w].pc \notin InCall
  BY DEF NodeInv, GetForTerminate, TerminateNode, MarkTerminated, Busy, InCall
<1>2. UNCHANGED Calls
  <2>1. \/ ReturnNil(w) \/ ReturnErr(w)
        \/ \E pc \in {"claim", "terminate", "mark"} : \E node : Goto(w, pc, node)
    BY DEF GetForTerminate, TerminateNode, MarkTerminated
  <2> QED
    BY <1>1, <2>1, OutsideCalls
<1>3. CASE GetForTerminate(w) \/ MarkTerminated(w)
  BY <1>2, <1>3 DEF GetForTerminate, MarkTerminated, CallUnchanged, Running
<1>4. CASE TerminateNode(w)
  <2> DEFINE i == workers[w].node
  <2>1. instances' = Terminated(i)
    BY <1>1, <1>4 DEF TerminateNode, TerminateInstances, CallMayFail, LaunchInv, OneHandlerPerTask
  <2>2. HandedOver(i, SessionOf(w))
    BY <1>4 DEF TerminateNode, NodeInv, RecordedNodes
  <2>3. i \in Instances /\ i \notin Provider!InHand
    BY <2>2, CallsInHand DEF HandedOver
  <2>4. Running' = Running \ {i}
    BY <1>1, <2>1, <2>3 DEF Terminated, Running, TypeInv, TypeOK, Ec2TypeOK
  <2> QED
    BY <1>2, <2>3, <2>4 DEF Provider!Terminate
<1> QED
  BY <1>3, <1>4

-----------------------------------------------------------------------------

(* The control plane's calls into aws_managed keep what the interface        *)
(* Provider promises, in every deployment in which a failed AWS call has had *)
(* no effect and no worker outlives its lease.                               *)
THEOREM ImplementsProvider ==
  ASSUME {"lease", "ec2"} \cap Faults = {}
  PROVE  Spec => ProviderSpec
<1>1. Init => Provider!Init
  <2> SUFFICES ASSUME Init PROVE Provider!Init
    OBVIOUS
  <2>1. \A w \in Workers : CallOf(w) = Provider!NoCall
    BY CallFacts DEF Init, QueueInit, IdleWorker, InCall
  <2>2. Running = {}
    BY DEF Init, Ec2Init, NotLaunched, Running
  <2> QED
    BY <2>1, <2>2 DEF Provider!Init, Calls
<1>2. ASSUME NodeInv, LaunchInv, [Next]_vars
      PROVE  Provider!Next \/ CallUnchanged
  <2>1. CASE UNCHANGED <<workers, instances>>
    BY <2>1, NoCallChanges DEF CallUnchanged, CallOf, Running
  <2>2. ASSUME NEW r \in Requests, Api(r)
        PROVE  CallUnchanged
    BY <1>2, <2>2, ApiFacts, NoCallChanges DEF NodeInv, CallUnchanged, CallOf, Running
  <2>3. CASE Queue
    BY <1>2, <2>3, QueueCalls DEF NodeInv, Provider!Next
  <2>4. ASSUME NEW w \in Workers, HandlerStep(w)
        PROVE  Provider!Next \/ CallUnchanged
    <3>1. CASE Provision(w)
      BY <1>2, <3>1, AwsCalls DEF Provider!Next
    <3>2. CASE GetForTerminate(w) \/ TerminateNode(w) \/ MarkTerminated(w)
      BY <1>2, <3>2, TeardownCalls DEF Provider!Next
    <3>3. CASE GetForProvision(w) \/ Claim(w) \/ MarkReady(w) \/ Fail(w) \/ GetFails(w)
      <4>1. UNCHANGED instances
        BY <3>3 DEF GetForProvision, Claim, MarkReady, Fail, GetFails
      <4> QED
        BY <1>2, <3>3, <4>1, ProvisionCalls DEF NodeInv, Provider!Next
    <3> QED
      BY <2>4, <3>1, <3>2, <3>3 DEF HandlerStep
  <2> QED
    BY <1>2, <2>1, <2>2, <2>3, <2>4 DEF Next, vars, Handlers
<1>3. Spec => []LaunchInv
  BY LaunchInvariant
<1> QED
  BY <1>1, <1>2, <1>3, NodeInvariant, PTL DEF Spec, ProviderSpec, Provider!Spec, CallUnchanged

(* The node a call has returned runs until its caller is done with it,       *)
(* whatever fails.                                                           *)
THEOREM ReturnedNodesRun == Spec => []Provider!ReturnedRuns
<1>1. NodeInv => Provider!ReturnedRuns
  <2> SUFFICES ASSUME NodeInv, NEW w \in Workers, Calls[w].state = "returned"
               PROVE  Calls[w].node \in Running
    BY DEF Provider!ReturnedRuns
  <2>1. workers[w].pc = "ready" /\ Calls[w].node = workers[w].node
    BY DEF Calls, CallOf
  <2> QED
    BY <2>1, InHandRuns DEF InHandPCs
<1> QED
  BY <1>1, NodeInvariant, PTL
-----------------------------------------------------------------------------
(* NodeContract: every step of the control plane launches, hands over,       *)
(* deletes or stops for one session, or changes nothing there.               *)

NodeUnchanged == UNCHANGED <<LaunchedNodes, Running, Handles, DeletedSessions>>

(* Requests and tasks *)

(* A task that was enqueued stays its session's.                             *)
LEMMA TasksStay ==
  ASSUME TypeInv, TypeInv', Queue \/ \E w \in Workers : HandlerStep(w) /\ UNCHANGED <<users, requests>>,
         NEW t \in Requests
  PROVE  /\ tasks'[t].state # "none" <=> tasks[t].state # "none"
         /\ tasks[t].state # "none" => tasks'[t].session = tasks[t].session
<1>1. tasks \in [Requests -> Task] /\ UNCHANGED requests
  BY DEF TypeInv, TypeOK, QueueTypeOK, Queue
<1>2. ASSUME NEW x \in Requests, tasks' = Retried(x)
      PROVE  tasks'[t].state = "none" => tasks[t].state = "none"
  BY <1>1, <1>2, RetriedFacts
<1>3. ASSUME NEW x \in Requests, NEW st \in {"active", "pending", "completed"},
             tasks' = [tasks EXCEPT ![x].state = st]
      PROVE  tasks'[t].state = "none" => tasks[t].state = "none"
  BY <1>1, <1>3 DEF Task
<1>4. tasks'[t].state = "none" => tasks[t].state = "none"
  <2>1. CASE Queue
    <3>1. ASSUME NEW w \in Workers, ShutdownWorker(w)
          PROVE  \E x \in Requests : tasks' = [tasks EXCEPT ![x].state = "pending"]
      BY <3>1 DEF ShutdownWorker, TypeInv, HandlersHaveTasks
    <3>2. \/ UNCHANGED tasks
          \/ \E x \in Requests, st \in {"active", "pending"} : tasks' = [tasks EXCEPT ![x].state = st]
          \/ \E x \in Requests : tasks' = Retried(x)
      BY <2>1, <3>1 DEF Queue, Dequeue, CrashWorker, LoseLease, Recover
    <3> QED
      BY <1>2, <1>3, <3>2
  <2>2. ASSUME NEW w \in Workers, HandlerStep(w)
        PROVE  tasks'[t].state = "none" => tasks[t].state = "none"
    <3>1. workers[w].task \in Requests
      BY <2>2, HandlerFrame, SessionsOfWorkers
    <3>2. UNCHANGED tasks \/ ReturnNil(w) \/ ReturnErr(w)
      BY <2>2 DEF HandlerStep, GetFails, GetForProvision, Claim, Provision, MarkReady, Fail,
         GetForTerminate, TerminateNode, MarkTerminated, RunInstances, LaunchFails,
         WaitForRunning, RunProvision, BootFails, TerminateBestEffort, Exec, Goto
    <3> QED
      <4>1. \/ UNCHANGED tasks
            \/ tasks' = [tasks EXCEPT ![workers[w].task].state = "completed"]
            \/ tasks' = Retried(workers[w].task)
        BY <3>2 DEF ReturnNil, ReturnErr
      <4> QED
        BY <1>2, <1>3, <3>1, <4>1
  <2> QED
    BY <2>1, <2>2
<1>5. tasks'[t].state # "none" => tasks[t].state # "none"
  BY TasksComeFromRequests DEF NoNewTasks
<1> QED
  BY <1>1, <1>4, <1>5 DEF TypeInv, TasksHaveSessions

(* A request decides about its own session only, and takes nothing back.     *)
LEMMA ApiDeletes ==
  ASSUME TypeInv, TypeInv', NEW r \in Requests, Api(r)
  PROVE  \A s \in Sessions : /\ Deleted(s) => Deleted(s)'
                             /\ s # requests'[r].session => (Deleted(s)' <=> Deleted(s))
<1>1. ServiceTypeOK /\ tasks \in [Requests -> Task]
  BY DEF TypeInv, TypeOK, QueueTypeOK
<1>2. /\ \A x \in Requests \ {r} : requests'[x] = requests[x] /\ tasks'[x] = tasks[x]
      /\ requests[r].pc # "done" /\ tasks[r].state = "none"
  BY ApiFrameOfOthers
<1>3. \/ requests[r].session = Nil
      \/ /\ requests'[r].session = requests[r].session
         /\ requests'[r].subject = requests[r].subject
  <2>1. requests[r].pc \in {"idle", "authed"} => requests[r].session = Nil
    BY DEF TypeInv, TasksHaveSessions
  <2>2. SetTerminating(r) \/ EnqueueTask(r) \/ CrashRequest(r) =>
          /\ requests'[r].session = requests[r].session
          /\ requests'[r].subject = requests[r].subject
    BY <1>1 DEF SetTerminating, EnqueueTask, CrashRequest, Reply, Proceed, ServiceTypeOK, Request
  <2> QED
    BY <2>1, <2>2 DEF Api, RequestStep, Authenticate, RejectBody, InsertSession, LookupSession
<1>4. tasks'[r].state # "none" => tasks'[r].session = requests'[r].session
  BY DEF TypeInv, TasksHaveSessions
<1>5. ASSUME NEW s \in Sessions, NEW c
      PROVE  /\ PostedBy(s, c) => PostedBy(s, c)'
             /\ s # requests'[r].session => (PostedBy(s, c)' <=> PostedBy(s, c))
  BY <1>2, <1>3, DeploymentAssumption DEF PostedBy, Requests
<1>6. \A t \in Deletes : tasks[t].state # "none" => t # r /\ t \in Requests
  BY <1>2 DEF Requests
<1>7. ASSUME NEW s \in Sessions, Deleted(s)
      PROVE  Deleted(s)'
  <2>1. PICK t \in Deletes : /\ tasks[t].state # "none" /\ tasks[t].session = s
                             /\ PostedBy(s, requests[t].subject)
    BY <1>7 DEF Deleted
  <2>2. requests'[t] = requests[t] /\ tasks'[t] = tasks[t]
    BY <1>2, <1>6, <2>1
  <2>3. PostedBy(s, requests[t].subject)'
    BY <1>5, <2>1, <2>2 DEF PostedBy
  <2> QED
    BY <2>1, <2>2, <2>3 DEF Deleted
<1>8. ASSUME NEW s \in Sessions, s # requests'[r].session, Deleted(s)'
      PROVE  Deleted(s)
  <2>1. PICK t \in Deletes : /\ tasks'[t].state # "none" /\ tasks'[t].session = s
                             /\ PostedBy(s, requests[t].subject)'
    BY <1>8 DEF Deleted
  <2>2. t # r /\ t \in Requests
    BY <1>4, <1>8, <2>1 DEF Requests
  <2>3. requests'[t] = requests[t] /\ tasks'[t] = tasks[t]
    BY <1>2, <2>2
  <2>4. PostedBy(s, requests[t].subject)
    BY <1>5, <1>8, <2>1, <2>3 DEF PostedBy
  <2> QED
    BY <2>1, <2>3, <2>4 DEF Deleted
<1> QED
  BY <1>7, <1>8

LEMMA ApiNodes ==
  ASSUME TenantInv, NodeInv, TypeInv', NEW r \in Requests, Api(r)
  PROVE  NodeUnchanged \/ \E s \in Sessions : Node!Delete(s)
<1>1. UNCHANGED <<LaunchedNodes, Running, Handles>>
  <2>1. UNCHANGED instances /\ KeepsRecords
    BY ApiFacts, ApiKeepsRecords DEF NodeInv
  <2> QED
    BY <2>1 DEF LaunchedNodes, LaunchedFor, Running, Handles, KeepsRecords
<1>2. \A s \in Sessions : /\ Deleted(s) => Deleted(s)'
                          /\ s # requests'[r].session => (Deleted(s)' <=> Deleted(s))
  BY ApiDeletes DEF NodeInv
<1>3. CASE \A s \in Sessions : Deleted(s)' <=> Deleted(s)
  <2>1. \A s \in Sessions : Deleted(s)' = Deleted(s)
    BY <1>3 DEF Deleted
  <2> QED
    BY <1>1, <2>1 DEF NodeUnchanged, DeletedSessions
<1>4. ASSUME NEW s \in Sessions, ~(Deleted(s)' <=> Deleted(s))
      PROVE  Node!Delete(s)
  <2>1. Deleted(s)' = TRUE /\ \A x \in Sessions \ {s} : Deleted(x)' = Deleted(x)
    BY <1>2, <1>4 DEF Deleted
  <2>2. DeletedSessions' = [DeletedSessions EXCEPT ![s] = TRUE]
    BY <2>1 DEF DeletedSessions
  <2> QED
    BY <1>1, <2>2 DEF Node!Delete
<1> QED
  BY <1>3, <1>4

(* Handlers *)

(* The one instance of a session that has one.                               *)
LEMMA OneNode ==
  ASSUME LaunchInv, NEW s \in Sessions, NEW i \in Instances, instances[i].session = s
  PROVE  LaunchedFor(s) = {i}
BY DeploymentAssumption DEF LaunchInv, AtMostOneLaunch, LaunchedFor

LEMMA NodeLaunches ==
  ASSUME NodeInv, LaunchInv, NEW w \in Workers, workers[w].pc = "launch",
         NEW s \in Sessions, SessionOf(w) = s, NEW i \in Free, instances' = Launched(i, s),
         UNCHANGED <<Handles, DeletedSessions>>
  PROVE  Node!Launch(s)
<1>1. /\ instances \in [Instances -> Instance] /\ i \in Instances
      /\ instances[i].state = "none" /\ instances[i].session = Nil
  BY DEF NodeInv, TypeInv, TypeOK, Ec2TypeOK, Free, BlanksAreBlank
<1>2. LaunchedFor(s) = {}
  BY DeploymentAssumption DEF LaunchInv, ClaimBeforeLaunch, LaunchedFor
<1>3. /\ instances'[i] = [state |-> "live", session |-> s]
      /\ \A j \in Instances \ {i} : instances'[j] = instances[j]
  BY <1>1 DEF Launched
<1>4. LaunchedNodes' = [LaunchedNodes EXCEPT ![s] = {i}]
  <2>1. LaunchedFor(s)' = {i}
    <3>1. \A j \in Instances : instances'[j].session = s <=> j = i
      BY <1>1, <1>2, <1>3 DEF LaunchedFor
    <3> QED
      BY <1>1, <3>1 DEF LaunchedFor
  <2>2. \A t \in Sessions \ {s} : LaunchedFor(t)' = LaunchedFor(t)
    BY <1>1, <1>3, DeploymentAssumption DEF LaunchedFor
  <2> QED
    BY <2>1, <2>2 DEF LaunchedNodes
<1>5. Running' = Running \cup {i}
  BY <1>1, <1>3 DEF Running
<1>6. /\ LaunchedNodes[s] = {}
      /\ \A t \in Sessions : i \notin LaunchedNodes[t]
  BY <1>1, <1>2, DeploymentAssumption DEF LaunchedNodes, LaunchedFor
<1> QED
  BY <1>1, <1>4, <1>5, <1>6 DEF Node!Launch

LEMMA NodeStopsInContract ==
  ASSUME NodeInv, LaunchInv, NEW s \in Sessions, NEW i \in Instances,
         instances[i].session = s, instances' = Terminated(i),
         rows[s].instance_id = Nil \/ Deleted(s),
         UNCHANGED <<Handles, DeletedSessions>>
  PROVE  Node!Stop(s)
<1>1. instances \in [Instances -> Instance]
  BY DEF NodeInv, TypeInv, TypeOK, Ec2TypeOK
<1>2. \A j \in Instances : /\ instances'[j].session = instances[j].session
                           /\ j # i => instances'[j] = instances[j]
                           /\ instances'[i].state = "terminated"
  BY <1>1 DEF Terminated, Instance
<1>3. UNCHANGED LaunchedNodes /\ Running' = Running \ {i}
  BY <1>2 DEF LaunchedNodes, LaunchedFor, Running
<1>4. LaunchedNodes[s] = {i}
  BY OneNode DEF LaunchedNodes
<1> QED
  BY <1>3, <1>4 DEF Node!Stop, Handles, DeletedSessions

LEMMA HandlerNodes ==
  ASSUME TenantInv, NodeInv, LaunchInv, TypeInv', [Next]_vars,
         NEW w \in Workers, HandlerStep(w), UNCHANGED <<users, requests>>
  PROVE  NodeUnchanged \/ Node!Next
<1> DEFINE s == SessionOf(w)
<1>1. /\ s \in Sessions /\ Busy(w) /\ TypeInv
      /\ rows \in [Sessions -> Row] /\ instances \in [Instances -> Instance]
  BY HandlerFrame DEF NodeInv, TypeInv, TypeOK, StoreTypeOK, Ec2TypeOK
<1>2. UNCHANGED DeletedSessions
  <2>1. \A t \in Deletes : t \in Requests
    BY DEF Requests
  <2>2. \A t \in Deletes : /\ tasks'[t].state # "none" <=> tasks[t].state # "none"
                           /\ tasks[t].state # "none" => tasks'[t].session = tasks[t].session
    BY <1>1, <2>1, TasksStay
  <2>3. \A x \in Sessions : Deleted(x)' = Deleted(x)
    BY <2>2 DEF Deleted, PostedBy
  <2> QED
    BY <2>3 DEF DeletedSessions
<1>3. ASSUME KeepsRecords
      PROVE  UNCHANGED Handles
  BY <1>3 DEF Handles, KeepsRecords
<1>4. ASSUME UNCHANGED instances
      PROVE  UNCHANGED <<LaunchedNodes, Running>>
  BY <1>4 DEF LaunchedNodes, LaunchedFor, Running
<1>5. CASE MarkReady(w)
  <2>1. workers[w].pc = "ready" /\ UNCHANGED instances
    BY <1>5 DEF MarkReady
  <2>2. /\ workers[w].node \in Instances
        /\ instances[workers[w].node] = [state |-> "live", session |-> s]
    BY <2>1 DEF NodeInv, NodesInHand, InHandPCs
  <2>3. workers[w].node \in LaunchedNodes[s] \cap Running
    BY <1>1, <2>2 DEF LaunchedNodes, LaunchedFor, Running
  <2>4. Handles[s] = Nil
    BY <1>1, <1>5, RecordsAreNew DEF Handles
  <2>5. Exists(s)
    BY <2>1 DEF LaunchInv, HandlersKnowTheirRow, ProvisionPCs
  <2>6. CASE rows' = rows
    BY <1>2, <1>4, <2>1, <2>6 DEF NodeUnchanged, Handles
  <2>7. CASE rows' = SetSessionReady(s, workers[w].node)
    <3>1. Handles' = [Handles EXCEPT ![s] = workers[w].node]
      BY <1>1, <2>5, <2>7 DEF Handles, SetSessionReady, Updated, Row
    <3> QED
      BY <1>1, <1>2, <1>4, <2>1, <2>3, <2>4, <3>1 DEF Node!Next, Node!HandOver
  <2> QED
    BY <1>5, <2>6, <2>7 DEF MarkReady
<1>6. ASSUME ~MarkReady(w)
      PROVE  UNCHANGED Handles
  <2>1. CASE \A v \in Workers : ~MarkReady(v)
    BY <1>3, <2>1, OthersKeepRecords
  <2>2. ASSUME NEW v \in Workers, v # w, MarkReady(v)
        PROVE  FALSE
    BY <1>1, <2>2, ReturnFacts, HandlerFrame DEF MarkReady, Busy
  <2> QED
    BY <1>6, <2>1, <2>2
<1>7. CASE TerminateBestEffort(w) /\ ~MarkReady(w)
  <2> DEFINE i == workers[w].node
  <2>1. /\ InHand(w, i) /\ i \in Instances /\ instances[i].session = s
    <3>1. workers[w].pc = "cleanup"
      BY <1>7 DEF TerminateBestEffort
    <3>2. i \in Instances /\ instances[i] = [state |-> "live", session |-> s]
      BY <3>1 DEF NodeInv, NodesInHand, InHandPCs
    <3> QED
      BY <3>1, <3>2 DEF InHand, InHandPCs
  <2>2. rows[s].instance_id = Nil
    <3>1. SUFFICES ASSUME rows[s].instance_id # Nil
                   PROVE  FALSE
      OBVIOUS
    <3>2. HandedOver(rows[s].instance_id, s)
      BY <1>1, <3>1 DEF NodeInv, RecordedNodes
    <3>3. rows[s].instance_id = i
      BY <1>1, <2>1, <3>2, DeploymentAssumption DEF HandedOver, LaunchInv, AtMostOneLaunch
    <3> QED
      BY <2>1, <3>2, <3>3 DEF HandedOver
  <2>3. instances' \in {instances, Terminated(i)}
    BY <1>7 DEF TerminateBestEffort, TerminateInstances
  <2> QED
    BY <1>1, <1>2, <1>4, <1>6, <1>7, <2>1, <2>2, <2>3, NodeStopsInContract DEF NodeUnchanged, Node!Next
<1>8. CASE TerminateNode(w) /\ ~MarkReady(w)
  <2> DEFINE i == workers[w].node
             r == workers[w].task
  <2>1. workers[w].pc = "terminate" /\ instances' \in {instances, Terminated(i)}
    BY <1>8 DEF TerminateNode, TerminateInstances
  <2>2. i \in Instances /\ instances[i].session = s
    BY <2>1 DEF NodeInv, RecordedNodes, HandedOver
  <2>3. r \in Deletes /\ r \in Requests /\ tasks[r].state # "none" /\ tasks[r].session = s
    BY <1>1, <2>1 DEF TypeInv, HandlersHaveTasks, Busy, TerminatePCs, Requests, SessionOf
  <2>4. requests[r].pc = "done" /\ requests[r].session = s
    BY <1>1, <2>3 DEF TypeInv, TasksHaveSessions
  <2>5. FoundForUser(s, requests[r].user) /\ requests[r].user # Nil
    BY <1>1, <2>3, <2>4, DeploymentAssumption DEF TenantInv, DeletesByOwners, ClaimsMatchUsers
  <2>6. Deleted(s)
    BY <1>1, <2>3, <2>5, OwnersPosted DEF FoundForUser, Deleted
  <2> QED
    BY <1>1, <1>2, <1>4, <1>6, <1>8, <2>1, <2>2, <2>6, NodeStopsInContract DEF NodeUnchanged, Node!Next
<1>9. CASE \E i \in Free : /\ workers[w].pc = "launch" /\ ~MarkReady(w)
                           /\ instances' = Launched(i, s)
  BY <1>1, <1>2, <1>6, <1>9, NodeLaunches DEF Node!Next
<1>10. CASE UNCHANGED instances /\ ~MarkReady(w)
  BY <1>2, <1>4, <1>6, <1>10 DEF NodeUnchanged
<1>11. \/ UNCHANGED instances
       \/ TerminateBestEffort(w)
       \/ TerminateNode(w)
       \/ workers[w].pc = "launch" /\ \E i \in Free : instances' = Launched(i, s)
  BY DEF HandlerStep, GetFails, GetForProvision, Claim, Provision, RunInstances, LaunchFails,
     WaitForRunning, RunProvision, BootFails, MarkReady, Fail, GetForTerminate, MarkTerminated
<1> QED
  BY <1>5, <1>7, <1>8, <1>9, <1>10, <1>11

(* The control plane implements NodeContract in every deployment whose       *)
(* workers keep their leases, whatever else fails and whatever clients do.   *)
THEOREM ImplementsNodeContract ==
  ASSUME "lease" \notin Faults
  PROVE  Spec => NodeSpec
<1>1. Init => Node!Init
  <2> SUFFICES ASSUME Init PROVE Node!Init
    OBVIOUS
  <2>1. Running = {} /\ \A s \in Sessions : LaunchedFor(s) = {}
    BY DeploymentAssumption DEF Init, Ec2Init, NotLaunched, Running, LaunchedFor
  <2>2. \A s \in Sessions : rows[s].instance_id = Nil /\ Deleted(s) = FALSE
    BY DEF Init, StoreInit, NoRow, QueueInit, NoTask, Deleted, Requests
  <2> QED
    BY <2>1, <2>2 DEF Node!Init, LaunchedNodes, Handles, DeletedSessions
<1>2. ASSUME TenantInv, NodeInv, LaunchInv, TypeInv', [Next]_vars
      PROVE  Node!Next \/ NodeUnchanged
  <2>1. CASE UNCHANGED vars
    BY <2>1 DEF vars, NodeUnchanged, LaunchedNodes, LaunchedFor, Running, Handles,
       DeletedSessions, Deleted, PostedBy
  <2>2. ASSUME NEW r \in Requests, Api(r)
        PROVE  Node!Next \/ NodeUnchanged
    BY <1>2, <2>2, ApiNodes DEF Node!Next
  <2>3. CASE Queue
    <3>1. UNCHANGED <<rows, requests, instances>>
      BY <2>3 DEF Queue
    <3>2. \A t \in Deletes : /\ tasks'[t].state # "none" <=> tasks[t].state # "none"
                             /\ tasks[t].state # "none" => tasks'[t].session = tasks[t].session
      BY <1>2, <2>3, TasksStay DEF NodeInv, Requests
    <3>3. \A x \in Sessions : Deleted(x)' = Deleted(x)
      BY <3>1, <3>2 DEF Deleted, PostedBy
    <3> QED
      BY <3>1, <3>3 DEF NodeUnchanged, LaunchedNodes, LaunchedFor, Running, Handles, DeletedSessions
  <2>4. ASSUME NEW w \in Workers, HandlerStep(w), UNCHANGED <<users, requests>>
        PROVE  Node!Next \/ NodeUnchanged
    BY <1>2, <2>4, HandlerNodes
  <2> QED
    BY <1>2, <2>1, <2>2, <2>3, <2>4 DEF Next, Handlers
<1>3. Spec => []TypeInv
  BY InitTypeInv, NextTypeInv, PTL DEF Spec
<1>4. Spec => []LaunchInv
  BY LaunchInvariant
<1> QED
  BY <1>1, <1>2, <1>3, <1>4, TenantInvariant, NodeInvariant, PTL
  DEF Spec, NodeSpec, Node!Spec, Node!vars, NodeUnchanged

(* The contract keeps its own promise.                                       *)
LEMMA NodeContractKeeps == Node!Spec => []Node!KeptUntilDeleted
<1> DEFINE Inv == /\ Node!KeptUntilDeleted
                  /\ LaunchedNodes = [s \in Sessions |-> LaunchedNodes[s]]
                  /\ \A s, t \in Sessions, i \in Instances :
                       i \in LaunchedNodes[s] \cap LaunchedNodes[t] => s = t
                  /\ \A s \in Sessions : \A i, j \in LaunchedNodes[s] : i = j
                  /\ \A s \in Sessions : LaunchedNodes[s] \subseteq Instances
                  /\ Handles = [s \in Sessions |-> Handles[s]]
                  /\ DeletedSessions = [s \in Sessions |-> DeletedSessions[s]]
<1>1. Node!Init => Inv
  BY DEF Node!Init, Node!KeptUntilDeleted
<1>2. Inv /\ [Node!Next]_Node!vars => Inv'
  <2> SUFFICES ASSUME Inv, [Node!Next]_Node!vars
               PROVE  Inv'
    OBVIOUS
  <2> USE DEF Node!KeptUntilDeleted
  <2>1. CASE UNCHANGED Node!vars
    BY <2>1 DEF Node!vars
  <2>2. ASSUME NEW s \in Sessions, Node!Launch(s)
        PROVE  Inv'
    <3>1. PICK i \in Instances :
            /\ \A t \in Sessions : i \notin LaunchedNodes[t]
            /\ LaunchedNodes' = [LaunchedNodes EXCEPT ![s] = {i}]
            /\ Running' = Running \cup {i}
            /\ UNCHANGED <<Handles, DeletedSessions>>
      BY <2>2 DEF Node!Launch
    <3>2. LaunchedNodes[s] = {} /\ Handles[s] = Nil
      BY <2>2 DEF Node!Launch
    <3>3. \A t \in Sessions : LaunchedNodes'[t] = IF t = s THEN {i} ELSE LaunchedNodes[t]
      BY <3>1
    <3> QED
      BY <3>1, <3>2, <3>3
  <2>3. ASSUME NEW s \in Sessions, Node!HandOver(s)
        PROVE  Inv'
    BY <2>3 DEF Node!HandOver
  <2>4. ASSUME NEW s \in Sessions, Node!Delete(s)
        PROVE  Inv'
    BY <2>4 DEF Node!Delete
  <2>5. ASSUME NEW s \in Sessions, Node!Stop(s)
        PROVE  Inv'
    BY <2>5 DEF Node!Stop
  <2> QED
    BY <2>1, <2>2, <2>3, <2>4, <2>5 DEF Node!Next
<1>3. Inv => Node!KeptUntilDeleted
  OBVIOUS
<1> QED
  BY <1>1, <1>2, <1>3, PTL DEF Node!Spec

(* What was handed over runs until the owner's DELETE.                       *)
THEOREM HandedOverNodesRun ==
  ASSUME "lease" \notin Faults
  PROVE  Spec => []Node!KeptUntilDeleted
<1>1. Spec => Node!Spec
  BY ImplementsNodeContract DEF NodeSpec
<1> QED
  BY <1>1, NodeContractKeeps, PTL

(* Only SetSessionReady writes ready, and it writes an id with it.           *)
LEMMA NextReadyRecorded ==
  ASSUME TenantInv, NodeInv, ReadyIsRecorded, [Next]_vars
  PROVE  ReadyIsRecorded'
<1>1. TypeInv /\ StoreTypeOK /\ rows \in [Sessions -> Row]
  BY DEF NodeInv, TypeInv, TypeOK, StoreTypeOK
<1>2. ASSUME NEW w \in Workers, MarkReady(w)
      PROVE  ReadyIsRecorded'
  <2>1. /\ workers[w].node \in Instances
        /\ rows' \in {rows, SetSessionReady(SessionOf(w), workers[w].node)}
    BY <1>2 DEF MarkReady, NodeInv, NodesInHand, InHandPCs
  <2>2. CASE rows' = rows
    BY <2>2 DEF ReadyIsRecorded
  <2>3. CASE rows' = SetSessionReady(SessionOf(w), workers[w].node)
    <3>1. \A s \in Sessions : \/ rows'[s] = rows[s]
                             \/ rows'[s].instance_id = workers[w].node
      BY <1>1, <2>3 DEF SetSessionReady, Updated, Row
    <3> QED
      BY <2>1, <3>1, DeploymentAssumption DEF ReadyIsRecorded
  <2> QED
    BY <2>1, <2>2, <2>3
<1>3. ASSUME \A w \in Workers : ~MarkReady(w), NEW s \in Sessions, rows'[s].status = "ready"
      PROVE  rows[s].status = "ready"
  <2>1. CASE rows' = rows
    BY <1>3, <2>1
  <2>2. ASSUME NEW r \in Requests, Api(r)
        PROVE  rows[s].status = "ready"
    BY <1>3, <2>2, ApiWrites
  <2>3. ASSUME NEW w \in Workers, HandlerStep(w), rows' # rows
        PROVE  rows[s].status = "ready"
    <3>1. SessionOf(w) \in Sessions
      BY <1>1, <2>3, HandlerFrame
    <3>2. \/ rows' = SetSessionStatus(SessionOf(w), "provisioning")
          \/ rows' = SetSessionError(SessionOf(w))
          \/ rows' = SetSessionTerminated(SessionOf(w))
      BY <1>3, <2>3 DEF HandlerStep, GetFails, GetForProvision, Claim, Exec, Provision, Fail,
         GetForTerminate, TerminateNode, MarkTerminated
    <3>3. \E st \in {"provisioning", "error", "terminated"} : Writes(SessionOf(w), st)
      BY <1>1, <3>1, <3>2, StatementsWrite DEF Statuses
    <3> QED
      BY <1>3, <3>1, <3>3 DEF Writes
  <2> QED
    BY <2>1, <2>2, <2>3 DEF Next, vars, Queue, Handlers
<1>4. CASE \A w \in Workers : ~MarkReady(w)
  <2>1. KeepsRecords
    BY <1>4, OthersKeepRecords
  <2> QED
    BY <1>3, <1>4, <2>1 DEF ReadyIsRecorded, KeepsRecords
<1> QED
  BY <1>2, <1>4

(* A session that is ready, and not deleted by its owner, has its one node   *)
(* running, whatever fails as long as no worker outlives its lease.          *)
THEOREM ReadySessionsRun ==
  ASSUME "lease" \notin Faults
  PROVE  Spec => []ReadyMeansRunning
<1>1. Init => ReadyIsRecorded
  BY DEF Init, StoreInit, NoRow, ReadyIsRecorded
<1>2. TenantInv /\ NodeInv /\ ReadyIsRecorded /\ [Next]_vars => ReadyIsRecorded'
  BY NextReadyRecorded
<1>3. ReadyIsRecorded /\ Node!KeptUntilDeleted => ReadyMeansRunning
  <2> SUFFICES ASSUME ReadyIsRecorded, Node!KeptUntilDeleted, NEW s \in Sessions,
                      rows[s].status = "ready", ~Deleted(s)
               PROVE  Live(s) = {rows[s].instance_id}
    BY DEF ReadyMeansRunning
  <2>1. Handles[s] # Nil /\ Handles[s] = rows[s].instance_id /\ ~DeletedSessions[s]
    BY DEF ReadyIsRecorded, Handles, DeletedSessions
  <2>2. LaunchedNodes[s] = {rows[s].instance_id} /\ rows[s].instance_id \in Running
    BY <2>1 DEF Node!KeptUntilDeleted
  <2> QED
    BY <2>2 DEF LaunchedNodes, Running, Live, LaunchedFor
<1>4. Spec => []Node!KeptUntilDeleted
  BY HandedOverNodesRun
<1> QED
  BY <1>1, <1>2, <1>3, <1>4, TenantInvariant, NodeInvariant, PTL DEF Spec

-----------------------------------------------------------------------------
(* SessionContract: every step moves at most one session, the way the        *)
(* contract allows.                                                          *)

(* What a step may do to session s *)

(* Its record stays.                                                         *)
Moves(s, from, to) ==
  /\ rows[s].status \in from
  /\ rows'[s].status = to
  /\ rows'[s].instance_id = rows[s].instance_id
  /\ Live(s)' = Live(s)

Same(s) == Moves(s, {rows[s].status}, rows[s].status)

Launches(s) ==
  /\ rows'[s] = rows[s] /\ rows[s].status = "provisioning"
  /\ Live(s) = {}
  /\ \E i \in Instances : (\A t \in Sessions : i \notin Live(t)) /\ Live(s)' = {i}

Releases(s) ==
  /\ rows'[s] = rows[s] /\ rows[s].status \in {"provisioning", "terminating"}
  /\ Live(s) # {} /\ Live(s)' = {}

Records(s) ==
  /\ rows[s].status = "provisioning" /\ rows'[s].status = "ready"
  /\ rows'[s].instance_id \in Live(s)
  /\ Live(s)' = Live(s)

Effect(s) ==
  \/ Moves(s, {"none"}, "pending")
  \/ Moves(s, {"pending"}, "provisioning")
  \/ Launches(s)
  \/ Releases(s)
  \/ Records(s)
  \/ Live(s) = {} /\ Moves(s, {"provisioning"}, "error")
  \/ Moves(s, {"ready", "error", "terminated"}, "terminating")
  \/ Live(s) = {} /\ Moves(s, {"terminating"}, "terminated")

Only(s) == \A x \in Sessions \ {s} : Same(x)

Quiet == \A x \in Sessions : Same(x)

OneEffect == Quiet \/ \E s \in Sessions : Only(s) /\ Effect(s)

(* A step of worker w moves the session of its task.                         *)
EffectOfWorker(w) ==
  Quiet \/ \E s \in Sessions : s = SessionOf(w) /\ Only(s) /\ Effect(s)

-----------------------------------------------------------------------------
(* Such a step is one of the contract's, and keeps nodes and statuses apart. *)

LEMMA EffectIsContractStep ==
  ASSUME OneEffect
  PROVE  Contract!Next \/ UNCHANGED <<Status, Nodes>>
<1>1. CASE Quiet
  BY <1>1 DEF Quiet, Same, Moves, Status, Nodes
<1> SUFFICES ASSUME ~Quiet PROVE Contract!Next \/ UNCHANGED <<Status, Nodes>>
  BY <1>1
<1>2. PICK s \in Sessions : Only(s) /\ Effect(s)
  BY DEF OneEffect
<1>3. ASSUME NEW from, NEW to, Moves(s, from, to)
      PROVE  Contract!Move(s, from, to)
  <2>1. Status[s] \in from /\ Status' = [Status EXCEPT ![s] = to]
    BY <1>2, <1>3 DEF Only, Same, Moves, Status
  <2>2. UNCHANGED Nodes
    BY <1>2, <1>3 DEF Only, Same, Moves, Nodes
  <2> QED
    BY <2>1, <2>2 DEF Contract!Move
<1>4. CASE Launches(s)
  <2>1. UNCHANGED Status
    BY <1>2, <1>4 DEF Only, Same, Moves, Launches, Status
  <2>2. PICK i \in Instances : (\A t \in Sessions : i \notin Live(t)) /\ Live(s)' = {i}
    BY <1>4 DEF Launches
  <2>3. Nodes' = [Nodes EXCEPT ![s] = {i}]
    BY <1>2, <2>2 DEF Only, Same, Moves, Nodes
  <2>4. Status[s] = "provisioning" /\ Nodes[s] = {} /\ \A t \in Sessions : i \notin Nodes[t]
    BY <1>4, <2>2 DEF Launches, Status, Nodes
  <2> QED
    BY <2>1, <2>3, <2>4 DEF Contract!Launch, Contract!Next
<1>5. CASE Releases(s)
  <2>1. UNCHANGED Status
    BY <1>2, <1>5 DEF Only, Same, Moves, Releases, Status
  <2>2. Nodes' = [Nodes EXCEPT ![s] = {}]
    BY <1>2, <1>5 DEF Only, Same, Moves, Releases, Nodes
  <2>3. Status[s] \in {"provisioning", "terminating"} /\ Nodes[s] # {}
    BY <1>5 DEF Releases, Status, Nodes
  <2> QED
    BY <2>1, <2>2, <2>3 DEF Contract!Release, Contract!Next
<1>6. CASE Records(s)
  <2>1. Status[s] \in {"provisioning"} /\ Status' = [Status EXCEPT ![s] = "ready"]
    BY <1>2, <1>6 DEF Only, Same, Moves, Records, Status
  <2>2. UNCHANGED Nodes /\ Nodes[s] # {}
    BY <1>2, <1>6 DEF Only, Same, Moves, Records, Nodes
  <2> QED
    BY <2>1, <2>2 DEF Contract!Move, Contract!Ready, Contract!Next
<1>7. CASE Live(s) = {} /\ Moves(s, {"provisioning"}, "error")
  BY <1>3, <1>7 DEF Nodes, Contract!Fail, Contract!Next
<1>8. CASE Live(s) = {} /\ Moves(s, {"terminating"}, "terminated")
  BY <1>3, <1>8 DEF Nodes, Contract!Finish, Contract!Next
<1> QED
  BY <1>2, <1>3, <1>4, <1>5, <1>6, <1>7, <1>8
  DEF Effect, Contract!Request, Contract!Claim, Contract!Delete, Contract!Next

(* A session has one instance at most, so a ready one has just that.         *)
LEMMA OneLive ==
  ASSUME LaunchInv, NEW s \in Sessions, NEW i \in Live(s)
  PROVE  Live(s) = {i}
BY DeploymentAssumption DEF LaunchInv, AtMostOneLaunch, Live, LaunchedFor

LEMMA EffectKeepsNodes ==
  ASSUME LaunchInv, NodesMatchStatus, OneEffect
  PROVE  NodesMatchStatus'
<1> DEFINE Match(status, id, live) ==
      /\ status \in {"none", "pending", "error", "terminated"} => live = {}
      /\ status = "ready" => id \in live
      /\ status = "terminating" => \A i \in live : id = i
<1>1. ASSUME NEW x \in Sessions
      PROVE  /\ Match(rows[x].status, rows[x].instance_id, Live(x))
             /\ rows[x].status = "ready" => \A i \in Live(x) : rows[x].instance_id = i
  BY OneLive DEF NodesMatchStatus
<1>2. ASSUME NEW x \in Sessions, Same(x) \/ Effect(x)
      PROVE  Match(rows'[x].status, rows'[x].instance_id, Live(x)')
  BY <1>1, <1>2 DEF Effect, Same, Moves, Launches, Releases, Records
<1> QED
  BY <1>2 DEF NodesMatchStatus, OneEffect, Quiet, Only

-----------------------------------------------------------------------------
(* Every step has one effect *)

(* A step that changes neither rows nor instances has none.                  *)
LEMMA QuietSteps ==
  ASSUME UNCHANGED <<rows, instances>>
  PROVE  Quiet
BY DEF Quiet, Same, Moves, Live, LaunchedFor

LEMMA ApiEffect ==
  ASSUME PatientInv, NEW r \in Requests, Api(r)
  PROVE  OneEffect
<1>1. TenantInv /\ NodeInv /\ TypeInv
  BY DEF PatientInv, TenantInv
<1>2. KeepsRecords /\ UNCHANGED instances
  BY <1>1, ApiKeepsRecords, ApiFacts
<1>3. \A s \in Sessions : rows'[s].status = rows[s].status => Same(s)
  BY <1>2 DEF Same, Moves, KeepsRecords, Live, LaunchedFor
<1>4. CASE \A s \in Sessions : rows'[s].status = rows[s].status
  BY <1>3, <1>4 DEF OneEffect, Quiet
<1>5. ASSUME NEW s \in Sessions, rows'[s].status # rows[s].status
      PROVE  OneEffect
  <2>1. \/ /\ InsertSession(r) /\ ~Exists(s)
           /\ rows'[s].status = "pending" /\ requests'[r].session = s
        \/ /\ SetTerminating(r) /\ requests[r].session = s
           /\ rows'[s].status = "terminating"
    BY <1>1, <1>5, ApiWrites
  <2>2. Live(s)' = Live(s) /\ rows'[s].instance_id = rows[s].instance_id
    BY <1>2 DEF KeepsRecords, Live, LaunchedFor
  <2>3. Effect(s)
    <3>1. CASE InsertSession(r) /\ ~Exists(s) /\ rows'[s].status = "pending"
      BY <2>2, <3>1 DEF Exists, Moves, Effect
    <3>2. CASE SetTerminating(r) /\ requests[r].session = s /\ rows'[s].status = "terminating"
      <4>1. r \in Deletes
        BY <1>1, <3>2 DEF SetTerminating, TypeInv, TasksHaveSessions, Requests
      <4>2. rows[s].status \in {"ready", "error", "terminated"}
        BY <1>5, <3>2, <4>1 DEF SetTerminating, PatientInv, DeletesComeLate
      <4> QED
        BY <2>2, <3>2, <4>2 DEF Moves, Effect
    <3> QED
      BY <2>1, <3>1, <3>2
  <2>4. Only(s)
    <3>1. ASSUME NEW x \in Sessions \ {s}, rows'[x].status # rows[x].status
          PROVE  FALSE
      <4>1. \/ InsertSession(r) /\ requests'[r].session = x
            \/ SetTerminating(r) /\ requests[r].session = x
        BY <1>1, <3>1, ApiWrites
      <4> QED
        BY <2>1, <4>1 DEF InsertSession, SetTerminating
    <3> QED
      BY <1>3, <3>1 DEF Only
  <2> QED
    BY <2>3, <2>4 DEF OneEffect
<1> QED
  BY <1>4, <1>5

(* A statement that writes the row of s touches no instance and no record.   *)
LEMMA WritesMove ==
  ASSUME NEW s \in Sessions, NEW st, NEW from, Exists(s), rows[s].status \in from,
         Writes(s, st), KeepsRecords, UNCHANGED instances
  PROVE  Only(s) /\ Moves(s, from, st)
BY DEF Writes, KeepsRecords, Only, Same, Moves, Live, LaunchedFor

(* Two handlers on one session are both tearing it down.                     *)
LEMMA HandlersOnOneSession ==
  ASSUME PatientInv, NEW v \in Workers, NEW w \in Workers, v # w,
         workers[v].pc \notin {"idle", "get"}, workers[w].pc \notin {"idle", "get"},
         SessionOf(v) = SessionOf(w)
  PROVE  workers[v].pc \in TerminatePCs /\ workers[w].pc \in TerminatePCs
<1>1. TypeInv /\ LaunchInv /\ workers \in [Workers -> Worker]
  BY DEF PatientInv, TenantInv, TypeInv, TypeOK, QueueTypeOK
<1>2. ASSUME NEW x \in Workers, workers[x].pc \notin {"idle", "get"}
      PROVE  /\ workers[x].pc \in ProvisionPCs \/ workers[x].pc \in TerminatePCs
             /\ workers[x].pc \in ProvisionPCs =>
                  rows[SessionOf(x)].status \in {"pending", "provisioning"}
             /\ workers[x].pc \in TerminatePCs =>
                  rows[SessionOf(x)].status \in {"terminating", "terminated"}
  <2>1. workers[x].pc \in PCs
    BY <1>1 DEF Worker
  <2>2. workers[x].pc \in TerminatePCs => workers[x].task \in Deletes
    BY <1>1, <1>2 DEF TypeInv, HandlersHaveTasks, Busy
  <2>3. requests[workers[x].task].session = SessionOf(x) /\ tasks[workers[x].task].state # "none"
    BY <1>1, <1>2, SessionsOfWorkers DEF Busy
  <2>4. workers[x].pc \in ProvisionPCs \/ workers[x].pc \in TerminatePCs
    BY <1>2, <2>1 DEF PCs
  <2>5. workers[x].pc \in ProvisionPCs => rows[SessionOf(x)].status \in {"pending", "provisioning"}
    BY DEF PatientInv, HandlersMatchStatus, HandlerMatchesStatus
  <2>6. workers[x].pc \in TerminatePCs => rows[SessionOf(x)].status \in {"terminating", "terminated"}
    BY <2>2, <2>3 DEF PatientInv, DeletesComeLate
  <2> QED
    BY <2>4, <2>5, <2>6
<1>3. workers[v].pc \in ProvisionPCs /\ workers[w].pc \in ProvisionPCs => v = w
  BY <1>1, OneProvisionerPerSession
<1> QED
  BY <1>2, <1>3

(* What a handler that is tearing s down knows of s.                         *)
LEMMA TeardownKnows ==
  ASSUME PatientInv, NEW w \in Workers, Busy(w), workers[w].task \in Deletes
  PROVE  rows[SessionOf(w)].status \in {"terminating", "terminated"}
<1>1. requests[workers[w].task].session = SessionOf(w) /\ tasks[workers[w].task].state # "none"
  BY SessionsOfWorkers DEF PatientInv, TenantInv
<1> QED
  BY <1>1 DEF PatientInv, DeletesComeLate

LEMMA ProvisionEffect ==
  ASSUME {"lease", "ec2"} \cap Faults = {}, PatientInv, NEW w \in Workers, Provision(w),
         HandlerStep(w)
  PROVE  EffectOfWorker(w)
<1>1. /\ UNCHANGED rows /\ TypeInv /\ NodeInv /\ LaunchInv
      /\ workers[w].pc \in {"launch", "boot", "script", "cleanup"}
  BY DEF Provision, PatientInv, NodeInv, RunInstances, LaunchFails, WaitForRunning, RunProvision,
     BootFails, TerminateBestEffort
<1>2. ~CallMayFail(w, "ec2") /\ "ec2" \notin Faults
  BY <1>1 DEF CallMayFail, LaunchInv, OneHandlerPerTask, Busy
<1>3. PICK s \in Sessions : s = SessionOf(w)
  BY <1>1, HandlerFrame
<1>4. rows[s].status = "provisioning"
  BY <1>1, <1>3 DEF PatientInv, HandlersMatchStatus, HandlerMatchesStatus, ProvisionPCs
<1>5. CASE UNCHANGED instances
  BY <1>1, <1>5, QuietSteps DEF EffectOfWorker
<1>6. CASE RunInstances(w, rows[SessionOf(w)].sku)
  <2>1. PICK i \in Free : instances' = Launched(i, s)
    BY <1>3, <1>6 DEF RunInstances
  <2>2. i \in Instances /\ instances[i].state = "none" /\ instances \in [Instances -> Instance]
    BY <1>1 DEF Free, TypeInv, TypeOK, Ec2TypeOK
  <2>3. /\ instances'[i] = [state |-> "live", session |-> s]
        /\ \A j \in Instances \ {i} : instances'[j] = instances[j]
    BY <2>1, <2>2 DEF Launched
  <2>4. \A j \in Instances : instances[j].session # s
    BY <1>3, <1>6, DeploymentAssumption DEF RunInstances, PatientInv, LaunchInv, ClaimBeforeLaunch
  <2>5. /\ \A t \in Sessions : i \notin Live(t)
        /\ Live(s) = {}
        /\ Live(s)' = {i}
    BY <2>2, <2>3, <2>4 DEF Live, LaunchedFor
  <2>6. \A t \in Sessions \ {s} : Live(t)' = Live(t)
    BY <2>2, <2>3 DEF Live, LaunchedFor
  <2>7. Launches(s)
    BY <1>1, <1>4, <2>2, <2>5 DEF Launches
  <2>8. Only(s)
    BY <1>1, <2>6 DEF Only, Same, Moves
  <2> QED
    BY <1>3, <2>7, <2>8 DEF EffectOfWorker, Effect
<1>7. CASE TerminateBestEffort(w)
  <2> DEFINE i == workers[w].node
  <2>1. workers[w].pc = "cleanup" /\ instances' = Terminated(i)
    BY <1>2, <1>7 DEF TerminateBestEffort, TerminateInstances
  <2>2. /\ i \in Instances /\ instances[i] = [state |-> "live", session |-> s]
        /\ instances \in [Instances -> Instance]
    BY <1>1, <1>3, <2>1 DEF NodeInv, NodesInHand, InHandPCs, TypeInv, TypeOK, Ec2TypeOK
  <2>3. i \in Live(s)
    BY <2>2 DEF Live, LaunchedFor
  <2>4. Live(s) = {i}
    BY <1>1, <2>3, OneLive
  <2>5. /\ Live(s)' = {}
        /\ \A t \in Sessions \ {s} : Live(t)' = Live(t)
    BY <2>1, <2>2, <2>4 DEF Live, LaunchedFor, Terminated
  <2> QED
    BY <1>1, <1>3, <1>4, <2>4, <2>5 DEF EffectOfWorker, Effect, Releases, Only, Same, Moves
<1> QED
  BY <1>2, <1>5, <1>6, <1>7 DEF Provision, LaunchFails, WaitForRunning, RunProvision, BootFails

(* The other statements and the teardown.                                    *)
LEMMA HandlerEffect ==
  ASSUME {"lease", "ec2"} \cap Faults = {}, PatientInv, NEW w \in Workers, HandlerStep(w),
         [Next]_vars
  PROVE  EffectOfWorker(w)
<1>1. TenantInv /\ NodeInv /\ LaunchInv /\ TypeInv /\ StoreTypeOK
  BY DEF PatientInv, NodeInv, TypeInv, TypeOK
<1>2. Busy(w) /\ SessionOf(w) \in Sessions
  BY <1>1, HandlerFrame
<1>3. PICK s \in Sessions : s = SessionOf(w)
  BY <1>2
<1>4. CASE UNCHANGED <<rows, instances>>
  BY <1>4, QuietSteps DEF EffectOfWorker
<1>5. (\A v \in Workers : ~MarkReady(v)) => KeepsRecords
  BY <1>1, OthersKeepRecords
<1>6. ASSUME NEW v \in Workers, MarkReady(v)
      PROVE  v = w
  <2>1. workers[v].pc = "ready" /\ workers'[v].pc = "idle"
    BY <1>1, <1>6, ReturnFacts DEF MarkReady, Busy
  <2> QED
    BY <1>1, <2>1, HandlerFrame
<1>7. CASE Claim(w)
  <2>1. /\ workers[w].pc = "claim" /\ UNCHANGED instances
        /\ rows' \in {rows, SetSessionStatus(s, "provisioning")}
    BY <1>3, <1>7 DEF Claim, Exec
  <2>2. rows[s].status = "pending"
    BY <1>3, <2>1 DEF PatientInv, HandlersMatchStatus, HandlerMatchesStatus
  <2>3. KeepsRecords
    BY <1>5, <1>6, <2>1 DEF MarkReady
  <2>4. rows' # rows => Only(s) /\ Moves(s, {"pending"}, "provisioning")
    BY <1>1, <2>1, <2>2, <2>3, StatementsWrite, WritesMove DEF Statuses, Exists
  <2> QED
    BY <1>3, <1>4, <2>1, <2>4 DEF EffectOfWorker, Effect
<1>8. CASE Provision(w)
  BY <1>8, ProvisionEffect
<1>9. CASE MarkReady(w)
  <2> DEFINE i == workers[w].node
  <2>1. /\ workers[w].pc = "ready" /\ UNCHANGED instances
        /\ rows' \in {rows, SetSessionReady(s, i)}
    BY <1>3, <1>9 DEF MarkReady
  <2>2. rows[s].status = "provisioning"
    BY <1>3, <2>1 DEF PatientInv, HandlersMatchStatus, HandlerMatchesStatus, ProvisionPCs
  <2>3. i \in Instances /\ instances[i] = [state |-> "live", session |-> s]
    BY <1>1, <1>3, <2>1 DEF NodeInv, NodesInHand, InHandPCs
  <2>4. i \in Live(s)
    BY <2>3 DEF Live, LaunchedFor
  <2>5. CASE rows' = SetSessionReady(s, i)
    <3>1. /\ rows'[s].status = "ready" /\ rows'[s].instance_id = i
          /\ \A x \in Sessions \ {s} : rows'[x] = rows[x]
      BY <1>1, <2>2, <2>5 DEF SetSessionReady, Updated, Exists, StoreTypeOK, Row
    <3>2. \A x \in Sessions : Live(x)' = Live(x)
      BY <2>1 DEF Live, LaunchedFor
    <3>3. Records(s) /\ Only(s)
      BY <2>2, <2>4, <3>1, <3>2 DEF Records, Only, Same, Moves
    <3> QED
      BY <1>3, <3>3 DEF EffectOfWorker, Effect
  <2> QED
    BY <1>4, <2>1, <2>5
<1>10. CASE Fail(w)
  <2>1. /\ workers[w].pc = "fail" /\ UNCHANGED instances
        /\ rows' \in {rows, SetSessionError(s)}
    BY <1>3, <1>10 DEF Fail
  <2>2. rows[s].status = "provisioning" /\ Live(s) = {}
    BY <1>3, <2>1 DEF PatientInv, HandlersMatchStatus, HandlerMatchesStatus, FailuresAreClean, ProvisionPCs
  <2>3. KeepsRecords
    BY <1>5, <1>6, <2>1 DEF MarkReady
  <2>4. rows' # rows => Only(s) /\ Moves(s, {"provisioning"}, "error")
    BY <1>1, <2>1, <2>2, <2>3, StatementsWrite, WritesMove DEF Exists
  <2> QED
    BY <1>3, <1>4, <2>1, <2>2, <2>4 DEF EffectOfWorker, Effect
<1>11. CASE TerminateNode(w)
  <2> DEFINE i == workers[w].node
  <2>1. workers[w].pc = "terminate" /\ instances' \in {instances, Terminated(i)} /\ UNCHANGED rows
    BY <1>11 DEF TerminateNode, TerminateInstances
  <2>2. i \in Instances /\ instances[i].session = s /\ instances \in [Instances -> Instance]
    BY <1>1, <1>3, <2>1 DEF NodeInv, RecordedNodes, HandedOver, TypeInv, TypeOK, Ec2TypeOK
  <2>3. rows[s].status \in {"terminating", "terminated"}
    BY <1>1, <1>2, <1>3, <2>1, TeardownKnows DEF TypeInv, HandlersHaveTasks, TerminatePCs
  <2>4. \A x \in Sessions \ {s} : Live(x)' = Live(x)
    BY <2>1, <2>2 DEF Live, LaunchedFor, Terminated, Instance
  <2>5. CASE i \in Live(s) /\ instances' = Terminated(i)
    <3>1. Live(s) = {i}
      BY <1>1, <2>5, OneLive
    <3>2. rows[s].status = "terminating"
      BY <2>3, <3>1 DEF PatientInv, NodesMatchStatus
    <3>3. Live(s)' = {}
      BY <2>2, <2>5, <3>1 DEF Live, LaunchedFor, Terminated, Instance
    <3> QED
      BY <1>3, <2>1, <2>4, <3>1, <3>2, <3>3 DEF EffectOfWorker, Effect, Releases, Only, Same, Moves
  <2>6. CASE ~(i \in Live(s) /\ instances' = Terminated(i))
    <3>1. Live(s)' = Live(s)
      BY <2>1, <2>2, <2>6 DEF Live, LaunchedFor, Terminated, Instance
    <3> QED
      BY <2>1, <2>4, <3>1 DEF EffectOfWorker, Quiet, Same, Moves
  <2> QED
    BY <2>5, <2>6
<1>12. CASE MarkTerminated(w)
  <2>1. /\ workers[w].pc = "mark" /\ UNCHANGED instances
        /\ rows' \in {rows, SetSessionTerminated(s)}
    BY <1>3, <1>12 DEF MarkTerminated
  <2>2. rows[s].status \in {"terminating", "terminated"}
    BY <1>1, <1>2, <1>3, <2>1, TeardownKnows DEF TypeInv, HandlersHaveTasks, TerminatePCs
  <2>3. Live(s) = {}
    BY <1>3, <2>1 DEF PatientInv, HandlersMatchStatus, HandlerMatchesStatus
  <2>4. KeepsRecords
    BY <1>5, <1>6, <2>1 DEF MarkReady
  <2>5. CASE rows' = SetSessionTerminated(s)
    <3>1. \A from : rows[s].status \in from => Only(s) /\ Moves(s, from, "terminated")
      BY <1>1, <2>1, <2>2, <2>4, <2>5, StatementsWrite, WritesMove DEF Exists
    <3>2. CASE rows[s].status = "terminating"
      BY <1>3, <2>3, <3>1, <3>2 DEF EffectOfWorker, Effect
    <3>3. CASE rows[s].status = "terminated"
      BY <3>1, <3>3 DEF EffectOfWorker, Quiet, Only, Same
    <3> QED
      BY <2>2, <3>2, <3>3
  <2> QED
    BY <1>4, <2>1, <2>5
<1>13. CASE GetFails(w) \/ GetForProvision(w) \/ GetForTerminate(w)
  BY <1>4, <1>13 DEF GetFails, GetForProvision, GetForTerminate
<1> QED
  BY <1>7, <1>8, <1>9, <1>10, <1>11, <1>12, <1>13 DEF HandlerStep

-----------------------------------------------------------------------------
(* DELETEs come late, and the handlers know their status *)

(* What has settled stays settled, what is torn down stays that way.         *)
LEMMA SettledStays ==
  ASSUME OneEffect, NEW s \in Sessions
  PROVE  /\ rows[s].status \in {"ready", "error", "terminating", "terminated"} =>
              rows'[s].status \in {"ready", "error", "terminating", "terminated"}
         /\ rows[s].status \in {"terminating", "terminated"} =>
              rows'[s].status \in {"terminating", "terminated"}
<1>1. Same(s) \/ Effect(s)
  BY DEF OneEffect, Quiet, Only
<1> QED
  BY <1>1 DEF Same, Effect, Moves, Launches, Releases, Records

(* Requests and tasks that were there keep their session settled.            *)
LEMMA DeletesFrame ==
  ASSUME PatientInv, OneEffect, NEW r \in Deletes, requests'[r] = requests[r],
         tasks'[r].state # "none" => tasks[r].state # "none"
  PROVE  /\ requests'[r].pc = "set" =>
              rows'[requests'[r].session].status \in {"ready", "error", "terminating", "terminated"}
         /\ requests'[r].pc = "enqueue" \/ tasks'[r].state # "none" =>
              rows'[requests'[r].session].status \in {"terminating", "terminated"}
<1>1. requests[r].pc \in {"set", "enqueue"} \/ tasks[r].state # "none" =>
        requests[r].session \in Sessions
  BY DEF PatientInv, TenantInv, TypeInv, TasksHaveSessions, Requests
<1> QED
  BY <1>1, SettledStays DEF PatientInv, DeletesComeLate

LEMMA ApiDeletesLate ==
  ASSUME PatientClients, PatientInv, NEW r \in Requests, Api(r)
  PROVE  DeletesComeLate'
<1>1. TypeInv /\ ServiceTypeOK /\ StoreTypeOK /\ tasks \in [Requests -> Task]
  BY DEF PatientInv, TenantInv, TypeInv, TypeOK, QueueTypeOK
<1>2. OneEffect
  BY ApiEffect
<1>3. \A x \in Requests \ {r} : requests'[x] = requests[x] /\ tasks'[x] = tasks[x]
  <2>1. \A x \in Requests \ {r} : requests'[x] = requests[x]
    BY <1>1 DEF Api, RequestStep, Authenticate, RejectBody, InsertSession, LookupSession,
       SetTerminating, EnqueueTask, CrashRequest, Reply, Proceed, ServiceTypeOK
  <2>2. \A x \in Requests \ {r} : tasks'[x] = tasks[x]
    BY <1>1 DEF Api, RequestStep, Authenticate, RejectBody, InsertSession, LookupSession,
       SetTerminating, EnqueueTask, CrashRequest, Enqueued
  <2> QED
    BY <2>1, <2>2
<1>4. SUFFICES ASSUME r \in Deletes
               PROVE  /\ requests'[r].pc = "set" =>
                           rows'[requests'[r].session].status \in {"ready", "error", "terminating", "terminated"}
                      /\ requests'[r].pc = "enqueue" \/ tasks'[r].state # "none" =>
                           rows'[requests'[r].session].status \in {"terminating", "terminated"}
  BY <1>2, <1>3, DeletesFrame DEF DeletesComeLate, Requests
<1>5. tasks[r].state = "none" /\ r \notin Creates
  <2>1. requests[r].pc # "done"
    BY DEF Api, RequestStep, Authenticate, RejectBody, InsertSession, LookupSession,
       SetTerminating, EnqueueTask, CrashRequest
  <2> QED
    BY <1>1, <1>4, <2>1, DeploymentAssumption DEF TypeInv, TasksHaveSessions
<1>6. CASE Authenticate(r) \/ RejectBody(r) \/ CrashRequest(r)
  <2>1. UNCHANGED tasks
    BY <1>6 DEF Authenticate, RejectBody, CrashRequest
  <2>2. CASE \E response : Reply(r, response)
    <3>1. requests'[r].pc = "done"
      BY <1>1, <2>2 DEF Reply, Proceed, ServiceTypeOK, Request
    <3> QED
      BY <1>5, <2>1, <3>1
  <2>3. CASE \E c \in Subjects : \E u :
               requests' = [requests EXCEPT
                 ![r] = [NoRequest EXCEPT !.pc = "authed", !.subject = c, !.user = u]]
    <3>1. requests'[r].pc = "authed"
      BY <1>1, <2>3 DEF ServiceTypeOK, NoRequest
    <3> QED
      BY <1>5, <2>1, <3>1
  <2> QED
    BY <1>6, <2>2, <2>3 DEF Authenticate, RejectBody, CrashRequest
<1>7. CASE LookupSession(r)
  <2>1. UNCHANGED <<rows, tasks>>
    BY <1>7 DEF LookupSession
  <2>2. PICK s \in Sessions :
          /\ rows[s].status \notin {"pending", "provisioning"}
          /\ \/ \E response : Proceed(r, "done", s, response)
             \/ /\ Exists(s) /\ rows[s].status \notin {"terminated", "terminating"}
                /\ Proceed(r, "set", s, Nil)
    BY <1>7 DEF LookupSession, Seen, FoundForUser
  <2>3. rows[s].status \in Statuses \cup {"none"}
    BY <1>1 DEF StoreTypeOK, Row
  <2>4. /\ requests'[r].pc \in {"set", "done"}
        /\ requests'[r].pc = "set" =>
             requests'[r].session = s /\ rows[s].status \in {"ready", "error"}
    BY <1>1, <2>2, <2>3 DEF Proceed, ServiceTypeOK, Request, Exists, Statuses
  <2> QED
    BY <1>5, <2>1, <2>4
<1>8. CASE SetTerminating(r)
  <2> DEFINE s == requests[r].session
  <2>1. s \in Sessions /\ rows[s].status \in {"ready", "error", "terminating", "terminated"}
    BY <1>1, <1>4, <1>8 DEF SetTerminating, PatientInv, DeletesComeLate, TypeInv, TasksHaveSessions
  <2>2. UNCHANGED tasks /\ requests'[r].pc \in {"enqueue", "done"} /\ requests'[r].session = s
    BY <1>1, <1>8 DEF SetTerminating, Reply, Proceed, ServiceTypeOK, Request
  <2>3. requests'[r].pc = "enqueue" => rows' = SetSessionStatus(s, "terminating")
    BY <1>1, <1>8 DEF SetTerminating, Reply, Proceed, ServiceTypeOK, Request
  <2>4. requests'[r].pc = "enqueue" => rows'[s].status = "terminating"
    <3>1. rows' = SetSessionStatus(s, "terminating") => Writes(s, "terminating")
      BY <1>1, <2>1, StatementsWrite DEF Statuses
    <3> QED
      BY <2>1, <2>3, <3>1 DEF Writes, Exists
  <2> QED
    BY <1>5, <2>2, <2>4
<1>9. CASE EnqueueTask(r)
  <2>1. rows[requests[r].session].status \in {"terminating", "terminated"} /\ UNCHANGED rows
    BY <1>4, <1>9 DEF EnqueueTask, PatientInv, DeletesComeLate
  <2>2. requests'[r].session = requests[r].session /\ requests'[r].pc = "done"
    BY <1>1, <1>9 DEF EnqueueTask, Reply, Proceed, ServiceTypeOK, Request
  <2> QED
    BY <2>1, <2>2
<1> QED
  BY <1>5, <1>6, <1>7, <1>8, <1>9 DEF Api, RequestStep, InsertSession

LEMMA NextDeletesLate ==
  ASSUME PatientClients, {"lease", "ec2"} \cap Faults = {}, PatientInv, [Next]_vars
  PROVE  DeletesComeLate'
<1>1. TypeInv
  BY DEF PatientInv, TenantInv
<1>2. CASE UNCHANGED vars
  BY <1>2 DEF vars, PatientInv, DeletesComeLate
<1>3. ASSUME NEW r \in Requests, Api(r)
      PROVE  DeletesComeLate'
  BY <1>3, ApiDeletesLate
<1>4. ASSUME OneEffect, NoNewTasks, UNCHANGED requests
      PROVE  DeletesComeLate'
  BY <1>4, DeletesFrame DEF NoNewTasks, DeletesComeLate, Requests
<1>5. CASE Queue
  <2>1. OneEffect /\ UNCHANGED requests
    BY <1>5, QuietSteps DEF Queue, OneEffect
  <2> QED
    BY <1>1, <1>4, <1>5, <2>1, TasksComeFromRequests
<1>6. ASSUME NEW w \in Workers, HandlerStep(w), UNCHANGED requests
      PROVE  DeletesComeLate'
  <2>1. OneEffect
    BY <1>6, HandlerEffect DEF OneEffect, EffectOfWorker
  <2> QED
    BY <1>1, <1>4, <1>6, <2>1, TasksComeFromRequests
<1> QED
  BY <1>2, <1>3, <1>5, <1>6 DEF Next, Handlers

(* A handler that stays where it is.                                         *)
LEMMA MatchFrame ==
  ASSUME NEW v \in Workers, NEW s, HandlerMatchesStatus(v),
         workers'[v].pc \notin {"idle", "get"} =>
           /\ workers'[v].pc = workers[v].pc /\ workers'[v].node = workers[v].node
           /\ SessionOf(v) = s /\ SessionOf(v)' = s,
         workers[v].pc \in ProvisionPCs => rows'[s].status = rows[s].status,
         workers[v].pc \in TerminatePCs =>
           rows'[s].instance_id = rows[s].instance_id /\ Live(s)' \subseteq Live(s)
  PROVE  HandlerMatchesStatus(v)'
<1>1. CASE workers'[v].pc \in {"idle", "get"}
  BY <1>1 DEF HandlerMatchesStatus, ProvisionPCs
<1>2. CASE workers'[v].pc \notin {"idle", "get"}
  BY <1>2 DEF HandlerMatchesStatus, ProvisionPCs, TerminatePCs, Live, LaunchedFor
<1> QED
  BY <1>1, <1>2

(* A handler that goes on.                                                   *)
LEMMA MatchAfter ==
  ASSUME TypeInv, NEW w \in Workers, Busy(w), NEW s, s = SessionOf(w),
         NEW pc \in PCs \ {"idle"}, NEW node, Goto(w, pc, node),
         pc = "claim" => rows'[s].status = "pending",
         pc \in ProvisionPCs \ {"claim"} => rows'[s].status = "provisioning",
         pc = "mark" => Live(s)' = {},
         pc = "terminate" => rows'[s].instance_id = node
  PROVE  HandlerMatchesStatus(w)'
<1>1. workers'[w].pc = pc /\ workers'[w].node = node /\ SessionOf(w)' = s
  BY GotoFacts
<1> QED
  BY <1>1 DEF HandlerMatchesStatus, ProvisionPCs, Live, LaunchedFor

LEMMA OwnMatch ==
  ASSUME {"lease", "ec2"} \cap Faults = {}, PatientInv, NEW w \in Workers, HandlerStep(w)
  PROVE  HandlerMatchesStatus(w)'
<1>1. TypeInv /\ StoreTypeOK /\ HandlerMatchesStatus(w) /\ LaunchInv
  BY DEF PatientInv, TenantInv, TypeInv, TypeOK, HandlersMatchStatus
<1>2. Busy(w) /\ SessionOf(w) \in Sessions
  BY <1>1, HandlerFrame
<1>3. PICK s \in Sessions : s = SessionOf(w)
  BY <1>2
<1>4. CASE ReturnNil(w) \/ ReturnErr(w)
  <2>1. workers'[w].pc = "idle"
    BY <1>1, <1>2, <1>4, ReturnFacts
  <2> QED
    BY <2>1 DEF HandlerMatchesStatus, ProvisionPCs
<1>5. \A pc \in PCs \ {"idle"} : \A node :
        /\ Goto(w, pc, node)
        /\ pc = "claim" => rows'[s].status = "pending"
        /\ pc \in ProvisionPCs \ {"claim"} => rows'[s].status = "provisioning"
        /\ pc = "mark" => Live(s)' = {}
        /\ pc = "terminate" => rows'[s].instance_id = node
        => HandlerMatchesStatus(w)'
  BY <1>1, <1>2, <1>3, MatchAfter
<1>6. ~CallMayFail(w, "ec2")
  BY <1>1, <1>2 DEF CallMayFail, LaunchInv, OneHandlerPerTask
<1>7. workers[w].task \in Deletes =>
        \A i \in Live(s) : rows[s].instance_id = i
  <2>1. workers[w].task \in Deletes => rows[s].status \in {"terminating", "terminated"}
    BY <1>2, <1>3, TeardownKnows
  <2> QED
    BY <2>1 DEF PatientInv, NodesMatchStatus
<1>8. CASE GetForProvision(w)
  <2>1. \/ /\ Goto(w, "claim", Nil)
           /\ rows'[s].status = "pending" /\ "claim" \in PCs \ {"idle"}
        \/ ReturnNil(w)
    BY <1>3, <1>8 DEF GetForProvision, PCs, ProvisionPCs
  <2> QED
    BY <1>4, <1>5, <2>1
<1>9. CASE Claim(w)
  <2>1. ReturnErr(w) \/ /\ Goto(w, "launch", workers[w].node)
                        /\ rows' = SetSessionStatus(s, "provisioning")
    BY <1>3, <1>9 DEF Claim, Exec
  <2>2. rows[s].status = "pending"
    BY <1>1, <1>3, <1>9 DEF Claim, HandlerMatchesStatus
  <2>3. rows' = SetSessionStatus(s, "provisioning") => rows'[s].status = "provisioning"
    BY <1>1, <2>2, StatementsWrite DEF Writes, Exists, Statuses
  <2>4. "launch" \in PCs \ {"idle"}
    BY DEF PCs, ProvisionPCs
  <2> QED
    BY <1>4, <1>5, <2>1, <2>3, <2>4
<1>10. CASE Provision(w)
  <2>1. UNCHANGED rows /\ workers[w].pc \in ProvisionPCs \ {"claim"}
    BY <1>10 DEF Provision, RunInstances, LaunchFails, WaitForRunning, RunProvision, BootFails,
       TerminateBestEffort, ProvisionPCs
  <2>2. rows'[s].status = "provisioning"
    BY <1>1, <1>3, <2>1 DEF HandlerMatchesStatus
  <2>3. \E pc \in {"boot", "script", "cleanup", "ready", "fail"} : \E node : Goto(w, pc, node)
    BY <1>10 DEF Provision, RunInstances, LaunchFails, WaitForRunning, RunProvision, BootFails,
       TerminateBestEffort
  <2> QED
    BY <1>5, <2>2, <2>3 DEF PCs, ProvisionPCs
<1>11. CASE MarkReady(w) \/ Fail(w) \/ MarkTerminated(w) \/ GetFails(w)
  BY <1>4, <1>11 DEF MarkReady, Fail, MarkTerminated, GetFails
<1>12. CASE GetForTerminate(w)
  <2> DEFINE i == rows[s].instance_id
  <2>1. UNCHANGED <<rows, instances>> /\ workers[w].task \in Deletes
    BY <1>1, <1>2, <1>12, SessionsOfWorkers DEF GetForTerminate, IsProvision, Requests
  <2>2. \/ ReturnNil(w)
        \/ i = Nil /\ Goto(w, "mark", i)
        \/ i # Nil /\ Goto(w, "terminate", i)
    BY <1>3, <1>12 DEF GetForTerminate
  <2>3. i = Nil => Live(s)' = {}
    BY <1>7, <2>1, DeploymentAssumption DEF Live, LaunchedFor
  <2>4. {"mark", "terminate"} \subseteq PCs \ ({"idle"} \cup ProvisionPCs)
    BY DEF PCs, ProvisionPCs, TerminatePCs
  <2>5. CASE i = Nil /\ Goto(w, "mark", i)
    BY <1>5, <2>3, <2>4, <2>5
  <2>6. CASE i # Nil /\ Goto(w, "terminate", i)
    <3>1. rows'[s].instance_id = i
      BY <2>1
    <3> QED
      BY <1>5, <2>4, <2>6, <3>1
  <2> QED
    BY <1>4, <2>2, <2>5, <2>6
<1>13. CASE TerminateNode(w)
  <2> DEFINE i == workers[w].node
  <2>1. /\ workers[w].pc = "terminate" /\ Goto(w, "mark", Nil) /\ instances' = Terminated(i)
        /\ UNCHANGED rows
    BY <1>6, <1>13 DEF TerminateNode, TerminateInstances
  <2>2. rows[s].instance_id = i /\ workers[w].task \in Deletes
    BY <1>1, <1>2, <1>3, <2>1 DEF HandlerMatchesStatus, TypeInv, HandlersHaveTasks, TerminatePCs
  <2>3. Live(s) \subseteq {i}
    BY <1>7, <2>2
  <2>4. Live(s)' = {}
    BY <1>1, <2>1, <2>3 DEF Live, LaunchedFor, Terminated, TypeInv, TypeOK, Ec2TypeOK, Instance
  <2>5. "mark" \in PCs \ ({"idle"} \cup ProvisionPCs)
    BY DEF PCs, ProvisionPCs, TerminatePCs
  <2> QED
    BY <1>5, <2>1, <2>4, <2>5
<1> QED
  BY <1>8, <1>9, <1>10, <1>11, <1>12, <1>13 DEF HandlerStep

LEMMA ApiMatch ==
  ASSUME PatientInv, NEW r \in Requests, Api(r)
  PROVE  HandlersMatchStatus'
<1>1. TenantInv /\ NodeInv /\ TypeInv
  BY DEF PatientInv, TenantInv
<1>2. /\ UNCHANGED <<workers, instances>> /\ KeepsRecords
      /\ \A v \in Workers : Busy(v) => SessionOf(v)' = SessionOf(v)
  BY <1>1, ApiFacts, ApiKeepsRecords
<1>3. SUFFICES ASSUME NEW v \in Workers, workers[v].pc \notin {"idle", "get"}
               PROVE  HandlerMatchesStatus(v)'
  <2>1. ASSUME NEW v \in Workers, workers[v].pc \in {"idle", "get"}
        PROVE  HandlerMatchesStatus(v)'
    BY <1>2, <2>1 DEF HandlerMatchesStatus, ProvisionPCs
  <2> QED
    BY <2>1 DEF HandlersMatchStatus
<1>4. HandlerMatchesStatus(v) /\ Busy(v)
  BY <1>3 DEF PatientInv, HandlersMatchStatus, Busy
<1>5. PICK s \in Sessions : s = SessionOf(v)
  BY <1>1, <1>4, SessionsOfWorkers
<1>6. workers[v].pc \in ProvisionPCs => rows'[s].status = rows[s].status
  <2>1. SUFFICES ASSUME workers[v].pc \in ProvisionPCs, rows'[s].status # rows[s].status
                 PROVE  FALSE
    OBVIOUS
  <2>2. rows[s].status \in {"pending", "provisioning"}
    BY <1>4, <1>5, <2>1 DEF HandlerMatchesStatus
  <2>3. SetTerminating(r) /\ requests[r].session = s
    BY <1>1, <2>1, <2>2, ApiWrites DEF Exists
  <2>4. r \in Deletes
    BY <1>1, <2>3 DEF SetTerminating, TypeInv, TasksHaveSessions, Requests
  <2> QED
    BY <2>2, <2>3, <2>4 DEF SetTerminating, PatientInv, DeletesComeLate
<1>7. rows'[s].instance_id = rows[s].instance_id /\ Live(s)' \subseteq Live(s)
  BY <1>2 DEF KeepsRecords, Live, LaunchedFor
<1> QED
  BY <1>2, <1>4, <1>5, <1>6, <1>7, MatchFrame

LEMMA NextHandlersMatch ==
  ASSUME {"lease", "ec2"} \cap Faults = {}, PatientInv, [Next]_vars
  PROVE  HandlersMatchStatus'
<1>1. TypeInv
  BY DEF PatientInv, TenantInv
<1>2. ASSUME UNCHANGED <<rows, instances>>,
             \A v \in Workers : workers'[v].pc \notin {"idle", "get"} =>
               /\ workers'[v].pc = workers[v].pc
               /\ workers'[v].node = workers[v].node
               /\ SessionOf(v)' = SessionOf(v)
      PROVE  HandlersMatchStatus'
  <2>1. ASSUME NEW v \in Workers
        PROVE  HandlerMatchesStatus(v)'
    <3>1. PICK s : s = SessionOf(v)
      OBVIOUS
    <3>2. HandlerMatchesStatus(v) /\ Live(s)' \subseteq Live(s)
      BY <1>2 DEF PatientInv, HandlersMatchStatus, Live, LaunchedFor
    <3> QED
      BY <1>2, <3>1, <3>2, MatchFrame
  <2> QED
    BY <2>1 DEF HandlersMatchStatus
<1>3. CASE UNCHANGED vars
  BY <1>2, <1>3 DEF vars, SessionOf
<1>4. CASE Queue
  BY <1>1, <1>2, <1>4, QueueFacts DEF Queue
<1>5. ASSUME NEW r \in Requests, Api(r)
      PROVE  HandlersMatchStatus'
  BY <1>5, ApiMatch
<1>6. ASSUME NEW w \in Workers, HandlerStep(w)
      PROVE  HandlersMatchStatus'
  <2>1. /\ Busy(w)
        /\ \A v \in Workers \ {w} : workers'[v] = workers[v]
        /\ \A v \in Workers : Busy(v)' => Busy(v) /\ SessionOf(v)' = SessionOf(v)
    BY <1>1, <1>6, HandlerFrame
  <2>2. ASSUME NEW v \in Workers \ {w}, workers'[v].pc \notin {"idle", "get"}
        PROVE  HandlerMatchesStatus(v)'
    <3>1. /\ workers'[v] = workers[v] /\ SessionOf(v)' = SessionOf(v)
          /\ Busy(v) /\ HandlerMatchesStatus(v)
      BY <2>1, <2>2 DEF Busy, PatientInv, HandlersMatchStatus
    <3>2. PICK s \in Sessions : s = SessionOf(v)
      BY <1>1, <3>1, SessionsOfWorkers
    <3>3. CASE SessionOf(w) # s
      <4>1. Same(s)
        BY <1>6, <3>3, HandlerEffect DEF EffectOfWorker, Quiet, Only
      <4>2. /\ rows'[s].status = rows[s].status
            /\ rows'[s].instance_id = rows[s].instance_id
            /\ Live(s)' \subseteq Live(s)
        BY <4>1 DEF Same, Moves
      <4> QED
        BY <3>1, <3>2, <4>2, MatchFrame
    <3>4. CASE workers[w].pc = "get"
      <4>1. UNCHANGED <<rows, instances>>
        BY <1>6, <3>4 DEF HandlerStep, GetFails, GetForProvision, GetForTerminate, Claim, Provision,
           RunInstances, LaunchFails, WaitForRunning, RunProvision, BootFails, TerminateBestEffort,
           MarkReady, Fail, TerminateNode, MarkTerminated
      <4>2. Live(s)' \subseteq Live(s)
        BY <4>1 DEF Live, LaunchedFor
      <4> QED
        BY <3>1, <3>2, <4>1, <4>2, MatchFrame
    <3>5. CASE SessionOf(w) = s /\ workers[w].pc # "get"
      <4>1. workers[v].pc \in TerminatePCs /\ workers[w].pc \in TerminatePCs
        BY <2>1, <2>2, <3>1, <3>2, <3>5, HandlersOnOneSession DEF Busy
      <4>2. workers[w].pc \notin ProvisionPCs /\ workers[v].pc \notin ProvisionPCs
        BY <4>1 DEF ProvisionPCs, TerminatePCs
      <4>3. TerminateNode(w) \/ MarkTerminated(w)
        BY <1>6, <3>5, <4>2 DEF HandlerStep, GetFails, GetForProvision, GetForTerminate, Claim,
           Provision, RunInstances, LaunchFails, WaitForRunning, RunProvision, BootFails,
           TerminateBestEffort, MarkReady, Fail, ProvisionPCs
      <4>4. UNCHANGED instances \/ \E i : instances' = Terminated(i)
        BY <4>3 DEF TerminateNode, TerminateInstances, MarkTerminated
      <4>5. Live(s)' \subseteq Live(s)
        BY <1>1, <4>4, LiveShrinks
      <4>6. KeepsRecords
        <5>1. \A x \in Workers : ~MarkReady(x)
          <6>1. ASSUME NEW x \in Workers, MarkReady(x)
                PROVE  FALSE
            <7>1. workers[x].pc = "ready" /\ workers'[x].pc = "idle"
              BY <1>1, <6>1, ReturnFacts DEF MarkReady, Busy
            <7>2. x = w
              BY <2>1, <7>1
            <7> QED
              BY <4>2, <7>1, <7>2 DEF ProvisionPCs
          <6> QED
            BY <6>1
        <5> QED
          BY <5>1, OthersKeepRecords DEF PatientInv
      <4> QED
        BY <3>1, <3>2, <4>2, <4>5, <4>6, MatchFrame DEF KeepsRecords
    <3> QED
      BY <3>3, <3>4, <3>5
  <2>3. ASSUME NEW v \in Workers, workers'[v].pc \in {"idle", "get"}
        PROVE  HandlerMatchesStatus(v)'
    BY <2>3 DEF HandlerMatchesStatus, ProvisionPCs
  <2> QED
    BY <1>6, <2>2, <2>3, OwnMatch DEF HandlersMatchStatus
<1> QED
  BY <1>3, <1>4, <1>5, <1>6 DEF Next, Handlers

-----------------------------------------------------------------------------
(* The contract *)

LEMMA NextEffect ==
  ASSUME {"lease", "ec2"} \cap Faults = {}, PatientInv, [Next]_vars
  PROVE  OneEffect
<1>1. CASE UNCHANGED vars \/ Queue
  BY <1>1, QuietSteps DEF vars, Queue, OneEffect
<1>2. ASSUME NEW r \in Requests, Api(r)
      PROVE  OneEffect
  BY <1>2, ApiEffect
<1>3. ASSUME NEW w \in Workers, HandlerStep(w)
      PROVE  OneEffect
  BY <1>3, HandlerEffect DEF EffectOfWorker, OneEffect
<1> QED
  BY <1>1, <1>2, <1>3 DEF Next, Handlers

LEMMA InitPatientInv == Init => PatientInv
<1> SUFFICES ASSUME Init PROVE PatientInv
  OBVIOUS
<1>1. \A s \in Sessions : rows[s].status = "none" /\ Live(s) = {}
  BY DEF Init, StoreInit, NoRow, Ec2Init, NotLaunched, Live, LaunchedFor
<1>2. /\ \A w \in Workers : workers[w].pc = "idle"
      /\ \A r \in Requests : requests[r].pc = "idle" /\ tasks[r].state = "none"
  BY DEF Init, QueueInit, IdleWorker, NoTask, ServiceInit, NoRequest
<1>3. FailuresAreClean /\ NodesMatchStatus
  BY <1>1, <1>2 DEF FailuresAreClean, NodesMatchStatus
<1>4. DeletesComeLate /\ HandlersMatchStatus
  BY <1>2 DEF DeletesComeLate, HandlersMatchStatus, HandlerMatchesStatus, ProvisionPCs, Requests
<1> QED
  BY <1>3, <1>4, InitTenantInv, InitNodeInv, InitLaunchInv DEF PatientInv

LEMMA NextPatientInv ==
  ASSUME PatientClients, {"lease", "ec2"} \cap Faults = {}, PatientInv, [Next]_vars
  PROVE  PatientInv'
<1>1. TenantInv' /\ NodeInv' /\ LaunchInv'
  BY NextTenantInv, NextNodeInv, NextLaunchInv DEF PatientInv
<1>2. FailuresAreClean' /\ DeletesComeLate' /\ HandlersMatchStatus'
  BY NextFailuresClean, NextDeletesLate, NextHandlersMatch DEF PatientInv
<1>3. NodesMatchStatus'
  BY NextEffect, EffectKeepsNodes DEF PatientInv
<1> QED
  BY <1>1, <1>2, <1>3 DEF PatientInv

(* With patient clients DELETE and provisioning of a session never overlap,  *)
(* and what runs is what the status says, as long as AWS calls fail cleanly  *)
(* and no worker outlives its lease.                                         *)
THEOREM PatientInvariant ==
  ASSUME PatientClients, {"lease", "ec2"} \cap Faults = {}
  PROVE  Spec => []PatientInv
<1>1. PatientInv /\ [Next]_vars => PatientInv'
  BY NextPatientInv
<1> QED
  BY <1>1, InitPatientInv, PTL DEF Spec

(* Under the same assumptions the control plane implements SessionContract:  *)
(* through boots that fail, statements and enqueues that fail, clients that  *)
(* hang up, crashes, shutdowns and retries, for any number of each part.     *)
THEOREM ImplementsContract ==
  ASSUME PatientClients, {"lease", "ec2"} \cap Faults = {}
  PROVE  Spec => ContractSpec
<1>1. Init => Contract!Init
  <2>1. Init => Status = [s \in Sessions |-> "none"] /\ Nodes = [s \in Sessions |-> {}]
    BY DEF Init, StoreInit, NoRow, Ec2Init, NotLaunched, Live, LaunchedFor, Status, Nodes
  <2> QED
    BY <2>1 DEF Contract!Init
<1>2. PatientInv /\ [Next]_vars => [Contract!Next]_<<Status, Nodes>>
  BY NextEffect, EffectIsContractStep
<1>3. Spec => []PatientInv
  BY PatientInvariant
<1> QED
  BY <1>1, <1>2, <1>3, PTL DEF Spec, ContractSpec, Contract!Spec

(* And a session shows ready only with its one node running; nothing runs    *)
(* for a session that has not started or has ended.                          *)
THEOREM BillingIsRight ==
  ASSUME PatientClients, {"lease", "ec2"} \cap Faults = {}
  PROVE  Spec => []BillingMatchesStatus
<1>1. ASSUME PatientInv
      PROVE  BillingMatchesStatus
  <2>1. ASSUME NEW s \in Sessions
        PROVE  /\ Status[s] = "ready" => \E i \in Instances : Nodes[s] = {i}
               /\ Status[s] \in {"none", "pending", "error", "terminated"} => Nodes[s] = {}
    <3>1. Status[s] = rows[s].status /\ Nodes[s] = Live(s)
      BY DEF Status, Nodes
    <3>2. rows[s].status = "ready" => \E i \in Instances : Live(s) = {i}
      BY <1>1, OneLive DEF PatientInv, NodesMatchStatus, Live, LaunchedFor
    <3>3. rows[s].status \in {"none", "pending", "error", "terminated"} => Live(s) = {}
      BY <1>1 DEF PatientInv, NodesMatchStatus
    <3> QED
      BY <3>1, <3>2, <3>3
  <2> QED
    BY <2>1 DEF BillingMatchesStatus, Contract!BillingMatchesStatus
<1>2. Spec => []PatientInv
  BY PatientInvariant
<1> QED
  BY <1>1, <1>2, PTL

-----------------------------------------------------------------------------
(* What a completed teardown is worth to a patient client                    *)

(* Nothing is launched for a session that a DELETE got hold of.              *)
LEMMA NoLaunchAfterDelete ==
  ASSUME PatientInv, [Next]_vars, NEW s \in Sessions,
         rows[s].status \in {"terminating", "terminated"}
  PROVE  Live(s)' \subseteq Live(s)
<1>1. TypeInv
  BY DEF PatientInv, NodeInv
<1>2. CASE UNCHANGED instances
  BY <1>1, <1>2, LiveShrinks
<1>3. ASSUME NEW w \in Workers, Provision(w)
      PROVE  Live(s)' \subseteq Live(s)
  <2>1. CASE UNCHANGED instances \/ \E i : instances' = Terminated(i)
    BY <1>1, <2>1, LiveShrinks
  <2>2. ASSUME NEW i \in Instances, instances' = Launched(i, SessionOf(w)),
               workers[w].pc = "launch"
        PROVE  Live(s)' \subseteq Live(s)
    <3>1. rows[SessionOf(w)].status = "provisioning"
      BY <2>2 DEF PatientInv, HandlersMatchStatus, HandlerMatchesStatus, ProvisionPCs
    <3> QED
      BY <1>1, <2>2, <3>1, LiveGrows
  <2> QED
    BY <1>3, <2>1, <2>2 DEF Provision, RunInstances, LaunchFails, WaitForRunning, RunProvision,
       BootFails, TerminateBestEffort, TerminateInstances, Free
<1>4. ASSUME NEW w \in Workers, TerminateNode(w)
      PROVE  Live(s)' \subseteq Live(s)
  BY <1>1, <1>4, LiveShrinks DEF TerminateNode, TerminateInstances
<1> QED
  BY <1>2, <1>3, <1>4 DEF Next, vars, Api, Queue, Handlers, HandlerStep, GetFails, GetForProvision,
     Claim, MarkReady, Fail, GetForTerminate, MarkTerminated

(* A terminate task is completed by SetSessionTerminated alone, and then its *)
(* node has been stopped.                                                    *)
LEMMA CompletedTeardowns ==
  ASSUME PatientInv, [Next]_vars, NEW t \in Deletes, tasks'[t].state = "completed"
  PROVE  /\ tasks[t].state # "none" /\ tasks'[t].session = tasks[t].session
         /\ \A s : tasks[t].session = s => (tasks[t].state = "completed" \/ Live(s)' = {})
<1>1. TypeInv /\ LaunchInv /\ t \in Requests /\ t \notin Creates /\ tasks \in [Requests -> Task]
  BY DeploymentAssumption DEF PatientInv, LaunchInv, TypeInv, TypeOK, QueueTypeOK, Requests
<1>2. CASE tasks'[t] = tasks[t]
  BY <1>2
<1>3. ASSUME NEW r \in Requests, Api(r)
      PROVE  tasks'[t] = tasks[t]
  <2>1. CASE t # r
    BY <1>1, <1>3, <2>1, ApiFrameOfOthers
  <2>2. CASE tasks' = tasks
    BY <2>2
  <2>3. CASE tasks' = Enqueued(r, requests[r].session)
    BY <1>1, <2>1, <2>3 DEF Enqueued
  <2> QED
    BY <1>3, <2>1, <2>2, <2>3 DEF Api, RequestStep, Authenticate, RejectBody, InsertSession,
       LookupSession, SetTerminating, EnqueueTask, CrashRequest
<1>4. CASE Queue
  <2>1. ASSUME NEW x \in Requests, tasks' = Retried(x)
        PROVE  tasks'[t] = tasks[t]
    BY <1>1, <2>1, RetriedFacts
  <2>2. ASSUME NEW x, NEW st \in {"active", "pending"}, tasks' = [tasks EXCEPT ![x].state = st]
        PROVE  tasks'[t] = tasks[t]
    BY <1>1, <2>2 DEF Task
  <2> QED
    BY <1>2, <1>4, <2>1, <2>2 DEF Queue, Dequeue, CrashWorker, ShutdownWorker, LoseLease, Recover
<1>5. ASSUME NEW w \in Workers, HandlerStep(w)
      PROVE  /\ tasks'[t].session = tasks[t].session
             /\ tasks'[t] = tasks[t] \/ (MarkTerminated(w) /\ workers[w].task = t)
  <2>1. /\ workers[w].task \in Requests
        /\ \A x \in Requests \ {workers[w].task} : tasks'[x] = tasks[x]
        /\ \/ UNCHANGED tasks
           \/ tasks' = [tasks EXCEPT ![workers[w].task].state = "completed"]
           \/ tasks' = Retried(workers[w].task)
    BY <1>1, <1>5, HandlerReturns
  <2>2. CASE t # workers[w].task \/ UNCHANGED tasks
    BY <1>1, <2>1, <2>2
  <2>3. CASE tasks' = Retried(workers[w].task)
    BY <1>1, <2>1, <2>3, RetriedFacts
  <2>4. CASE t = workers[w].task /\ tasks' = [tasks EXCEPT ![t].state = "completed"] /\ ~UNCHANGED tasks
    <3>1. tasks'[t].session = tasks[t].session
      BY <1>1, <2>4 DEF Task
    <3>2. ~ReturnErr(w)
      BY <1>1, <2>1, <2>4, RetriedFacts DEF ReturnErr
    <3>3. workers[w].pc \notin ProvisionPCs
      BY <1>1, <2>4, HandlerFrame, <1>5 DEF TypeInv, HandlersHaveTasks
    <3>4. ~GetForTerminate(w)
      <4>1. tasks[t].state # "none" /\ requests[t].session = tasks[t].session
        BY <1>1, <1>5, <2>4, HandlerFrame DEF TypeInv, HandlersHaveTasks, TasksHaveSessions
      <4>2. Exists(SessionOf(w))
        BY <2>4, <4>1 DEF PatientInv, DeletesComeLate, Exists, SessionOf
      <4> QED
        BY <2>4, <4>2 DEF GetForTerminate, Goto
    <3> QED
      BY <1>1, <1>5, <2>4, <3>1, <3>2, <3>3, <3>4
      DEF HandlerStep, GetFails, GetForProvision, Claim, Exec, Provision, RunInstances, LaunchFails,
          WaitForRunning, RunProvision, BootFails, TerminateBestEffort, MarkReady, Fail,
          TerminateNode, ProvisionPCs, Goto, IsProvision
  <2> QED
    BY <2>1, <2>2, <2>3, <2>4
<1>6. ASSUME NEW w \in Workers, MarkTerminated(w), workers[w].task = t
      PROVE  tasks[t].state # "none" /\ \A s : tasks[t].session = s => Live(s)' = {}
  <2>1. workers[w].pc = "mark" /\ UNCHANGED instances
    BY <1>6 DEF MarkTerminated
  <2>2. tasks[t].state # "none" /\ SessionOf(w) = tasks[t].session
    BY <1>1, <1>6, <2>1 DEF TypeInv, HandlersHaveTasks, Busy, SessionOf
  <2>3. Live(SessionOf(w)) = {}
    BY <2>1 DEF PatientInv, HandlersMatchStatus, HandlerMatchesStatus
  <2>4. ASSUME NEW s, tasks[t].session = s
        PROVE  Live(s)' = {}
    BY <2>1, <2>2, <2>3, <2>4 DEF Live, LaunchedFor
  <2> QED
    BY <2>2, <2>4
<1> QED
  BY <1>2, <1>3, <1>4, <1>5, <1>6 DEF Next, vars, Handlers

(* For patient clients a completed teardown has stopped the session's node,  *)
(* and none is started again: through crashes, shutdowns, retries, failing   *)
(* statements and clients that hang up, as long as AWS calls fail cleanly    *)
(* and no worker outlives its lease.                                         *)
THEOREM TeardownsStop ==
  ASSUME PatientClients, {"lease", "ec2"} \cap Faults = {}
  PROVE  Spec => []TeardownsStopNodes
<1>1. Init => TeardownsStopNodes
  BY DEF Init, QueueInit, NoTask, TeardownsStopNodes, TornDown, Requests
<1>2. ASSUME PatientInv, TeardownsStopNodes, [Next]_vars
      PROVE  TeardownsStopNodes'
  <2>1. ASSUME NEW s \in Sessions, NEW t \in Deletes,
               tasks'[t].session = s, tasks'[t].state = "completed"
        PROVE  Live(s)' = {}
    <3>1. /\ tasks[t].state # "none" /\ tasks[t].session = s
          /\ tasks[t].state = "completed" \/ Live(s)' = {}
      BY <1>2, <2>1, CompletedTeardowns
    <3>2. rows[s].status \in {"terminating", "terminated"}
      BY <1>2, <3>1 DEF PatientInv, DeletesComeLate, LaunchInv, TypeInv, TasksHaveSessions, Requests
    <3>3. CASE tasks[t].state = "completed"
      BY <1>2, <3>1, <3>2, <3>3, NoLaunchAfterDelete DEF TeardownsStopNodes, TornDown
    <3> QED
      BY <3>1, <3>3
  <2> QED
    BY <2>1 DEF TeardownsStopNodes, TornDown
<1> QED
  BY <1>1, <1>2, PatientInvariant, PTL DEF Spec

(* So where nothing but boots and scripts fails, a deployment with patient   *)
(* clients does not rest while a session runs whose DELETE was answered 202. *)
THEOREM RestingCostsNothing ==
  ASSUME PatientClients, {"lease", "ec2", "db", "redis", "hangup", "crash"} \cap Faults = {}
  PROVE  Spec => []RestCostsNothing
<1>1. TeardownsStopNodes /\ RestIsSettled /\ TypeInv => RestCostsNothing
  <2> SUFFICES ASSUME TeardownsStopNodes, RestIsSettled, TypeInv, AtRest,
                      NEW r \in Deletes, requests[r].response = "202"
               PROVE  Live(requests[r].session) = {}
    BY DEF RestCostsNothing
  <2>1. PICK t \in Deletes : tasks[t].session = requests[r].session /\ tasks[t].state = "completed"
    BY DEF RestIsSettled, TornDown
  <2>2. requests[r].session \in Sessions
    BY <2>1 DEF TypeInv, TasksHaveSessions, Requests
  <2> QED
    BY <2>1, <2>2 DEF TeardownsStopNodes, TornDown
<1>2. Spec => []TeardownsStopNodes
  BY TeardownsStop
<1>3. Spec => []RestIsSettled
  BY RestingIsSettled
<1>4. Spec => []TypeInv
  BY InitTypeInv, NextTypeInv, PTL DEF Spec
<1> QED
  BY <1>1, <1>2, <1>3, <1>4, PTL
=============================================================================
