---------------------------- MODULE ControlPlane ----------------------------
(* The API, the queue, the orchestrators and EC2 together.                   *)
EXTENDS SessionService, Orchestrator

vars == <<users, rows, requests, tasks, workers, instances>>

Init ==
  /\ UserInit
  /\ StoreInit
  /\ ServiceInit
  /\ QueueInit
  /\ Ec2Init

Api(r) ==
  /\ Authenticate(r) \/ RequestStep(r) \/ CrashRequest(r)
  /\ UNCHANGED instances

Queue ==
  /\ \/ \E w \in Workers, t \in Requests : Dequeue(w, t)
     \/ \E w \in Workers : CrashWorker(w) \/ ShutdownWorker(w) \/ LoseLease(w)
     \/ \E t \in Requests : Recover(t)
  /\ UNCHANGED <<users, rows, requests, instances>>

Handlers == \E w \in Workers : HandlerStep(w) /\ UNCHANGED <<users, requests>>

Next == (\E r \in Requests : Api(r)) \/ Queue \/ Handlers

Spec == Init /\ [][Next]_vars

(* A request that has arrived is carried on, an idle worker takes a waiting  *)
(* task, a handler goes on (waitForRunning and the script run are bounded by *)
(* timeouts), and the recoverer runs once a minute. Nothing makes a request  *)
(* arrive or a failure happen.                                               *)
Fairness ==
  /\ \A r \in Requests : WF_vars(RequestStep(r) /\ UNCHANGED instances)
  /\ \A w \in Workers :
       /\ WF_vars(HandlerStep(w) /\ UNCHANGED <<users, requests>>)
       /\ WF_vars((\E t \in Requests : Dequeue(w, t)) /\ UNCHANGED <<users, rows, requests, instances>>)
  /\ \A t \in Requests : WF_vars(Recover(t) /\ UNCHANGED <<users, rows, requests, instances>>)

FairSpec == Spec /\ Fairness

-----------------------------------------------------------------------------
(* Safety *)

(* Every variable keeps its type, and no task is retried more often than the *)
(* MaxRetry of its own kind allows (QueueTypeOK).                            *)
TypeOK == UserTypeOK /\ StoreTypeOK /\ ServiceTypeOK /\ QueueTypeOK /\ Ec2TypeOK

LaunchedFor(s) == {i \in Instances : instances[i].session = s}
Live(s) == {i \in LaunchedFor(s) : instances[i].state = "live"}

(* EC2 is asked for an instance at most once per session, whatever fails and *)
(* however often the provision task is retried (handleProvision's status     *)
(* check), as long as no worker outlives its lease.                          *)
AtMostOneLaunch ==
  \A i, j \in Instances :
    instances[i].session = instances[j].session /\ instances[i].session # Nil => i = j

(* Even with workers that outlive their leases a session costs at most one   *)
(* launch per attempt that asynq counts.                                     *)
LaunchesWithinBudget ==
  \A s \in Sessions : Cardinality(LaunchedFor(s)) <= ProvisionMaxRetry + 1

(* A session shown as error has no instance running: every error return of   *)
(* Provision after RunInstances has terminated the instance before fail      *)
(* writes the status, also when a DELETE of the session overtakes it.        *)
ErrorLeavesNothingRunning ==
  \A s \in Sessions : rows[s].status = "error" => Live(s) = {}

(* Once SetSessionReady has recorded an instance, no later statement, retry  *)
(* or DELETE changes the record: it is the only handle for the teardown.     *)
RecordedForGood ==
  [][\A s \in Sessions :
       rows[s].instance_id # Nil => rows'[s].instance_id = rows[s].instance_id]_rows

(* A running instance is known to somebody: its id is in its session's row,  *)
(* or a handler that will record or terminate it holds it.                   *)
NoLostInstance ==
  \A s \in Sessions : \A i \in Live(s) :
    \/ rows[s].instance_id = i
    \/ \E w \in Workers : workers[w].node = i /\ SessionOf(w) = s

(* The Clerk subject that POSTed session s.                                  *)
PostedBy(s, c) == \E p \in Creates : requests[p].session = s /\ requests[p].subject = c

(* A recorded instance is terminated only when a DELETE of its session has   *)
(* got through to the queue that carried the token of the subject who POSTed *)
(* it: not by another tenant's DELETE, not by the cleanup of another         *)
(* session's failed provisioning.                                            *)
OnlyOwnerStopsNode ==
  [][\A s \in Sessions : \A i \in Live(s) :
       rows[s].instance_id = i /\ instances'[i].state # "live" =>
         \E r \in Deletes : /\ tasks[r].state # "none" /\ tasks[r].session = s
                            /\ PostedBy(s, requests[r].subject)]_vars

(* Clerk subjects meet sessions only through ids the users table drew, also  *)
(* when a subject's first requests race to create its row: a DELETE is never *)
(* answered 404 to the subject that POSTed the session, and never goes       *)
(* through, or finds the session gone already, for any other.                *)
TenantsKeptApart ==
  [][\A r \in Deletes :
       requests[r].pc = "authed" /\ requests'[r].pc # "authed" =>
         LET s == requests'[r].session
             mine == Exists(s) /\ PostedBy(s, requests[r].subject)
         IN /\ requests'[r].response = "404" => ~mine
            /\ requests'[r].pc = "set" \/ requests'[r].response = "202" => mine]_vars

(* A row that waits for something has what will move it on: pending its      *)
(* provision task, terminating a terminate task, enqueued or about to be,    *)
(* provisioning the handler that is at it.                                   *)
HasJob(s, kind) ==
  \E r \in kind : /\ requests[r].session = s
                  /\ \/ requests[r].pc = "enqueue"
                     \/ tasks[r].state \in {"pending", "active"}

HasHandler(s) == \E w \in Workers : workers[w].pc \in ProvisionPCs /\ SessionOf(w) = s

JobsBehindRows ==
  \A s \in Sessions :
    /\ rows[s].status = "pending" => HasJob(s, Creates)
    /\ rows[s].status = "terminating" => HasJob(s, Deletes)
    /\ rows[s].status = "provisioning" => HasHandler(s)

(* Request r will move its session's row on, or has left a trace for whoever *)
(* has to: its task is in asynq's archive, or its client was not told 202.   *)
AccountsFor(r) ==
  \/ requests[r].pc = "enqueue"
  \/ tasks[r].state \in {"pending", "active", "archived"}
  \/ requests[r].pc = "done" /\ requests[r].response \in {"400", "500", Nil}

(* Whatever fails, no row waits for a task in silence. A row may be left     *)
(* pending or terminating without anything to move it on, but only behind a  *)
(* request that was not accepted, or a task that used up its retries.        *)
OrphansAreReported ==
  \A s \in Sessions :
    /\ rows[s].status = "pending" =>
         \E r \in Creates : requests[r].session = s /\ AccountsFor(r)
    /\ rows[s].status = "terminating" =>
         \E r \in Deletes : requests[r].session = s /\ AccountsFor(r)

-----------------------------------------------------------------------------
(* What a session looks like from outside                                    *)

Status == [s \in Sessions |-> rows[s].status]
Nodes  == [s \in Sessions |-> Live(s)]

Contract == INSTANCE SessionContract WITH
  status <- Status,
  nodes  <- Nodes

(* With patient clients the control plane implements SessionContract: the    *)
(* lifecycle pending, provisioning, ready or error, terminating, terminated, *)
(* one node at most, through retries, crashes and failed calls.              *)
ContractSpec == Contract!Spec

(* The same, as the contract states it for one moment: ready means one node  *)
(* running, terminated and error mean none.                                  *)
BillingMatchesStatus == Contract!BillingMatchesStatus

-----------------------------------------------------------------------------
(* What becomes of a session's node                                          *)

(* A teardown of s that the subject who POSTed it asked for is in the queue, *)
(* or was.                                                                   *)
Deleted(s) ==
  \E t \in Deletes : /\ tasks[t].state # "none" /\ tasks[t].session = s
                     /\ PostedBy(s, requests[t].subject)

Running == {i \in Instances : instances[i].state = "live"}
LaunchedNodes == [s \in Sessions |-> LaunchedFor(s)]
Handles == [s \in Sessions |-> rows[s].instance_id]
DeletedSessions == [s \in Sessions |-> Deleted(s)]

Node == INSTANCE NodeContract WITH
  launched <- LaunchedNodes,
  running  <- Running,
  handle   <- Handles,
  deleted  <- DeletedSessions

(* As long as no worker outlives its lease the control plane implements      *)
(* NodeContract, whatever its clients DELETE and whatever fails: statements, *)
(* enqueues, AWS calls, boots and processes.                                 *)
NodeSpec == Node!Spec

(* A session shown as ready whose owner has not had it deleted has exactly   *)
(* one node running, the one its row names: no failure, retry, cleanup or    *)
(* other tenant has stopped or doubled it.                                   *)
ReadyMeansRunning ==
  \A s \in Sessions :
    rows[s].status = "ready" /\ ~Deleted(s) => Live(s) = {rows[s].instance_id}

-----------------------------------------------------------------------------
(* What the orchestrator's calls into the provider look like                 *)

(* Worker w's Provision call: handleProvision is inside it from its claim on *)
(* until it records the outcome.                                             *)
CallOf(w) ==
  [state |-> CASE workers[w].pc \in {"launch", "boot", "script", "cleanup"} -> "provisioning"
               [] workers[w].pc = "ready" -> "returned"
               [] workers[w].pc = "fail" -> "failed"
               [] OTHER -> "none",
   node  |-> IF workers[w].pc \in {"boot", "script", "cleanup", "ready"}
             THEN workers[w].node ELSE Nil]

Calls == [w \in Workers |-> CallOf(w)]

Provider == INSTANCE ProviderContract WITH
  Callers <- Workers,
  Nodes   <- Instances,
  calls   <- Calls,
  running <- Running

(* As long as EC2 itself does as it says and no worker outlives its lease,   *)
(* aws_managed under the orchestrator implements ProviderContract: through   *)
(* boots that fail, handlers that die inside a call, retries, and teardowns  *)
(* by other workers at any time.                                             *)
ProviderSpec == Provider!Spec

-----------------------------------------------------------------------------
(* Liveness *)

Settled(s) == rows[s].status \in {"ready", "error", "terminated"}

(* Every session that gets a row ends up, and stays, in a status nothing     *)
(* will change any more, however its provisioning and its DELETEs interleave.*)
Settles == \A s \in Sessions : Exists(s) ~> []Settled(s)

(* A DELETE answered 202 is followed by a completed teardown of the session: *)
(* by its own task, or, if it was answered 202 because another DELETE came   *)
(* before it and so has no task, by that one's.                              *)
DeleteCompletes ==
  \A r \in Deletes, s \in Sessions :
    requests[r].response = "202" /\ requests[r].session = s
      ~> \E t \in Deletes : /\ tasks[t].session = s /\ tasks[t].state = "completed"
                            /\ tasks[r].state = "none" \/ t = r

(* After a DELETE answered 202 the session's instances stop running.         *)
DeleteStopsNodes ==
  \A r \in Deletes, s \in Sessions :
    requests[r].response = "202" /\ requests[r].session = s ~> Live(s) = {}

(* A session does not stay in provisioning: the queue retries what failed.   *)
ProvisioningEnds ==
  \A s \in Sessions : rows[s].status = "provisioning" ~> rows[s].status # "provisioning"
-----------------------------------------------------------------------------
(* What is left of the liveness properties without fairness: the deployment  *)
(* comes to rest, and where it rests all is settled.                         *)

(* No request is under way and no task is left in the queue.                 *)
AtRest ==
  /\ \A r \in Requests : requests[r].pc \in {"idle", "done"}
  /\ \A t \in Requests : tasks[t].state \notin {"pending", "active"}

TornDown(s) == \E t \in Deletes : tasks[t].session = s /\ tasks[t].state = "completed"

(* A completed teardown has stopped what its session had running, and        *)
(* nothing is launched for the session afterwards.                           *)
TeardownsStopNodes == \A s \in Sessions : TornDown(s) => Live(s) = {}

(* The deployment never rests while a session waits or is half provisioned,  *)
(* or a DELETE answered 202 has had no complete teardown.                    *)
RestIsSettled ==
  AtRest =>
    /\ \A s \in Sessions : Exists(s) => Settled(s)
    /\ \A r \in Deletes : requests[r].response = "202" => TornDown(requests[r].session)

(* What is left of DeleteStopsNodes at rest.                                 *)
RestCostsNothing ==
  AtRest => \A r \in Deletes : requests[r].response = "202" => Live(requests[r].session) = {}

(* The steps request r's goroutine, its task and the task's handler have     *)
(* left at most: what is left of the request, an attempt for each retry the  *)
(* budget still has, and the calls the handler has yet to make.              *)
RequestWork(r) ==
  CASE requests[r].pc = "idle" -> 4
    [] requests[r].pc = "authed" -> 3
    [] requests[r].pc = "set" -> 2
    [] requests[r].pc = "enqueue" -> 1
    [] requests[r].pc = "done" -> 0

HandlerWork(pc) ==
  CASE pc = "get" -> 9
    [] pc = "claim" -> 8
    [] pc = "launch" -> 7
    [] pc = "boot" -> 6
    [] pc = "script" -> 5
    [] pc = "cleanup" -> 4
    [] pc = "fail" -> 3
    [] pc \in {"ready", "terminate"} -> 2
    [] pc = "mark" -> 1
    [] pc = "idle" -> 0

AttemptWork == HandlerWork("get") + 1

HandlerOf(t) == CHOOSE w \in Workers : Busy(w) /\ workers[w].task = t

TaskWork(t) ==
  LET retries == BudgetOf(t) - tasks[t].retried
  IN CASE tasks[t].state \in {"none", "pending"} -> (retries + 1) * AttemptWork
       [] tasks[t].state = "active" -> retries * AttemptWork + HandlerWork(workers[HandlerOf(t)].pc)
       [] OTHER -> 0

Work(r) == RequestWork(r) + TaskWork(r)

(* Every step takes something off the work of one request and adds nothing   *)
(* to any other's: no retry, and no handler, goes round in circles ("mark    *)
(* terminated anyway so we don't loop forever").                             *)
WorkShrinks ==
  [][\E r \in Requests :
       /\ Work(r)' \in 0..(Work(r) - 1)
       /\ \A q \in Requests \ {r} : Work(q)' = Work(q)]_vars

=============================================================================
