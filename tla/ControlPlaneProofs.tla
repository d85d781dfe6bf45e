------------------------- MODULE ControlPlaneProofs -------------------------
(* Theorems about every deployment: any number of sessions, users, requests, *)
(* workers and instances, any retry budgets, and the faults each theorem     *)
(* names.                                                                    *)
EXTENDS ControlPlaneInv, TLAPS

-----------------------------------------------------------------------------
(* What the helpers of the components return. *)

(* Every statement of db/queries/sessions.sql, given values of the column    *)
(* types, leaves a well-typed table.                                         *)
LEMMA StatementTypes ==
  ASSUME StoreTypeOK, NEW s
  PROVE  /\ \A st \in Statuses : SetSessionStatus(s, st) \in [Sessions -> Row]
         /\ \A i \in Instances \cup {Nil} : SetSessionReady(s, i) \in [Sessions -> Row]
         /\ SetSessionError(s) \in [Sessions -> Row]
         /\ SetSessionTerminated(s) \in [Sessions -> Row]
         /\ \A u \in Users \cup {Nil}, k \in SKUs : CreateSession(s, u, k) \in [Sessions -> Row]
<1> USE DEF StoreTypeOK, Row, Statuses
<1>1. \A st \in Statuses : SetSessionStatus(s, st) \in [Sessions -> Row]
  BY DEF SetSessionStatus, Updated
<1>2. \A i \in Instances \cup {Nil} : SetSessionReady(s, i) \in [Sessions -> Row]
  BY DEF SetSessionReady, Updated
<1>3. SetSessionError(s) \in [Sessions -> Row]
  BY DEF SetSessionError, Updated
<1>4. SetSessionTerminated(s) \in [Sessions -> Row]
  BY DEF SetSessionTerminated, Updated
<1>5. \A u \in Users \cup {Nil}, k \in SKUs : CreateSession(s, u, k) \in [Sessions -> Row]
  BY DEF CreateSession
<1> QED
  BY <1>1, <1>2, <1>3, <1>4, <1>5

(* A failed attempt leaves every other task alone and keeps its own payload. *)
LEMMA RetriedFacts ==
  ASSUME tasks \in [Requests -> Task], NEW t \in Requests
  PROVE  /\ Retried(t) \in [Requests -> Task]
         /\ \A x \in Requests : Retried(t)[x].session = tasks[x].session
         /\ \A x \in Requests \ {t} : Retried(t)[x] = tasks[x]
         /\ Retried(t)[t].state \in {"pending", "archived"}
<1>1. tasks[t] \in Task /\ tasks[t].retried + 1 \in Nat
  BY DEF Task
<1>2. CASE tasks[t].retried < BudgetOf(t)
  BY <1>1, <1>2 DEF Retried, Task
<1>3. CASE ~(tasks[t].retried < BudgetOf(t))
  BY <1>3 DEF Retried, Task
<1> QED
  BY <1>2, <1>3

LEMMA Budgets == \A t \in Requests : BudgetOf(t) \in Nat
BY DeploymentAssumption DEF BudgetOf

(* It keeps to the budget of its task.                                       *)
LEMMA RetriedWithinBudget ==
  ASSUME tasks \in [Requests -> Task], RetriesWithinBudget, NEW t \in Requests
  PROVE  \A x \in Requests : Retried(t)[x].retried <= BudgetOf(x)
<1>1. tasks[t].retried \in Nat /\ BudgetOf(t) \in Nat
  BY Budgets DEF Task
<1>2. Retried(t)[t].retried <= BudgetOf(t)
  BY <1>1 DEF Retried, Task, RetriesWithinBudget
<1> QED
  BY <1>2, RetriedFacts DEF RetriesWithinBudget

(* What leaves the number of retries alone keeps to the budgets.             *)
LEMMA BudgetsKept ==
  ASSUME RetriesWithinBudget, \A x \in Requests : tasks'[x].retried = tasks[x].retried
  PROVE  RetriesWithinBudget'
BY DEF RetriesWithinBudget, BudgetOf, IsProvision

-----------------------------------------------------------------------------
(* The types and what every handler and task carries, under every fault. *)

(* An empty deployment satisfies the type invariant.                         *)
LEMMA InitTypeInv == Init => TypeInv
<1> USE DEF Init
<1>1. Init => UserTypeOK /\ StoreTypeOK
  BY DEF UserInit, UserTypeOK, StoreInit, StoreTypeOK, Row, NoRow
<1>2. Init => ServiceTypeOK
  BY DEF ServiceInit, ServiceTypeOK, Request, NoRequest
<1>3. Init => QueueTypeOK
  BY DeploymentAssumption
  DEF QueueInit, QueueTypeOK, Task, Worker, NoTask, IdleWorker, PCs, RetriesWithinBudget, BudgetOf
<1>4. Init => Ec2TypeOK
  BY DEF Ec2Init, Ec2TypeOK, Instance, NotLaunched
<1>5. Init => HandlersHaveTasks
  BY DEF QueueInit, HandlersHaveTasks, IdleWorker, Busy
<1>6. Init => TasksHaveSessions
  BY DeploymentAssumption
  DEF ServiceInit, QueueInit, TasksHaveSessions, NoRequest, NoTask, Requests
<1> QED
  BY <1>1, <1>2, <1>3, <1>4, <1>5, <1>6 DEF TypeInv, TypeOK

(* The queue's part of TypeInv. *)
QueueInv == QueueTypeOK /\ HandlersHaveTasks /\ TasksHaveSessions

(* A handler that goes on to another point of its own kind keeps the queue's *)
(* part.                                                                     *)
LEMMA GotoInv ==
  ASSUME QueueInv, NEW w \in Workers, Busy(w),
         NEW pc \in PCs \ {"idle"}, NEW node \in Instances \cup {Nil},
         pc \in ProvisionPCs => workers[w].task \in Creates,
         pc \in TerminatePCs => workers[w].task \in Deletes,
         Goto(w, pc, node), UNCHANGED requests
  PROVE  QueueInv'
<1> USE DEF QueueInv, Goto, QueueTypeOK
<1>1. QueueTypeOK'
  BY BudgetsKept DEF Worker
<1>2. HandlersHaveTasks'
  BY DEF HandlersHaveTasks, Busy, Worker
<1>3. TasksHaveSessions'
  BY DEF TasksHaveSessions
<1> QED
  BY <1>1, <1>2, <1>3

(* A handler that returns, with or without an error, keeps the queue's part: *)
(* only its own task changes, and keeps its session.                         *)
LEMMA ReturnInv ==
  ASSUME QueueInv, NEW w \in Workers, Busy(w), ReturnNil(w) \/ ReturnErr(w),
         UNCHANGED requests
  PROVE  QueueInv'
<1> DEFINE t == workers[w].task
<1> USE DEF QueueInv
<1>1. t \in Requests
  BY DEF HandlersHaveTasks
<1>2. /\ tasks' \in [Requests -> Task]
      /\ \A x \in Requests : /\ tasks'[x].session = tasks[x].session
                             /\ tasks'[x].state # tasks[x].state => x = t /\ tasks'[x].state # "none"
      /\ RetriesWithinBudget'
  <2>1. CASE ReturnNil(w)
    BY <1>1, <2>1, BudgetsKept DEF ReturnNil, QueueTypeOK, Task
  <2>2. CASE tasks' = Retried(t)
    <3>1. RetriesWithinBudget'
      BY <1>1, <2>2, RetriedWithinBudget DEF QueueTypeOK, RetriesWithinBudget, BudgetOf, IsProvision
    <3> QED
      BY <1>1, <2>2, <3>1, RetriedFacts DEF QueueTypeOK
  <2>3. CASE UNCHANGED tasks
    BY <1>1, <2>3, BudgetsKept DEF QueueTypeOK
  <2> QED
    BY <2>1, <2>2, <2>3 DEF ReturnErr
<1>3. workers' = [workers EXCEPT ![w] = IdleWorker]
  BY DEF ReturnNil, ReturnErr
<1>4. QueueTypeOK'
  BY <1>2, <1>3 DEF QueueTypeOK, Worker, IdleWorker, PCs
<1>5. HandlersHaveTasks'
  BY <1>2, <1>3 DEF HandlersHaveTasks, Busy, IdleWorker, QueueTypeOK
<1>6. TasksHaveSessions'
  BY <1>1, <1>2 DEF TasksHaveSessions, HandlersHaveTasks
<1> QED
  BY <1>4, <1>5, <1>6

(* What a request's goroutine writes about itself.                           *)
LEMMA ProceedFacts ==
  ASSUME ServiceTypeOK, NEW r \in Requests,
         NEW pc \in {"idle", "authed", "set", "enqueue", "done"}, NEW s \in Sessions \cup {Nil},
         NEW response \in Responses \cup {Nil}, Proceed(r, pc, s, response)
  PROVE  /\ ServiceTypeOK'
         /\ \A x \in Requests \ {r} : requests'[x] = requests[x]
         /\ requests'[r].pc = pc /\ requests'[r].session = s
         /\ requests'[r].response = response
         /\ requests'[r].subject = requests[r].subject
         /\ requests'[r].user = requests[r].user
  BY DEF ServiceTypeOK, Proceed, Request

(* Every step of a request keeps the type invariant, among them the one that *)
(* creates the task a later handler will find.                               *)
LEMMA ApiTypeInv ==
  ASSUME TypeInv, NEW r \in Requests, Api(r)
  PROVE  TypeInv'
<1> USE DEF TypeInv, TypeOK
<1>1. /\ Ec2TypeOK' /\ requests[r] \in Request
      /\ \A x \in Requests : requests[x].session \in Sessions \cup {Nil}
  BY DEF Api, Ec2TypeOK, ServiceTypeOK, Request
(* Most steps touch neither the queue nor the users.                         *)
<1>2. ASSUME UNCHANGED <<users, tasks, workers>>, requests[r].pc # "done",
             NEW pc \in {"set", "enqueue", "done"}, NEW s \in Sessions \cup {Nil},
             NEW response \in Responses \cup {Nil}, Proceed(r, pc, s, response),
             pc \in {"set", "enqueue"} => s \in Sessions,
             pc = "set" => r \notin Creates,
             StoreTypeOK'
      PROVE  TypeInv'
  <2>1. /\ ServiceTypeOK'
        /\ \A x \in Requests \ {r} : requests'[x] = requests[x]
        /\ requests'[r].pc = pc /\ requests'[r].session = s
    BY <1>2, ProceedFacts
  <2>2. UserTypeOK' /\ QueueTypeOK' /\ HandlersHaveTasks'
    BY <1>2, BudgetsKept DEF UserTypeOK, QueueTypeOK, HandlersHaveTasks, Busy
  <2>3. TasksHaveSessions'
    BY <1>2, <2>1 DEF TasksHaveSessions, Requests
  <2> QED
    BY <1>1, <1>2, <2>1, <2>2, <2>3
<1>3. CASE Authenticate(r)
  <2> USE <1>3 DEF Authenticate
  <2>1. StoreTypeOK' /\ QueueTypeOK' /\ HandlersHaveTasks' /\ requests[r].session = Nil
    BY BudgetsKept DEF StoreTypeOK, QueueTypeOK, HandlersHaveTasks, Busy, TasksHaveSessions
  <2>2. CASE Reply(r, "401") /\ UNCHANGED users
    BY <1>2, <2>1, <2>2 DEF Reply, Responses
  <2>3. ASSUME NEW c \in Subjects, NEW u \in Upserted(c),
               users' \in {users, UpsertUser(c, u)}
        PROVE  UserTypeOK' /\ u \in Users
    BY <2>3 DEF UserTypeOK, Upserted, FreshUserIDs, UpsertUser
  <2>4. ASSUME NEW c \in Subjects, NEW u \in Upserted(c), users' = UpsertUser(c, u),
               requests' = [requests EXCEPT
                 ![r] = [NoRequest EXCEPT !.pc = "authed", !.subject = c, !.user = u]]
        PROVE  TypeInv'
    <3>1. UserTypeOK' /\ u \in Users
      BY <2>3, <2>4
    <3>2. ServiceTypeOK'
      BY <2>4, <3>1 DEF ServiceTypeOK, Request, NoRequest
    <3>3. TasksHaveSessions'
      BY <2>4 DEF TasksHaveSessions, ServiceTypeOK, NoRequest, Requests
    <3> QED
      BY <1>1, <2>1, <3>1, <3>2, <3>3
  <2>5. ASSUME NEW c \in Subjects, NEW u \in Upserted(c),
               users' \in {users, UpsertUser(c, u)}, Reply(r, "500")
        PROVE  TypeInv'
    <3>1. UserTypeOK'
      BY <2>3, <2>5
    <3>2. /\ ServiceTypeOK'
          /\ \A x \in Requests \ {r} : requests'[x] = requests[x]
          /\ requests'[r].pc = "done" /\ requests'[r].session = Nil
      BY <2>1, <2>5, ProceedFacts DEF Reply, Responses
    <3>3. TasksHaveSessions'
      BY <3>2 DEF TasksHaveSessions, Requests
    <3> QED
      BY <1>1, <2>1, <3>1, <3>2, <3>3
  <2> QED
    BY <2>2, <2>4, <2>5
<1>4. CASE RejectBody(r) \/ CrashRequest(r)
  <2>1. UNCHANGED <<users, rows, tasks, workers>> /\ requests[r].pc # "done"
    BY <1>4 DEF RejectBody, CrashRequest
  <2>2. PICK response \in Responses \cup {Nil} : Reply(r, response)
    BY <1>4 DEF RejectBody, CrashRequest, Responses
  <2> QED
    BY <1>1, <1>2, <2>1, <2>2 DEF Reply, StoreTypeOK
<1>5. CASE InsertSession(r)
  <2>1. PICK k \in SKUs, s \in FreshIDs :
          /\ rows' \in {rows, CreateSession(s, requests[r].user, k)}
          /\ Proceed(r, "enqueue", s, Nil) \/ Proceed(r, "done", s, "400")
    BY <1>5 DEF InsertSession
  <2>2. s \in Sessions /\ requests[r].user \in Users \cup {Nil}
    BY <1>1 DEF FreshIDs, Request
  <2>3. CreateSession(s, requests[r].user, k) \in [Sessions -> Row]
    BY <2>2, StatementTypes
  <2> QED
    BY <1>2, <1>5, <2>1, <2>2, <2>3 DEF InsertSession, Responses, StoreTypeOK
<1>6. CASE LookupSession(r)
  <2>1. PICK s \in Sessions, pc \in {"set", "done"}, response \in Responses \cup {Nil} :
          Proceed(r, pc, s, response)
    BY <1>6 DEF LookupSession, Responses
  <2>2. r \notin Creates /\ requests[r].pc = "authed" /\ UNCHANGED <<users, rows, tasks, workers>>
    BY <1>6, DeploymentAssumption DEF LookupSession
  <2> QED
    BY <1>2, <2>1, <2>2 DEF StoreTypeOK
<1>7. CASE SetTerminating(r)
  <2>1. /\ requests[r].pc = "set" /\ UNCHANGED <<users, tasks, workers>>
        /\ requests[r].session \in Sessions /\ r \notin Creates
    BY <1>7 DEF SetTerminating, TasksHaveSessions
  <2>2. rows' \in {rows, SetSessionStatus(requests[r].session, "terminating")}
    BY <1>7 DEF SetTerminating
  <2>3. StoreTypeOK'
    BY <2>2, StatementTypes DEF StoreTypeOK, Statuses
  <2>4. PICK pc \in {"enqueue", "done"}, response \in Responses \cup {Nil} :
          Proceed(r, pc, requests[r].session, response)
    BY <1>7 DEF SetTerminating, Reply, Responses
  <2> QED
    BY <1>2, <2>1, <2>3, <2>4
<1>8. CASE EnqueueTask(r)
  <2>1. /\ requests[r].pc = "enqueue" /\ requests[r].session \in Sessions
        /\ UNCHANGED <<users, rows, workers>>
        /\ tasks' \in {tasks, Enqueued(r, requests[r].session)}
    BY <1>8 DEF EnqueueTask, TasksHaveSessions
  <2>2. PICK response \in Responses : Reply(r, response)
    BY <1>8 DEF EnqueueTask, Responses
  <2>3. /\ ServiceTypeOK'
        /\ \A x \in Requests \ {r} : requests'[x] = requests[x]
        /\ requests'[r].pc = "done" /\ requests'[r].session = requests[r].session
    BY <1>1, <2>2, ProceedFacts DEF Reply
  <2>4. UserTypeOK' /\ StoreTypeOK'
    BY <2>1 DEF UserTypeOK, StoreTypeOK
  <2>5. QueueTypeOK'
    <3>1. tasks' \in [Requests -> Task]
      BY <2>1 DEF QueueTypeOK, Enqueued, Task
    <3>2. \A x \in Requests : tasks'[x].retried = tasks[x].retried \/ tasks'[x].retried = 0
      BY <2>1 DEF QueueTypeOK, Enqueued
    <3>3. RetriesWithinBudget'
      BY <3>2, Budgets DEF QueueTypeOK, RetriesWithinBudget, BudgetOf, IsProvision
    <3> QED
      BY <2>1, <3>1, <3>3 DEF QueueTypeOK
  <2>6. HandlersHaveTasks'
    BY <2>1 DEF HandlersHaveTasks, Busy, Enqueued, QueueTypeOK
  <2>7. TasksHaveSessions'
    BY <2>1, <2>3 DEF TasksHaveSessions, Enqueued, QueueTypeOK, Requests
  <2> QED
    BY <1>1, <2>3, <2>4, <2>5, <2>6, <2>7
<1> QED
  BY <1>3, <1>4, <1>5, <1>6, <1>7, <1>8 DEF Api, RequestStep

(* And every step of asynq: dequeue, crash, shutdown, lease loss, recovery.  *)
LEMMA QueueStepTypeInv ==
  ASSUME TypeInv, Queue
  PROVE  TypeInv'
<1> USE DEF TypeInv, TypeOK
<1>1. UserTypeOK' /\ StoreTypeOK' /\ ServiceTypeOK' /\ Ec2TypeOK'
  BY DEF Queue, UserTypeOK, StoreTypeOK, ServiceTypeOK, Ec2TypeOK
<1>2. UNCHANGED requests
  BY DEF Queue
<1>3. ASSUME NEW w \in Workers, NEW t \in Requests, Dequeue(w, t)
      PROVE  QueueInv'
  <2> USE <1>3 DEF Dequeue
  <2>1. QueueTypeOK'
    BY BudgetsKept DEF QueueTypeOK, Task, Worker, PCs
  <2>2. HandlersHaveTasks'
    BY DEF HandlersHaveTasks, Busy, QueueTypeOK, ProvisionPCs, TerminatePCs
  <2>3. TasksHaveSessions'
    BY <1>2 DEF TasksHaveSessions, QueueTypeOK, Task
  <2> QED
    BY <2>1, <2>2, <2>3 DEF QueueInv
<1>4. ASSUME NEW w \in Workers, CrashWorker(w)
      PROVE  QueueInv'
  <2> USE <1>4 DEF CrashWorker, IdleWorker
  <2>1. QueueTypeOK'
    BY BudgetsKept DEF QueueTypeOK, Worker, PCs
  <2>2. HandlersHaveTasks'
    BY DEF HandlersHaveTasks, Busy, QueueTypeOK
  <2>3. TasksHaveSessions'
    BY <1>2 DEF TasksHaveSessions
  <2> QED
    BY <2>1, <2>2, <2>3 DEF QueueInv
<1>5. ASSUME NEW w \in Workers, ShutdownWorker(w)
      PROVE  QueueInv'
  <2> USE <1>5 DEF ShutdownWorker, IdleWorker
  <2>1. workers[w].task \in Requests /\ tasks[workers[w].task].state # "none"
    BY DEF HandlersHaveTasks
  <2>2. QueueTypeOK'
    <3>1. tasks' \in [Requests -> Task] /\ RetriesWithinBudget'
      BY <2>1, BudgetsKept DEF QueueTypeOK, Task
    <3>2. workers' \in [Workers -> Worker]
      BY DEF QueueTypeOK, Worker, PCs
    <3> QED
      BY <3>1, <3>2 DEF QueueTypeOK
  <2>3. HandlersHaveTasks'
    BY DEF HandlersHaveTasks, Busy, QueueTypeOK
  <2>4. TasksHaveSessions'
    BY <1>2, <2>1 DEF TasksHaveSessions, QueueTypeOK, Task
  <2> QED
    BY <2>2, <2>3, <2>4 DEF QueueInv
<1>6. ASSUME NEW w \in Workers, LoseLease(w)
      PROVE  QueueInv'
  <2> USE <1>6 DEF LoseLease
  <2>1. QueueTypeOK'
    BY BudgetsKept DEF QueueTypeOK, Worker
  <2>2. HandlersHaveTasks'
    BY DEF HandlersHaveTasks, Busy, QueueTypeOK, Worker
  <2>3. TasksHaveSessions'
    BY <1>2 DEF TasksHaveSessions
  <2> QED
    BY <2>1, <2>2, <2>3 DEF QueueInv
<1>7. ASSUME NEW t \in Requests, Recover(t)
      PROVE  QueueInv'
  <2> USE <1>7, RetriedFacts DEF Recover
  <2>1. QueueTypeOK'
    <3>1. RetriesWithinBudget'
      BY RetriedWithinBudget DEF QueueTypeOK, RetriesWithinBudget, BudgetOf, IsProvision
    <3> QED
      BY <3>1 DEF QueueTypeOK
  <2>2. HandlersHaveTasks'
    BY DEF HandlersHaveTasks, Busy, QueueTypeOK
  <2>3. TasksHaveSessions'
    BY <1>2 DEF TasksHaveSessions, QueueTypeOK
  <2> QED
    BY <2>1, <2>2, <2>3 DEF QueueInv
<1> QED
  BY <1>1, <1>3, <1>4, <1>5, <1>6, <1>7 DEF Queue, QueueInv

(* Every call the provider makes keeps the type invariant: at most one EC2   *)
(* id changes, and to an instance of the handler's session.                  *)
LEMMA ProvisionStepTypes ==
  ASSUME TypeInv, NEW w \in Workers, Provision(w), UNCHANGED <<users, requests>>
  PROVE  TypeInv'
<1> USE DEF TypeInv, TypeOK
<1>1. UserTypeOK' /\ StoreTypeOK' /\ ServiceTypeOK'
  BY DEF Provision, UserTypeOK, StoreTypeOK, ServiceTypeOK
<1>2. QueueInv /\ workers[w] \in Worker
  BY DEF QueueInv, QueueTypeOK
<1>3. ASSUME workers[w].pc \in {"launch", "boot", "script", "cleanup"}
      PROVE  /\ Busy(w)
             /\ workers[w].task \in Creates
             /\ SessionOf(w) \in Sessions
             /\ workers[w].node \in Instances \cup {Nil}
  BY <1>2, <1>3 DEF Busy, HandlersHaveTasks, TasksHaveSessions, SessionOf, ProvisionPCs, Worker
<1>4. ASSUME workers[w].pc \in {"launch", "boot", "script", "cleanup"},
             NEW pc \in {"boot", "script", "cleanup", "ready", "fail"},
             NEW node \in Instances \cup {Nil}, Goto(w, pc, node)
      PROVE  QueueInv'
  <2>1. pc \in PCs \ {"idle"} /\ pc \notin TerminatePCs
    BY DEF PCs, ProvisionPCs, TerminatePCs
  <2> QED
    BY <1>2, <1>3, <1>4, <2>1, GotoInv
<1>5. CASE RunInstances(w, rows[SessionOf(w)].sku)
  <2>1. PICK i \in Free : instances' = Launched(i, SessionOf(w)) /\ Goto(w, "boot", i)
    BY <1>5 DEF RunInstances
  <2>2. QueueInv'
    BY <1>4, <1>5, <2>1 DEF RunInstances, Free, PCs, ProvisionPCs
  <2>3. Ec2TypeOK'
    BY <1>3, <1>5, <2>1 DEF RunInstances, Free, Launched, Ec2TypeOK, Instance
  <2> QED
    BY <1>1, <2>2, <2>3 DEF QueueInv
<1>6. CASE LaunchFails(w, rows[SessionOf(w)].sku)
  <2>1. workers[w].pc = "launch" /\ Goto(w, "fail", Nil)
    BY <1>6 DEF LaunchFails
  <2>2. QueueInv'
    BY <1>4, <2>1 DEF PCs, ProvisionPCs
  <2>3. Ec2TypeOK'
    BY <1>3, <1>6 DEF LaunchFails, Free, Launched, Ec2TypeOK, Instance
  <2> QED
    BY <1>1, <2>2, <2>3 DEF QueueInv
<1>7. CASE WaitForRunning(w) \/ RunProvision(w) \/ BootFails(w)
  <2>1. PICK pc \in {"script", "ready", "cleanup"} : Goto(w, pc, workers[w].node)
    BY <1>7 DEF WaitForRunning, RunProvision, BootFails
  <2>2. workers[w].pc \in {"boot", "script"} /\ UNCHANGED instances
    BY <1>7 DEF WaitForRunning, RunProvision, BootFails
  <2>3. QueueInv'
    BY <1>3, <1>4, <2>1, <2>2 DEF PCs, ProvisionPCs
  <2> QED
    BY <1>1, <2>2, <2>3 DEF QueueInv, Ec2TypeOK
<1>8. CASE TerminateBestEffort(w)
  <2>1. workers[w].pc = "cleanup" /\ Goto(w, "fail", Nil)
    BY <1>8 DEF TerminateBestEffort
  <2>2. QueueInv'
    BY <1>4, <2>1 DEF PCs, ProvisionPCs
  <2>3. Ec2TypeOK'
    BY <1>8 DEF TerminateBestEffort, TerminateInstances, Terminated, Ec2TypeOK, Instance
  <2> QED
    BY <1>1, <2>2, <2>3 DEF QueueInv
<1> QED
  BY <1>5, <1>6, <1>7, <1>8 DEF Provision

(* Every step of handleProvision and handleTerminate keeps the type          *)
(* invariant.                                                                *)
LEMMA HandlerTypeInv ==
  ASSUME TypeInv, NEW w \in Workers, HandlerStep(w), UNCHANGED <<users, requests>>
  PROVE  TypeInv'
<1> USE DEF TypeInv, TypeOK
<1>1. UserTypeOK' /\ ServiceTypeOK' /\ QueueInv /\ workers[w] \in Worker
  BY DEF UserTypeOK, ServiceTypeOK, QueueInv, QueueTypeOK
<1>2. Busy(w) => /\ workers[w].task \in Requests
                 /\ SessionOf(w) \in Sessions
                 /\ workers[w].node \in Instances \cup {Nil}
  BY <1>1 DEF HandlersHaveTasks, TasksHaveSessions, SessionOf, Worker
<1>3. ASSUME Busy(w), ReturnNil(w) \/ ReturnErr(w)
      PROVE  QueueInv'
  BY <1>1, <1>3, ReturnInv
<1>4. ASSUME Busy(w), NEW pc \in {"claim", "launch", "terminate", "mark"},
             NEW node \in Instances \cup {Nil}, Goto(w, pc, node),
             pc \in {"claim", "launch"} => workers[w].task \in Creates,
             pc \in {"terminate", "mark"} => workers[w].task \in Deletes
      PROVE  QueueInv'
  <2>1. pc \in PCs \ {"idle"}
    BY <1>4 DEF PCs, ProvisionPCs, TerminatePCs
  <2>2. /\ pc \in ProvisionPCs => workers[w].task \in Creates
        /\ pc \in TerminatePCs => workers[w].task \in Deletes
    BY <1>4 DEF ProvisionPCs, TerminatePCs
  <2> QED
    BY <1>1, <1>4, <2>1, <2>2, GotoInv
<1>5. CASE GetFails(w)
  BY <1>1, <1>3, <1>5 DEF GetFails, Busy, StoreTypeOK, Ec2TypeOK, QueueInv
<1>6. CASE GetForProvision(w)
  BY <1>1, <1>3, <1>4, <1>6
  DEF GetForProvision, IsProvision, Busy, StoreTypeOK, Ec2TypeOK, QueueInv
<1>7. CASE Claim(w)
  <2>1. workers[w].pc = "claim" /\ Busy(w) /\ workers[w].task \in Creates
    BY <1>7 DEF Claim, Busy, HandlersHaveTasks, ProvisionPCs
  <2>2. StoreTypeOK' /\ Ec2TypeOK'
    BY <1>7, StatementTypes DEF Claim, Exec, StoreTypeOK, Ec2TypeOK, Statuses
  <2>3. QueueInv'
    BY <1>2, <1>3, <1>4, <1>7, <2>1 DEF Claim, Exec
  <2> QED
    BY <1>1, <2>2, <2>3 DEF QueueInv
<1>8. CASE Provision(w)
  BY <1>8, ProvisionStepTypes
<1>9. CASE MarkReady(w)
  <2>1. workers[w].pc = "ready" /\ Busy(w) /\ workers[w].node \in Instances \cup {Nil}
    BY <1>2, <1>9 DEF MarkReady, Busy
  <2>2. StoreTypeOK' /\ Ec2TypeOK'
    <3>1. SetSessionReady(SessionOf(w), workers[w].node) \in [Sessions -> Row]
      BY <2>1, StatementTypes
    <3> QED
      BY <1>9, <3>1 DEF MarkReady, StoreTypeOK, Ec2TypeOK
  <2>3. QueueInv'
    BY <1>3, <1>9, <2>1 DEF MarkReady
  <2> QED
    BY <1>1, <2>2, <2>3 DEF QueueInv
<1>10. CASE Fail(w)
  <2>1. Busy(w)
    BY <1>10 DEF Fail, Busy
  <2>2. StoreTypeOK' /\ Ec2TypeOK'
    BY <1>10, StatementTypes DEF Fail, StoreTypeOK, Ec2TypeOK
  <2>3. QueueInv'
    BY <1>3, <1>10, <2>1 DEF Fail
  <2> QED
    BY <1>1, <2>2, <2>3 DEF QueueInv
<1>11. CASE GetForTerminate(w)
  <2>1. Busy(w) /\ UNCHANGED <<rows, instances>>
    BY <1>11 DEF GetForTerminate, Busy
  <2>2. rows[SessionOf(w)].instance_id \in Instances \cup {Nil}
    BY <1>2, <2>1 DEF StoreTypeOK, Row
  <2>3. workers[w].task \in Deletes
    BY <1>2, <1>11, <2>1 DEF GetForTerminate, IsProvision, Requests
  <2>4. QueueInv'
    BY <1>3, <1>4, <1>11, <2>1, <2>2, <2>3 DEF GetForTerminate
  <2> QED
    BY <1>1, <2>1, <2>4 DEF QueueInv, StoreTypeOK, Ec2TypeOK
<1>12. CASE TerminateNode(w)
  <2>1. Busy(w) /\ Goto(w, "mark", Nil) /\ UNCHANGED rows /\ workers[w].task \in Deletes
    BY <1>12 DEF TerminateNode, Busy, HandlersHaveTasks, TerminatePCs
  <2>2. Ec2TypeOK'
    BY <1>12 DEF TerminateNode, TerminateInstances, Terminated, Ec2TypeOK, Instance
  <2>3. QueueInv'
    BY <1>4, <2>1
  <2> QED
    BY <1>1, <2>1, <2>2, <2>3 DEF QueueInv, StoreTypeOK
<1>13. CASE MarkTerminated(w)
  <2>1. Busy(w)
    BY <1>13 DEF MarkTerminated, Busy
  <2>2. StoreTypeOK' /\ Ec2TypeOK'
    BY <1>13, StatementTypes DEF MarkTerminated, StoreTypeOK, Ec2TypeOK
  <2>3. QueueInv'
    BY <1>3, <1>13, <2>1 DEF MarkTerminated
  <2> QED
    BY <1>1, <2>2, <2>3 DEF QueueInv
<1> QED
  BY <1>5, <1>6, <1>7, <1>8, <1>9, <1>10, <1>11, <1>12, <1>13 DEF HandlerStep

(* The type invariant is inductive.                                          *)
LEMMA NextTypeInv == TypeInv /\ [Next]_vars => TypeInv'
<1> SUFFICES ASSUME TypeInv, [Next]_vars
             PROVE  TypeInv'
  OBVIOUS
<1>1. CASE UNCHANGED vars
  BY <1>1 DEF vars, TypeInv, TypeOK, UserTypeOK, StoreTypeOK, ServiceTypeOK, QueueTypeOK, Ec2TypeOK,
              RetriesWithinBudget, BudgetOf, IsProvision, HandlersHaveTasks, TasksHaveSessions, Busy
<1>2. ASSUME NEW r \in Requests, Api(r)
      PROVE  TypeInv'
  BY <1>2, ApiTypeInv
<1>3. CASE Queue
  BY <1>3, QueueStepTypeInv
<1>4. CASE Handlers
  BY <1>4, HandlerTypeInv DEF Handlers
<1> QED
  BY <1>1, <1>2, <1>3, <1>4 DEF Next

(* Every variable keeps its type, and no task is retried more often than the *)
(* budget of its own kind allows, under every fault.                         *)
THEOREM TypeCorrect == Spec => []TypeOK
<1>1. Spec => []TypeInv
  BY InitTypeInv, NextTypeInv, PTL DEF Spec
<1>2. TypeInv => TypeOK
  BY DEF TypeInv
<1> QED
  BY <1>1, <1>2, PTL

-----------------------------------------------------------------------------
(* At most one launch, as long as workers do not outlive their leases. *)

(* An empty deployment has launched nothing.                                 *)
LEMMA InitLaunchInv == Init => LaunchInv
<1> SUFFICES ASSUME Init PROVE LaunchInv
  OBVIOUS
<1>1. TypeInv
  BY InitTypeInv
<1>2. \A w \in Workers : workers[w].pc = "idle"
  BY DEF Init, QueueInit, IdleWorker
<1>3. \A i \in Instances : instances[i].session = Nil
  BY DEF Init, Ec2Init, NotLaunched
<1>4. \A r \in Requests : requests[r].session = Nil
  BY DEF Init, ServiceInit, NoRequest
<1>5. \A s \in Sessions : ~Exists(s)
  BY DEF Init, StoreInit, NoRow, Exists
<1>6. OneHandlerPerTask /\ HandlersKnowTheirRow
  BY <1>2 DEF OneHandlerPerTask, HandlersKnowTheirRow, Busy, ProvisionPCs
<1>7. OnePostPerSession
  BY <1>4 DEF OnePostPerSession, Requests
<1>8. RowsHavePosts
  BY <1>5 DEF RowsHavePosts
<1>9. ClaimBeforeLaunch /\ AtMostOneLaunch
  BY <1>3 DEF ClaimBeforeLaunch, AtMostOneLaunch
<1> QED
  BY <1>1, <1>6, <1>7, <1>8, <1>9 DEF LaunchInv

(* No row appears or disappears, and none becomes pending: so does every     *)
(* statement but the INSERT.                                                 *)
NoReset ==
  \A x \in Sessions : /\ Exists(x)' <=> Exists(x)
                      /\ rows'[x].status = "pending" => rows[x].status = "pending"

(* No UPDATE of the code writes pending, and none inserts a row: the fact    *)
(* that makes handleProvision's status check a one-way gate.                 *)
LEMMA StatementsDoNotReset ==
  ASSUME StoreTypeOK, NEW s \in Sessions,
         \/ rows' = rows
         \/ \E st \in Statuses \ {"pending"} : rows' = SetSessionStatus(s, st)
         \/ \E i \in Instances \cup {Nil} : rows' = SetSessionReady(s, i)
         \/ rows' = SetSessionError(s)
         \/ rows' = SetSessionTerminated(s)
  PROVE  NoReset
<1> USE DEF NoReset, Exists
<1>1. CASE rows' = rows
  BY <1>1
<1>2. ASSUME NEW st \in Statuses \ {"pending"}, rows' = SetSessionStatus(s, st)
      PROVE  NoReset
  BY <1>2 DEF SetSessionStatus, Updated, StoreTypeOK, Row, Statuses
<1>3. ASSUME NEW i \in Instances \cup {Nil}, rows' = SetSessionReady(s, i)
      PROVE  NoReset
  BY <1>3 DEF SetSessionReady, Updated, StoreTypeOK, Row
<1>4. CASE rows' = SetSessionError(s)
  BY <1>4 DEF SetSessionError, Updated, StoreTypeOK, Row
<1>5. CASE rows' = SetSessionTerminated(s)
  BY <1>5 DEF SetSessionTerminated, Updated, StoreTypeOK, Row
<1> QED
  BY <1>1, <1>2, <1>3, <1>4, <1>5

(* Two provision handlers of one session are one and the same.               *)
LEMMA OneProvisionerPerSession ==
  ASSUME LaunchInv, NEW v \in Workers, NEW w \in Workers,
         workers[v].pc \in ProvisionPCs, workers[w].pc \in ProvisionPCs,
         SessionOf(v) = SessionOf(w)
  PROVE  v = w
<1>1. Busy(v) /\ Busy(w)
  BY DEF Busy, ProvisionPCs
<1>2. /\ workers[v].task \in Creates /\ workers[w].task \in Creates
      /\ tasks[workers[v].task].state # "none" /\ tasks[workers[w].task].state # "none"
  BY <1>1 DEF LaunchInv, TypeInv, HandlersHaveTasks
<1>3. requests[workers[v].task].session = requests[workers[w].task].session
  BY <1>2 DEF LaunchInv, TypeInv, TasksHaveSessions, SessionOf, Requests
<1>4. requests[workers[v].task].session # Nil
  BY <1>2, DeploymentAssumption DEF LaunchInv, TypeInv, TasksHaveSessions, Requests
<1>5. workers[v].task = workers[w].task
  BY <1>2, <1>3, <1>4 DEF LaunchInv, OnePostPerSession
<1> QED
  BY <1>1, <1>5 DEF LaunchInv, OneHandlerPerTask

(* A handler's return disturbs nothing.                                      *)
LEMMA ReturnLaunchInv ==
  ASSUME LaunchInv, TypeInv', NEW w \in Workers, Busy(w), ReturnNil(w) \/ ReturnErr(w),
         NoReset, UNCHANGED <<requests, instances>>
  PROVE  LaunchInv'
<1> DEFINE t == workers[w].task
<1>1. t \in Requests /\ QueueTypeOK
  BY DEF LaunchInv, TypeInv, TypeOK, HandlersHaveTasks
<1>2. workers' = [workers EXCEPT ![w] = IdleWorker]
  BY DEF ReturnNil, ReturnErr
<1>3. \A x \in Requests : /\ tasks'[x].session = tasks[x].session
                          /\ x # t => tasks'[x] = tasks[x]
  <2>1. CASE ReturnNil(w)
    BY <1>1, <2>1 DEF ReturnNil, QueueTypeOK, Task
  <2>2. CASE ReturnErr(w)
    BY <1>1, <2>2, RetriedFacts DEF ReturnErr, QueueTypeOK
  <2> QED
    BY <2>1, <2>2
<1>4. \A v \in Workers : Busy(v)' => v # w /\ workers'[v] = workers[v] /\ Busy(v)
  BY <1>1, <1>2 DEF Busy, IdleWorker, QueueTypeOK
<1>5. \A v \in Workers : Busy(v)' => workers[v].task \in Requests /\ SessionOf(v)' = SessionOf(v)
  BY <1>3, <1>4 DEF SessionOf, LaunchInv, TypeInv, HandlersHaveTasks
<1>6. OneHandlerPerTask'
  <2>1. \A v \in Workers : Busy(v)' => workers[v].task # t
    BY <1>4 DEF LaunchInv, OneHandlerPerTask
  <2> QED
    BY <1>3, <1>4, <1>5, <2>1 DEF LaunchInv, OneHandlerPerTask
<1>7. OnePostPerSession' /\ AtMostOneLaunch'
  BY DEF LaunchInv, OnePostPerSession, AtMostOneLaunch
<1>8. RowsHavePosts'
  BY DEF LaunchInv, RowsHavePosts, NoReset
<1>9. \A v \in Workers : workers'[v].pc \in ProvisionPCs => Busy(v)'
  BY DEF Busy, ProvisionPCs
<1>10. \A v \in Workers : Busy(v)' => SessionOf(v) \in Sessions
  BY <1>4 DEF LaunchInv, TypeInv, HandlersHaveTasks, TasksHaveSessions, SessionOf
<1>11. HandlersKnowTheirRow'
  BY <1>4, <1>5, <1>9, <1>10 DEF LaunchInv, HandlersKnowTheirRow, NoReset
<1>12. ClaimBeforeLaunch'
  <2>1. \A i \in Instances : instances[i].session # Nil => instances[i].session \in Sessions
    BY DEF LaunchInv, TypeInv, TypeOK, Ec2TypeOK, Instance
  <2>2. \A v \in Workers : workers'[v].pc \in {"claim", "launch"} => Busy(v)'
    BY DEF Busy
  <2> QED
    BY <1>4, <1>5, <2>1, <2>2 DEF LaunchInv, ClaimBeforeLaunch, NoReset, Exists
<1> QED
  BY <1>6, <1>7, <1>8, <1>11, <1>12 DEF LaunchInv

(* A handler's step to a later control point disturbs nothing if it launches *)
(* nothing and knows of its row what that point requires.                    *)
LEMMA GotoLaunchInv ==
  ASSUME LaunchInv, TypeInv', NEW w \in Workers, Busy(w),
         NEW pc \in PCs \ {"idle"}, NEW node, Goto(w, pc, node),
         NoReset, UNCHANGED requests,
         \A i \in Instances : instances'[i].session = instances[i].session,
         pc \in ProvisionPCs => Exists(SessionOf(w)),
         pc \in ProvisionPCs \ {"claim"} => rows'[SessionOf(w)].status # "pending",
         pc \in {"claim", "launch"} =>
           \A i \in Instances : instances[i].session # SessionOf(w)
  PROVE  LaunchInv'
<1>1. QueueTypeOK /\ SessionOf(w) \in Sessions
  BY DEF LaunchInv, TypeInv, TypeOK, HandlersHaveTasks, TasksHaveSessions, SessionOf
<1>2. /\ workers' = [workers EXCEPT ![w].pc = pc, ![w].node = node]
      /\ UNCHANGED tasks
  BY DEF Goto
<1>3. \A v \in Workers : /\ workers'[v].task = workers[v].task
                         /\ workers[v].leased => workers'[v].leased
                         /\ v # w => workers'[v] = workers[v]
                         /\ SessionOf(v)' = SessionOf(v)
                         /\ Busy(v)' <=> Busy(v)
  BY <1>1, <1>2 DEF QueueTypeOK, Worker, Busy, SessionOf
<1>4. workers'[w].pc = pc
  BY <1>1, <1>2 DEF QueueTypeOK, Worker
<1>5. OneHandlerPerTask'
  <2>1. ASSUME NEW v \in Workers, Busy(v)'
        PROVE  workers'[v].leased /\ tasks'[workers'[v].task].state = "active"
    <3>1. workers[v].leased /\ tasks[workers[v].task].state = "active"
      BY <1>3, <2>1 DEF LaunchInv, OneHandlerPerTask
    <3> QED
      BY <1>2, <1>3, <3>1
  <2> QED
    BY <1>3, <2>1 DEF LaunchInv, OneHandlerPerTask
<1>6. OnePostPerSession' /\ AtMostOneLaunch'
  BY DEF LaunchInv, OnePostPerSession, AtMostOneLaunch
<1>7. RowsHavePosts'
  BY DEF LaunchInv, RowsHavePosts, NoReset
<1>8. \A v \in Workers : workers[v].pc \in ProvisionPCs => SessionOf(v) \in Sessions
  BY DEF LaunchInv, TypeInv, HandlersHaveTasks, TasksHaveSessions, SessionOf, Busy, ProvisionPCs
<1>9. HandlersKnowTheirRow'
  BY <1>1, <1>3, <1>4, <1>8 DEF LaunchInv, HandlersKnowTheirRow, NoReset
<1>10. ClaimBeforeLaunch'
  <2>1. \A i \in Instances : instances[i].session # Nil => instances[i].session \in Sessions
    BY DEF LaunchInv, TypeInv, TypeOK, Ec2TypeOK, Instance
  <2> QED
    BY <1>3, <1>4, <2>1 DEF LaunchInv, ClaimBeforeLaunch, NoReset, Exists
<1> QED
  BY <1>5, <1>6, <1>7, <1>9, <1>10 DEF LaunchInv

(* The launch itself, acknowledged or not: the session is claimed and has no *)
(* instance, and no other handler can be about to launch for it.             *)
LEMMA LaunchKeepsInv ==
  ASSUME LaunchInv, TypeInv', NEW w \in Workers, workers[w].pc = "launch",
         NEW i \in Instances, instances' = Launched(i, SessionOf(w)),
         NEW pc \in {"boot", "fail"}, NEW node, Goto(w, pc, node),
         UNCHANGED <<rows, requests>>
  PROVE  LaunchInv'
<1> DEFINE s == SessionOf(w)
<1>1. /\ QueueTypeOK /\ Ec2TypeOK /\ s \in Sessions
      /\ Busy(w) /\ workers[w].pc \in ProvisionPCs \ {"claim"}
  BY DEF LaunchInv, TypeInv, TypeOK, HandlersHaveTasks, TasksHaveSessions, SessionOf, Busy, ProvisionPCs
<1>2. rows[s].status \notin {"none", "pending"}
  BY <1>1 DEF LaunchInv, HandlersKnowTheirRow, Exists
<1>3. \A j \in Instances : instances[j].session # s
  BY <1>1, DeploymentAssumption DEF LaunchInv, ClaimBeforeLaunch
<1>4. \A j \in Instances : instances'[j].session = IF j = i THEN s ELSE instances[j].session
  BY <1>1 DEF Launched, Ec2TypeOK
<1>5. \A v \in Workers : /\ workers'[v].task = workers[v].task
                         /\ workers[v].leased => workers'[v].leased
                         /\ workers'[v].pc = IF v = w THEN pc ELSE workers[v].pc
                         /\ SessionOf(v)' = SessionOf(v)
                         /\ Busy(v)' <=> Busy(v)
  BY <1>1 DEF Goto, QueueTypeOK, Worker, Busy, SessionOf
<1>6. OneHandlerPerTask'
  <2>1. \A v \in Workers : Busy(v)' => workers'[v].leased /\ tasks'[workers'[v].task].state = "active"
    BY <1>5 DEF Goto, LaunchInv, OneHandlerPerTask
  <2> QED
    BY <1>5, <2>1 DEF LaunchInv, OneHandlerPerTask
<1>7. OnePostPerSession' /\ RowsHavePosts'
  BY DEF LaunchInv, OnePostPerSession, RowsHavePosts, Exists
<1>8. HandlersKnowTheirRow'
  BY <1>1, <1>5 DEF LaunchInv, HandlersKnowTheirRow, Exists, ProvisionPCs
<1>9. AtMostOneLaunch'
  BY <1>3, <1>4 DEF LaunchInv, AtMostOneLaunch
<1>10. ClaimBeforeLaunch'
  <2> SUFFICES ASSUME NEW j \in Instances, instances'[j].session # Nil
               PROVE  /\ rows[instances'[j].session].status \notin {"none", "pending"}
                      /\ \A v \in Workers : workers'[v].pc \in {"claim", "launch"} =>
                           SessionOf(v)' # instances'[j].session
    BY DEF ClaimBeforeLaunch
  <2>1. CASE j = i
    <3>1. \A v \in Workers : workers[v].pc \in {"claim", "launch"} /\ SessionOf(v) = s => v = w
      BY <1>1, OneProvisionerPerSession DEF ProvisionPCs
    <3> QED
      BY <1>2, <1>4, <1>5, <2>1, <3>1
  <2>2. CASE j # i
    BY <1>4, <1>5, <2>2 DEF LaunchInv, ClaimBeforeLaunch
  <2> QED
    BY <2>1, <2>2
<1> QED
  BY <1>6, <1>7, <1>8, <1>9, <1>10 DEF LaunchInv

(* Every step of a handler keeps LaunchInv.                                  *)
LEMMA HandlerLaunchInv ==
  ASSUME LaunchInv, TypeInv', NEW w \in Workers, HandlerStep(w), UNCHANGED <<users, requests>>
  PROVE  LaunchInv'
<1> DEFINE s == SessionOf(w)
<1>1. StoreTypeOK /\ QueueTypeOK /\ Ec2TypeOK
  BY DEF LaunchInv, TypeInv, TypeOK
<1>2. Busy(w) => s \in Sessions /\ workers[w].node \in Instances \cup {Nil}
  BY <1>1 DEF LaunchInv, TypeInv, HandlersHaveTasks, TasksHaveSessions, SessionOf, QueueTypeOK, Worker
<1>3. rows' = rows => NoReset
  BY DEF NoReset, Exists
<1>4. workers[w].pc \in ProvisionPCs => Busy(w) /\ Exists(s)
  BY DEF LaunchInv, HandlersKnowTheirRow, Busy, ProvisionPCs
<1>5. workers[w].pc \in ProvisionPCs \ {"claim"} => rows[s].status # "pending"
  BY DEF LaunchInv, HandlersKnowTheirRow
<1>6. CASE GetFails(w)
  BY <1>3, <1>6, ReturnLaunchInv DEF GetFails, Busy
<1>7. CASE GetForProvision(w)
  <2>1. Busy(w) /\ NoReset /\ UNCHANGED <<rows, instances>>
    BY <1>3, <1>7 DEF GetForProvision, Busy
  <2>2. CASE rows[s].status = "pending" /\ Goto(w, "claim", Nil)
    <3>1. \A i \in Instances : instances[i].session # s
      BY <1>2, <2>1, <2>2, DeploymentAssumption DEF LaunchInv, ClaimBeforeLaunch
    <3>2. "claim" \in PCs \ {"idle"} /\ Exists(s)
      BY <2>2 DEF PCs, ProvisionPCs, Exists
    <3> QED
      BY <2>1, <2>2, <3>1, <3>2, GotoLaunchInv
  <2>3. CASE ReturnNil(w)
    BY <2>1, <2>3, ReturnLaunchInv
  <2> QED
    BY <1>7, <2>2, <2>3 DEF GetForProvision
<1>8. CASE Claim(w)
  <2>1. workers[w].pc = "claim" /\ Busy(w) /\ Exists(s) /\ UNCHANGED instances
    BY <1>4, <1>8 DEF Claim, ProvisionPCs
  <2>2. rows' \in {rows, SetSessionStatus(s, "provisioning")}
    BY <1>8 DEF Claim, Exec
  <2>3. NoReset
    BY <1>1, <1>2, <2>1, <2>2, StatementsDoNotReset DEF Statuses
  <2>4. CASE rows' = SetSessionStatus(s, "provisioning") /\ Goto(w, "launch", workers[w].node)
    <3>1. rows'[s].status # "pending"
      BY <1>1, <1>2, <2>1, <2>4 DEF SetSessionStatus, Updated, StoreTypeOK, Row
    <3>2. \A i \in Instances : instances[i].session # s
      BY <1>2, <2>1, DeploymentAssumption DEF LaunchInv, ClaimBeforeLaunch
    <3>3. "launch" \in PCs \ {"idle"}
      BY DEF PCs, ProvisionPCs
    <3> QED
      BY <2>1, <2>3, <2>4, <3>1, <3>2, <3>3, GotoLaunchInv
  <2>5. CASE ReturnErr(w)
    BY <2>1, <2>3, <2>5, ReturnLaunchInv
  <2> QED
    BY <1>8, <2>4, <2>5 DEF Claim, Exec
<1>9. CASE Provision(w)
  <2>1. UNCHANGED rows /\ NoReset
    BY <1>3, <1>9 DEF Provision
  <2>2. ASSUME NEW pc \in {"script", "ready", "cleanup", "fail"}, NEW node, Goto(w, pc, node),
               workers[w].pc \in ProvisionPCs \ {"claim"},
               \A i \in Instances : instances'[i].session = instances[i].session
        PROVE  LaunchInv'
    <3>1. pc \in PCs \ {"idle"} /\ pc \notin {"claim", "launch"}
      BY <2>2 DEF PCs, ProvisionPCs
    <3> QED
      BY <1>4, <1>5, <2>1, <2>2, <3>1, GotoLaunchInv
  <2>3. CASE RunInstances(w, rows[s].sku)
    BY <2>1, <2>3, LaunchKeepsInv DEF RunInstances, Free
  <2>4. CASE LaunchFails(w, rows[s].sku)
    <3>1. workers[w].pc = "launch" /\ Goto(w, "fail", Nil)
      BY <2>4 DEF LaunchFails
    <3>2. CASE UNCHANGED instances
      BY <2>2, <3>1, <3>2 DEF ProvisionPCs
    <3>3. CASE \E i \in Free : instances' = Launched(i, s)
      BY <2>1, <3>1, <3>3, LaunchKeepsInv DEF Free
    <3> QED
      BY <2>4, <3>2, <3>3 DEF LaunchFails
  <2>5. CASE WaitForRunning(w) \/ RunProvision(w) \/ BootFails(w)
    <3>1. PICK pc \in {"script", "ready", "cleanup"} : Goto(w, pc, workers[w].node)
      BY <2>5 DEF WaitForRunning, RunProvision, BootFails
    <3>2. workers[w].pc \in {"boot", "script"} /\ UNCHANGED instances
      BY <2>5 DEF WaitForRunning, RunProvision, BootFails
    <3> QED
      BY <2>2, <3>1, <3>2 DEF ProvisionPCs
  <2>6. CASE TerminateBestEffort(w)
    <3>1. \A i \in Instances : instances'[i].session = instances[i].session
      BY <1>1, <2>6 DEF TerminateBestEffort, TerminateInstances, Terminated, Ec2TypeOK, Instance
    <3> QED
      BY <2>2, <2>6, <3>1 DEF TerminateBestEffort, ProvisionPCs
  <2> QED
    BY <1>9, <2>3, <2>4, <2>5, <2>6 DEF Provision
<1>10. CASE MarkReady(w)
  <2>1. Busy(w) /\ UNCHANGED instances /\ (ReturnNil(w) \/ ReturnErr(w))
    BY <1>10 DEF MarkReady, Busy
  <2>2. NoReset
    BY <1>1, <1>2, <1>10, <2>1, StatementsDoNotReset DEF MarkReady
  <2> QED
    BY <2>1, <2>2, ReturnLaunchInv
<1>11. CASE Fail(w)
  <2>1. Busy(w) /\ UNCHANGED instances /\ ReturnErr(w)
    BY <1>11 DEF Fail, Busy
  <2>2. NoReset
    BY <1>1, <1>2, <1>11, <2>1, StatementsDoNotReset DEF Fail
  <2> QED
    BY <2>1, <2>2, ReturnLaunchInv
<1>12. CASE GetForTerminate(w)
  <2>1. Busy(w) /\ NoReset /\ UNCHANGED <<rows, instances>>
    BY <1>3, <1>12 DEF GetForTerminate, Busy
  <2>2. CASE ReturnNil(w)
    BY <2>1, <2>2, ReturnLaunchInv
  <2>3. ASSUME NEW pc \in {"mark", "terminate"}, NEW node, Goto(w, pc, node)
        PROVE  LaunchInv'
    <3>1. pc \in PCs \ {"idle"} /\ pc \notin ProvisionPCs
      BY <2>3 DEF PCs, TerminatePCs, ProvisionPCs
    <3> QED
      BY <2>1, <2>3, <3>1, GotoLaunchInv
  <2> QED
    BY <1>12, <2>2, <2>3 DEF GetForTerminate
<1>13. CASE TerminateNode(w)
  <2>1. Busy(w) /\ NoReset /\ Goto(w, "mark", Nil)
    BY <1>3, <1>13 DEF TerminateNode, Busy
  <2>2. \A i \in Instances : instances'[i].session = instances[i].session
    BY <1>1, <1>13 DEF TerminateNode, TerminateInstances, Terminated, Ec2TypeOK, Instance
  <2>3. "mark" \in PCs \ {"idle"} /\ "mark" \notin ProvisionPCs
    BY DEF PCs, TerminatePCs, ProvisionPCs
  <2> QED
    BY <2>1, <2>2, <2>3, GotoLaunchInv
<1>14. CASE MarkTerminated(w)
  <2>1. Busy(w) /\ UNCHANGED instances /\ (ReturnNil(w) \/ ReturnErr(w))
    BY <1>14 DEF MarkTerminated, Busy
  <2>2. NoReset
    BY <1>1, <1>2, <1>14, <2>1, StatementsDoNotReset DEF MarkTerminated
  <2> QED
    BY <2>1, <2>2, ReturnLaunchInv
<1> QED
  BY <1>6, <1>7, <1>8, <1>9, <1>10, <1>11, <1>12, <1>13, <1>14 DEF HandlerStep

(* Requests that keep their session and their task change nothing the        *)
(* handlers and the instances rest on.                                       *)
LEMMA ApiFrame ==
  ASSUME LaunchInv, TypeInv', NoReset, UNCHANGED <<workers, instances>>,
         \A t \in Requests : tasks[t].state # "none" => tasks'[t] = tasks[t],
         \A c \in Creates : requests'[c].session = requests[c].session
  PROVE  LaunchInv'
<1>1. \A v \in Workers : Busy(v) => /\ workers[v].task \in Requests
                                    /\ tasks'[workers[v].task] = tasks[workers[v].task]
                                    /\ SessionOf(v)' = SessionOf(v)
                                    /\ SessionOf(v) \in Sessions
  BY DEF LaunchInv, TypeInv, HandlersHaveTasks, TasksHaveSessions, SessionOf
<1>2. \A v \in Workers : workers[v].pc \in ProvisionPCs => Busy(v)
  BY DEF Busy, ProvisionPCs
<1>3. OneHandlerPerTask'
  BY <1>1 DEF LaunchInv, OneHandlerPerTask, Busy
<1>4. OnePostPerSession' /\ AtMostOneLaunch' /\ RowsHavePosts'
  BY DEF LaunchInv, OnePostPerSession, AtMostOneLaunch, RowsHavePosts, NoReset
<1>5. HandlersKnowTheirRow'
  BY <1>1, <1>2 DEF LaunchInv, HandlersKnowTheirRow, NoReset
<1>6. ClaimBeforeLaunch'
  <2>1. \A i \in Instances : instances[i].session # Nil => instances[i].session \in Sessions
    BY DEF LaunchInv, TypeInv, TypeOK, Ec2TypeOK, Instance
  <2> QED
    BY <1>1, <1>2, <2>1 DEF LaunchInv, ClaimBeforeLaunch, NoReset, Exists, ProvisionPCs
<1> QED
  BY <1>3, <1>4, <1>5, <1>6 DEF LaunchInv

(* Every step of a request does: the INSERT takes an id no row, task or      *)
(* instance has, the other steps fall under ApiFrame.                        *)
LEMMA ApiLaunchInv ==
  ASSUME LaunchInv, TypeInv', NEW r \in Requests, Api(r)
  PROVE  LaunchInv'
<1>1. StoreTypeOK /\ ServiceTypeOK /\ QueueTypeOK /\ UNCHANGED <<workers, instances>>
  BY DEF LaunchInv, TypeInv, TypeOK, Api, RequestStep, Authenticate, RejectBody,
         InsertSession, LookupSession, SetTerminating, EnqueueTask, CrashRequest
<1>2. rows' = rows => NoReset
  BY DEF NoReset, Exists
<1>3. ASSUME NEW pc, NEW response, Proceed(r, pc, requests[r].session, response)
      PROVE  \A c \in Creates : requests'[c].session = requests[c].session
  BY <1>1, <1>3 DEF Proceed, ServiceTypeOK, Request, Requests
<1>4. CASE Authenticate(r) \/ RejectBody(r) \/ CrashRequest(r)
  <2>1. UNCHANGED <<rows, tasks>>
    BY <1>4 DEF Authenticate, RejectBody, CrashRequest
  <2>2. \A c \in Creates : requests'[c].session = requests[c].session
    <3>1. CASE \E response : Reply(r, response)
      BY <1>3, <3>1 DEF Reply
    <3>2. ASSUME requests[r].pc = "idle", NEW c, NEW u,
                 requests' = [requests EXCEPT
                   ![r] = [NoRequest EXCEPT !.pc = "authed", !.subject = c, !.user = u]]
          PROVE  \A x \in Creates : requests'[x].session = requests[x].session
      BY <1>1, <3>2 DEF NoRequest, ServiceTypeOK, Requests, LaunchInv, TypeInv, TasksHaveSessions
    <3> QED
      BY <1>4, <3>1, <3>2 DEF Authenticate, RejectBody, CrashRequest
  <2> QED
    BY <1>1, <1>2, <2>1, <2>2, ApiFrame
<1>5. CASE InsertSession(r)
  <2>1. PICK k \in SKUs, s \in FreshIDs :
          /\ rows' \in {rows, CreateSession(s, requests[r].user, k)}
          /\ Proceed(r, "enqueue", s, Nil) \/ Proceed(r, "done", s, "400")
    BY <1>5 DEF InsertSession
  <2>2. r \in Creates /\ UNCHANGED tasks
    BY <1>5 DEF InsertSession
  <2>3. s \in Sessions /\ (\A c \in Creates : requests[c].session # s)
    BY DEF FreshIDs
  <2>4. ~Exists(s)
    BY <2>3 DEF LaunchInv, RowsHavePosts
  <2>5. \A c \in Creates : requests'[c].session = IF c = r THEN s ELSE requests[c].session
    BY <1>1, <2>1 DEF Proceed, ServiceTypeOK, Request, Requests
  <2>6. \A x \in Sessions \ {s} : rows'[x] = rows[x]
    BY <1>1, <2>1 DEF CreateSession, StoreTypeOK
  <2>7. \A v \in Workers : Busy(v) => SessionOf(v) \in Sessions
    BY DEF LaunchInv, TypeInv, HandlersHaveTasks, TasksHaveSessions, SessionOf
  <2>8. \A v \in Workers : workers[v].pc \in ProvisionPCs => SessionOf(v) \in Sessions \ {s}
    BY <2>4, <2>7 DEF LaunchInv, HandlersKnowTheirRow, Busy, ProvisionPCs
  <2>9. \A i \in Instances : instances[i].session # Nil => instances[i].session \in Sessions \ {s}
    BY <2>4 DEF LaunchInv, TypeInv, TypeOK, Ec2TypeOK, Instance, ClaimBeforeLaunch, Exists
  <2>10. OneHandlerPerTask' /\ AtMostOneLaunch'
    BY <1>1, <2>2 DEF LaunchInv, OneHandlerPerTask, Busy, AtMostOneLaunch
  <2>11. OnePostPerSession'
    BY <2>3, <2>5 DEF LaunchInv, OnePostPerSession
  <2>12. RowsHavePosts'
    <3>1. requests[r].session = Nil
      BY <1>5, <2>2 DEF InsertSession, LaunchInv, TypeInv, TasksHaveSessions
    <3>2. ASSUME NEW x \in Sessions \ {s}, Exists(x)'
          PROVE  \E c \in Creates : requests'[c].session = x
      <4>1. PICK c \in Creates : requests[c].session = x
        BY <2>6, <3>2 DEF LaunchInv, RowsHavePosts, Exists
      <4>2. c # r
        BY <3>1, <3>2, <4>1, DeploymentAssumption
      <4> QED
        BY <2>5, <4>1, <4>2
    <3>3. requests'[r].session = s
      BY <2>2, <2>5
    <3> QED
      BY <2>2, <3>2, <3>3 DEF RowsHavePosts
  <2>13. HandlersKnowTheirRow'
    BY <1>1, <2>2, <2>6, <2>8 DEF LaunchInv, HandlersKnowTheirRow, SessionOf, Exists
  <2>14. ClaimBeforeLaunch'
    BY <1>1, <2>2, <2>6, <2>9 DEF LaunchInv, ClaimBeforeLaunch, SessionOf
  <2> QED
    BY <2>10, <2>11, <2>12, <2>13, <2>14 DEF LaunchInv
<1>6. CASE LookupSession(r)
  <2>1. \A c \in Creates : requests'[c].session = requests[c].session
    BY <1>1, <1>6, DeploymentAssumption DEF LookupSession, Proceed, ServiceTypeOK, Requests
  <2> QED
    BY <1>1, <1>2, <1>6, <2>1, ApiFrame DEF LookupSession
<1>7. CASE SetTerminating(r)
  <2>1. requests[r].session \in Sessions /\ UNCHANGED tasks
    BY <1>7 DEF SetTerminating, LaunchInv, TypeInv, TasksHaveSessions
  <2>2. rows' \in {rows, SetSessionStatus(requests[r].session, "terminating")}
    BY <1>7 DEF SetTerminating
  <2>3. NoReset
    BY <1>1, <2>1, <2>2, StatementsDoNotReset DEF Statuses
  <2>4. \A c \in Creates : requests'[c].session = requests[c].session
    BY <1>3, <1>7 DEF SetTerminating, Reply
  <2> QED
    BY <1>1, <2>1, <2>3, <2>4, ApiFrame
<1>8. CASE EnqueueTask(r)
  <2>1. tasks[r].state = "none"
    BY <1>8 DEF EnqueueTask, LaunchInv, TypeInv, TasksHaveSessions
  <2>2. \A t \in Requests : tasks[t].state # "none" => tasks'[t] = tasks[t]
    BY <1>1, <1>8, <2>1 DEF EnqueueTask, Enqueued, QueueTypeOK
  <2>3. \A c \in Creates : requests'[c].session = requests[c].session
    BY <1>3, <1>8 DEF EnqueueTask, Reply
  <2> QED
    BY <1>1, <1>2, <1>8, <2>2, <2>3, ApiFrame DEF EnqueueTask
<1> QED
  BY <1>4, <1>5, <1>6, <1>7, <1>8 DEF Api, RequestStep

(* Every step of asynq does, unless a lease is lost: a task goes to a worker *)
(* only when no other worker is still at it.                                 *)
LEMMA QueueLaunchInv ==
  ASSUME "lease" \notin Faults, LaunchInv, TypeInv', Queue
  PROVE  LaunchInv'
<1>1. /\ QueueTypeOK
      /\ UNCHANGED <<rows, requests, instances>>
  BY DEF LaunchInv, TypeInv, TypeOK, Queue
<1>2. OnePostPerSession' /\ RowsHavePosts' /\ AtMostOneLaunch'
  BY <1>1 DEF LaunchInv, OnePostPerSession, RowsHavePosts, AtMostOneLaunch, Exists
(* It is enough that handlers in their provision part are not new.           *)
<1>3. ASSUME OneHandlerPerTask',
             \A v \in Workers : workers'[v].pc \in ProvisionPCs =>
               workers'[v].pc = workers[v].pc /\ SessionOf(v)' = SessionOf(v)
      PROVE  LaunchInv'
  <2>1. HandlersKnowTheirRow'
    BY <1>1, <1>3 DEF LaunchInv, HandlersKnowTheirRow, Exists
  <2>2. ClaimBeforeLaunch'
    BY <1>1, <1>3 DEF LaunchInv, ClaimBeforeLaunch, ProvisionPCs
  <2> QED
    BY <1>2, <1>3, <2>1, <2>2 DEF LaunchInv
<1>4. ASSUME NEW w \in Workers, NEW t \in Requests, Dequeue(w, t)
      PROVE  LaunchInv'
  <2>1. \A v \in Workers : Busy(v) => workers[v].task # t
    BY <1>4 DEF Dequeue, LaunchInv, OneHandlerPerTask
  <2>2. /\ workers'[w] = [pc |-> "get", task |-> t, leased |-> TRUE, node |-> Nil]
        /\ \A v \in Workers \ {w} : workers'[v] = workers[v]
        /\ tasks'[t].state = "active"
        /\ \A x \in Requests : tasks'[x].session = tasks[x].session
        /\ \A x \in Requests \ {t} : tasks'[x] = tasks[x]
    BY <1>1, <1>4 DEF Dequeue, QueueTypeOK, Task
  <2>3. \A v \in Workers : Busy(v) => workers[v].task \in Requests
    BY DEF LaunchInv, TypeInv, HandlersHaveTasks
  <2>4. OneHandlerPerTask'
    BY <2>1, <2>2, <2>3 DEF LaunchInv, OneHandlerPerTask, Busy
  <2>5. \A v \in Workers : workers'[v].pc \in ProvisionPCs =>
          workers'[v].pc = workers[v].pc /\ SessionOf(v)' = SessionOf(v)
    BY <2>2, <2>3 DEF ProvisionPCs, SessionOf, Busy
  <2> QED
    BY <1>3, <2>4, <2>5
<1>5. ASSUME NEW w \in Workers, CrashWorker(w) \/ ShutdownWorker(w)
      PROVE  LaunchInv'
  <2>1. /\ Busy(w) /\ workers[w].task \in Requests
        /\ workers' = [workers EXCEPT ![w] = IdleWorker]
    BY <1>5 DEF CrashWorker, ShutdownWorker, LaunchInv, TypeInv, HandlersHaveTasks
  <2>2. /\ \A x \in Requests : tasks'[x].session = tasks[x].session
        /\ \A x \in Requests \ {workers[w].task} : tasks'[x] = tasks[x]
    BY <1>1, <1>5, <2>1 DEF CrashWorker, ShutdownWorker, QueueTypeOK, Task
  <2>3. \A v \in Workers : Busy(v)' => v # w /\ workers'[v] = workers[v] /\ Busy(v)
    BY <1>1, <2>1 DEF Busy, IdleWorker, QueueTypeOK
  <2>4. \A v \in Workers : Busy(v) => workers[v].task \in Requests
    BY DEF LaunchInv, TypeInv, HandlersHaveTasks
  <2>5. \A v \in Workers : Busy(v)' => workers[v].task # workers[w].task
    BY <2>1, <2>3 DEF LaunchInv, OneHandlerPerTask
  <2>6. OneHandlerPerTask'
    BY <2>2, <2>3, <2>4, <2>5 DEF LaunchInv, OneHandlerPerTask
  <2>7. \A v \in Workers : workers'[v].pc \in ProvisionPCs =>
          workers'[v].pc = workers[v].pc /\ SessionOf(v)' = SessionOf(v)
    <3>1. \A v \in Workers : workers'[v].pc \in ProvisionPCs => Busy(v)'
      BY DEF Busy, ProvisionPCs
    <3> QED
      BY <2>2, <2>3, <2>4, <3>1 DEF SessionOf
  <2> QED
    BY <1>3, <2>6, <2>7
<1>6. ASSUME NEW t \in Requests, Recover(t)
      PROVE  LaunchInv'
  <2>1. \A v \in Workers : Busy(v) => workers[v].task # t
    BY <1>6 DEF Recover, LaunchInv, OneHandlerPerTask
  <2>2. /\ UNCHANGED workers
        /\ \A x \in Requests : tasks'[x].session = tasks[x].session
        /\ \A x \in Requests \ {t} : tasks'[x] = tasks[x]
    BY <1>1, <1>6, RetriedFacts DEF Recover, QueueTypeOK
  <2>3. \A v \in Workers : Busy(v) => workers[v].task \in Requests
    BY DEF LaunchInv, TypeInv, HandlersHaveTasks
  <2>4. OneHandlerPerTask'
    BY <2>1, <2>2, <2>3 DEF LaunchInv, OneHandlerPerTask, Busy
  <2>5. \A v \in Workers : workers'[v].pc \in ProvisionPCs =>
          workers'[v].pc = workers[v].pc /\ SessionOf(v)' = SessionOf(v)
    BY <2>2, <2>3 DEF ProvisionPCs, SessionOf, Busy
  <2> QED
    BY <1>3, <2>4, <2>5
<1> QED
  BY <1>4, <1>5, <1>6 DEF Queue, LoseLease

(* LaunchInv is inductive.                                                   *)
LEMMA NextLaunchInv ==
  ASSUME "lease" \notin Faults
  PROVE  LaunchInv /\ [Next]_vars => LaunchInv'
<1> SUFFICES ASSUME LaunchInv, [Next]_vars
             PROVE  LaunchInv'
  OBVIOUS
<1>1. TypeInv'
  BY NextTypeInv DEF LaunchInv
<1>2. CASE UNCHANGED vars
  <2>1. OneHandlerPerTask' /\ OnePostPerSession' /\ RowsHavePosts' /\ AtMostOneLaunch'
    BY <1>2 DEF vars, LaunchInv, OneHandlerPerTask, OnePostPerSession, RowsHavePosts,
                AtMostOneLaunch, Exists, Busy
  <2>2. HandlersKnowTheirRow' /\ ClaimBeforeLaunch'
    BY <1>2 DEF vars, LaunchInv, HandlersKnowTheirRow, ClaimBeforeLaunch, Exists, SessionOf
  <2> QED
    BY <1>1, <2>1, <2>2 DEF LaunchInv
<1>3. ASSUME NEW r \in Requests, Api(r)
      PROVE  LaunchInv'
  BY <1>1, <1>3, ApiLaunchInv
<1>4. CASE Queue
  BY <1>1, <1>4, QueueLaunchInv
<1>5. CASE Handlers
  BY <1>1, <1>5, HandlerLaunchInv DEF Handlers
<1> QED
  BY <1>2, <1>3, <1>4, <1>5 DEF Next

(* One handler per task, one POST per session, a claim before a launch, and  *)
(* a row that never turns pending again: as long as no worker runs on after  *)
(* it has lost its lease.                                                    *)
THEOREM LaunchInvariant ==
  ASSUME "lease" \notin Faults
  PROVE  Spec => []LaunchInv
<1>1. LaunchInv /\ [Next]_vars => LaunchInv'
  BY NextLaunchInv
<1> QED
  BY <1>1, InitLaunchInv, PTL DEF Spec

(* EC2 is asked for an instance at most once per session - through retries,  *)
(* crashes, shutdowns, failed statements and calls, and DELETEs at any time -*)
(* as long as no worker runs on after it has lost its lease.                 *)
THEOREM OneLaunchPerSession ==
  ASSUME "lease" \notin Faults
  PROVE  Spec => []AtMostOneLaunch
<1>1. Spec => []LaunchInv
  BY LaunchInvariant
<1>2. LaunchInv => AtMostOneLaunch
  BY DEF LaunchInv
<1> QED
  BY <1>1, <1>2, PTL
=============================================================================
