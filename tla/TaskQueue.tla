------------------------------ MODULE TaskQueue ------------------------------
(* The asynq queue in Redis and the worker goroutines of the orchestrators   *)
(* that serve it. asynq itself is not in the repository: its part here is    *)
(* what internal/jobs, sessions.Service and cmd/orchestrator rely on - at    *)
(* least one delivery, a retry after an error until the task's MaxRetry is   *)
(* used up, recovery of a task whose worker's lease ran out. A request       *)
(* enqueues at most one task, so a task is named after its request. A task   *)
(* waiting for its retry delay is "pending": it may be dequeued at any time. *)
EXTENDS Deployment

VARIABLES
  tasks,              \* tasks[t]: the task that request t enqueued
  workers             \* workers[w]: the handler that worker w is running

NoTask == [state |-> "none", session |-> Nil, retried |-> 0]

IdleWorker == [pc |-> "idle", task |-> Nil, leased |-> FALSE, node |-> Nil]

ProvisionPCs == {"claim", "launch", "boot", "script", "cleanup", "fail", "ready"}
TerminatePCs == {"terminate", "mark"}
PCs == {"idle", "get"} \cup ProvisionPCs \cup TerminatePCs

Task == [state : {"none", "pending", "active", "completed", "archived"},
         session : Sessions \cup {Nil}, retried : Nat]

Worker == [pc : PCs, task : Requests \cup {Nil}, leased : BOOLEAN,
           node : Instances \cup {Nil}]

QueueInit ==
  /\ tasks = [t \in Requests |-> NoTask]
  /\ workers = [w \in Workers |-> IdleWorker]

IsProvision(t) == t \in Creates

BudgetOf(t) == IF IsProvision(t) THEN ProvisionMaxRetry ELSE TerminateMaxRetry

(* Each kind of task has its own budget.                                     *)
RetriesWithinBudget == \A t \in Requests : tasks[t].retried <= BudgetOf(t)

QueueTypeOK ==
  /\ tasks \in [Requests -> Task]
  /\ workers \in [Workers -> Worker]
  /\ RetriesWithinBudget

Busy(w) == workers[w].pc # "idle"
SessionOf(w) == tasks[workers[w].task].session

(* NewProvision or NewTerminate, then EnqueueContext.                        *)
Enqueued(t, s) ==
  [tasks EXCEPT ![t] = [state |-> "pending", session |-> s, retried |-> 0]]

(* Slip, for the mutation checks: the retries are counted from one.          *)
RetriedOnceMore(t) ==
  LET task == tasks[t]
  IN IF task.retried <= BudgetOf(t)
     THEN [tasks EXCEPT ![t] = [task EXCEPT !.state = "pending", !.retried = task.retried + 1]]
     ELSE [tasks EXCEPT ![t].state = "archived"]

(* A failed attempt: another one while the budget lasts.                     *)
Retried(t) ==
  LET task == tasks[t]
  IN IF task.retried < BudgetOf(t)
     THEN [tasks EXCEPT ![t] = [task EXCEPT !.state = "pending", !.retried = task.retried + 1]]
     ELSE [tasks EXCEPT ![t].state = "archived"]

Dequeue(w, t) ==
  /\ ~Busy(w)
  /\ tasks[t].state = "pending"
  /\ tasks' = [tasks EXCEPT ![t].state = "active"]
  /\ workers' = [workers EXCEPT ![w] =
       [pc |-> "get", task |-> t, leased |-> TRUE, node |-> Nil]]

(* What the handler does next, on the same worker.                           *)
Goto(w, pc, node) ==
  /\ workers' = [workers EXCEPT ![w].pc = pc, ![w].node = node]
  /\ UNCHANGED tasks

(* The handler returns. The outcome counts only under the lease.             *)
ReturnNil(w) ==
  /\ workers' = [workers EXCEPT ![w] = IdleWorker]
  /\ tasks' = IF workers[w].leased
              THEN [tasks EXCEPT ![workers[w].task].state = "completed"] ELSE tasks

ReturnErr(w) ==
  /\ workers' = [workers EXCEPT ![w] = IdleWorker]
  /\ tasks' = IF workers[w].leased THEN Retried(workers[w].task) ELSE tasks

(* The orchestrator stops abruptly: the handler is gone, the task is still   *)
(* active and under no lease.                                                *)
CrashWorker(w) ==
  /\ "crash" \in Faults
  /\ Busy(w)
  /\ workers' = [workers EXCEPT ![w] = IdleWorker]
  /\ UNCHANGED tasks

(* srv.Shutdown gives up waiting for the handler, requeues its task without  *)
(* counting a retry, and the process exits: one step, as nothing of the      *)
(* process outlives the requeue for long.                                    *)
ShutdownWorker(w) ==
  /\ "crash" \in Faults
  /\ Busy(w)
  /\ workers[w].leased
  /\ workers' = [workers EXCEPT ![w] = IdleWorker]
  /\ tasks' = [tasks EXCEPT ![workers[w].task].state = "pending"]

(* The heartbeat did not extend the lease in time (Redis away, the process   *)
(* suspended). The goroutine runs on, from now on on a context that may be   *)
(* cancelled under any of its calls.                                         *)
LoseLease(w) ==
  /\ "lease" \in Faults
  /\ Busy(w)
  /\ workers[w].leased
  /\ workers' = [workers EXCEPT ![w].leased = FALSE]
  /\ UNCHANGED tasks

(* The recoverer finds an active task whose lease has run out.               *)
Recover(t) ==
  /\ tasks[t].state = "active"
  /\ \A w \in Workers : ~(workers[w].leased /\ workers[w].task = t)
  /\ tasks' = Retried(t)
  /\ UNCHANGED workers

=============================================================================
