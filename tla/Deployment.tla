----------------------------- MODULE Deployment -----------------------------
(* What one deployment of the gaymr control plane is made of: the ids its    *)
(* parts draw from, the retry budgets of internal/jobs, and the failures its *)
(* environment may produce. Every other module of the control plane extends  *)
(* this one.                                                                 *)
EXTENDS Naturals, FiniteSets

CONSTANTS
  Sessions,           \* ids newSessionID can draw
  Subjects,           \* Clerk subjects that valid tokens carry
  Users,              \* ids the users table can draw
  Creates,            \* POST /session requests
  Deletes,            \* DELETE /session/{id} requests
  Workers,            \* queue worker goroutines, over all orchestrators
  Instances,          \* EC2 instance ids the account can still hand out
  Nil,                \* SQL NULL, a nil pointer, "not yet known"
  ProvisionMaxRetry,  \* asynq.MaxRetry of session:provision tasks
  TerminateMaxRetry,  \* asynq.MaxRetry of session:terminate tasks
  Faults,             \* the kinds of failure the environment may produce
  PatientClients      \* clients DELETE only what they have seen settle

Requests == Creates \cup Deletes

(* "db"     a statement fails, and may have been executed all the same       *)
(* "redis"  an enqueue fails, and may have been executed all the same        *)
(* "hangup" a client goes away: its request's context is cancelled, and a    *)
(*          statement or enqueue of the request fails like under the above   *)
(* "ec2"    an AWS call fails, and may have been executed all the same       *)
(* "boot"   an instance does not reach running, or its script fails          *)
(* "crash"  a process stops, abruptly or at the end of its shutdown timeout  *)
(* "lease"  a worker loses its lease on a task while its handler runs on     *)
FaultKinds == {"db", "redis", "hangup", "ec2", "boot", "crash", "lease"}

SupportedSKU == "g4dn.xlarge"
SKUs == {SupportedSKU, "other"}

ASSUME DeploymentAssumption ==
  /\ Creates \cap Deletes = {}
  /\ Nil \notin Sessions \cup Users \cup Requests \cup Instances \cup SKUs
  /\ ProvisionMaxRetry \in Nat
  /\ TerminateMaxRetry \in Nat
  /\ Faults \subseteq FaultKinds
  /\ PatientClients \in BOOLEAN

=============================================================================
