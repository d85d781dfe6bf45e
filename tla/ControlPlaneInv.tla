--------------------------- MODULE ControlPlaneInv ---------------------------
(* The inductive invariants that carry the theorems of the control plane's   *)
(* proof modules, conjunct by conjunct. They are kept here, without proofs,  *)
(* so that TLC checks them too.                                              *)
EXTENDS ControlPlane

(* A running handler has a task, of its own type, that was enqueued.         *)
HandlersHaveTasks ==
  \A w \in Workers : Busy(w) =>
    /\ workers[w].task \in Requests
    /\ tasks[workers[w].task].state # "none"
    /\ workers[w].pc \in ProvisionPCs => workers[w].task \in Creates
    /\ workers[w].pc \in TerminatePCs => workers[w].task \in Deletes

(* A task carries the session of its request, which is answered by then.     *)
TasksHaveSessions ==
  /\ \A r \in Requests : requests[r].pc \in {"idle", "authed"} => requests[r].session = Nil
  /\ \A r \in Requests : requests[r].pc \in {"set", "enqueue"} => requests[r].session \in Sessions
  /\ \A r \in Creates : requests[r].pc # "set"
  /\ \A t \in Requests : tasks[t].state # "none" =>
       /\ requests[t].pc = "done"
       /\ requests[t].session \in Sessions
       /\ tasks[t].session = requests[t].session

(* Holds under every fault.                                                  *)
TypeInv == TypeOK /\ HandlersHaveTasks /\ TasksHaveSessions

(* No two POSTs draw the same id.                                            *)
OnePostPerSession ==
  \A c, d \in Creates :
    requests[c].session = requests[d].session /\ requests[c].session # Nil => c = d

RowsHavePosts ==
  \A s \in Sessions : Exists(s) => \E c \in Creates : requests[c].session = s

-----------------------------------------------------------------------------

(* No two subjects have the same row in users.                               *)
UsersDistinct ==
  \A c, d \in Subjects : users[c] = users[d] /\ users[c] # Nil => c = d

(* The claims of a request name its subject's row, now and later.            *)
ClaimsMatchUsers ==
  \A r \in Requests :
    /\ requests[r].pc \in {"authed", "set", "enqueue"} => requests[r].user # Nil
    /\ requests[r].session # Nil => requests[r].user # Nil
    /\ requests[r].user # Nil => /\ requests[r].subject \in Subjects
                                /\ users[requests[r].subject] = requests[r].user

RowsOwnedByPosters ==
  \A c \in Creates, s \in Sessions :
    requests[c].session = s /\ Exists(s) => rows[s].owner = requests[c].user

(* Only the owner's DELETE got, or gets, as far as a terminate task.         *)
DeletesByOwners ==
  \A r \in Deletes :
    requests[r].pc \in {"set", "enqueue"} \/ tasks[r].state # "none" =>
      FoundForUser(requests[r].session, requests[r].user)

(* Holds under every fault.                                                  *)
TenantInv ==
  /\ TypeInv
  /\ OnePostPerSession
  /\ RowsHavePosts
  /\ UsersDistinct
  /\ ClaimsMatchUsers
  /\ RowsOwnedByPosters
  /\ DeletesByOwners

-----------------------------------------------------------------------------

InHandPCs == {"boot", "script", "cleanup", "ready"}

InHand(w, i) == workers[w].pc \in InHandPCs /\ workers[w].node = i

(* EC2 has not launched what has no session; a row without a status is blank.*)
BlanksAreBlank ==
  /\ \A i \in Instances : instances[i].state = "none" <=> instances[i].session = Nil
  /\ \A s \in Sessions : ~Exists(s) => rows[s].instance_id = Nil

(* What a provision handler has in hand is its session's, runs, and nobody   *)
(* else has it.                                                              *)
NodesInHand ==
  /\ \A w \in Workers : workers[w].pc \in InHandPCs =>
       /\ workers[w].node \in Instances
       /\ instances[workers[w].node] = [state |-> "live", session |-> SessionOf(w)]
  /\ \A v, w \in Workers, i \in Instances : InHand(v, i) /\ InHand(w, i) => v = w

(* What a row records, or a terminate handler has read there, is the         *)
(* session's and in nobody's hands any more.                                 *)
HandedOver(i, s) ==
  /\ i \in Instances
  /\ instances[i].session = s
  /\ \A w \in Workers : ~InHand(w, i)

RecordedNodes ==
  /\ \A s \in Sessions :
       rows[s].instance_id # Nil => HandedOver(rows[s].instance_id, s)
  /\ \A w \in Workers :
       workers[w].pc = "terminate" => HandedOver(workers[w].node, SessionOf(w))

(* Holds under every fault.                                                  *)
NodeInv == TypeInv /\ BlanksAreBlank /\ NodesInHand /\ RecordedNodes

-----------------------------------------------------------------------------

(* Without the fault "lease" a task is in the hands of one worker at most.   *)
OneHandlerPerTask ==
  /\ \A w \in Workers : Busy(w) =>
       workers[w].leased /\ tasks[workers[w].task].state = "active"
  /\ \A v, w \in Workers :
       Busy(v) /\ Busy(w) /\ workers[v].task = workers[w].task => v = w

(* What a provision handler knows of its row from claim on: other processes  *)
(* may have changed the status, but none of them can make it pending again.  *)
HandlersKnowTheirRow ==
  \A w \in Workers :
    /\ workers[w].pc \in ProvisionPCs => Exists(SessionOf(w))
    /\ workers[w].pc \in ProvisionPCs \ {"claim"} => rows[SessionOf(w)].status # "pending"

(* Nothing has been launched for a session that nobody has claimed yet, nor  *)
(* for one whose claimant is still about to launch.                          *)
ClaimBeforeLaunch ==
  \A i \in Instances : instances[i].session # Nil =>
    /\ rows[instances[i].session].status \notin {"none", "pending"}
    /\ \A w \in Workers :
         workers[w].pc \in {"claim", "launch"} => SessionOf(w) # instances[i].session

LaunchInv ==
  /\ TypeInv
  /\ OneHandlerPerTask
  /\ OnePostPerSession
  /\ RowsHavePosts
  /\ HandlersKnowTheirRow
  /\ ClaimBeforeLaunch
  /\ AtMostOneLaunch

-----------------------------------------------------------------------------
(* What bounds the launches when workers outlive their leases, too.          *)

(* Handlers of task t that have not launched yet and still may.              *)
Attempts(t) ==
  {w \in Workers : /\ workers[w].task = t
                   /\ \/ workers[w].pc \in {"claim", "launch"}
                      \/ workers[w].pc = "get" /\ rows[tasks[t].session].status = "pending"}

(* Every one of them but the last has cost a retry.                          *)
Allowed(t) == tasks[t].retried + IF tasks[t].state = "pending" THEN 0 ELSE 1

AttemptsWithinBudget(t) ==
  LET s == tasks[t].session
  IN /\ tasks[t].retried <= ProvisionMaxRetry
     /\ IsFiniteSet(LaunchedFor(s))
     /\ Cardinality(LaunchedFor(s)) + Cardinality(Attempts(t)) <= ProvisionMaxRetry + 1
     /\ rows[s].status = "pending" => Cardinality(Attempts(t)) <= Allowed(t)

(* What has been launched was launched by a provision task past its claim.   *)
LaunchesHaveTasks ==
  \A i \in Instances : instances[i].session # Nil =>
    /\ rows[instances[i].session].status \notin {"none", "pending"}
    /\ \E t \in Creates : tasks[t].state # "none" /\ tasks[t].session = instances[i].session

(* Holds under every fault.                                                  *)
BudgetInv ==
  /\ TenantInv
  /\ HandlersKnowTheirRow
  /\ LaunchesHaveTasks
  /\ \A t \in Creates : tasks[t].state # "none" => AttemptsWithinBudget(t)

-----------------------------------------------------------------------------

(* When a failed AWS call has had no effect: a handler that is about to      *)
(* write error has left nothing running, and nobody provisions after error.  *)
FailuresAreClean ==
  /\ \A w \in Workers : workers[w].pc = "fail" => Live(SessionOf(w)) = {}
  /\ \A s \in Sessions : rows[s].status = "error" =>
       /\ Live(s) = {}
       /\ \A w \in Workers : workers[w].pc \in ProvisionPCs => SessionOf(w) # s

(* When moreover no statement fails and no process stops: what runs is in    *)
(* its row or in somebody's hands.                                           *)
NodesAreKnown ==
  \A s \in Sessions : \A i \in Live(s) :
    rows[s].instance_id = i \/ \E w \in Workers : InHand(w, i)

(* When no process stops: an active task has its handler.                    *)
ActiveTasksRun ==
  \A t \in Requests : tasks[t].state = "active" =>
    \E w \in Workers : Busy(w) /\ workers[w].task = t

(* A task that has not been enqueued has its whole budget ahead of it.       *)
UntriedBeforeEnqueue ==
  \A t \in Requests : tasks[t].state = "none" => tasks[t].retried = 0

WorkInv == ActiveTasksRun /\ UntriedBeforeEnqueue

(* When moreover no statement and no enqueue fails: a session whose row, or  *)
(* whose client, was told of the teardown has a teardown task, and it does   *)
(* not go to the archive.                                                    *)
HasTeardown(s) ==
  \E t \in Deletes : /\ requests[t].session = s
                     /\ \/ requests[t].pc = "enqueue"
                        \/ tasks[t].state \in {"pending", "active", "completed"}

AcceptedDeletesLast ==
  /\ \A s \in Sessions : rows[s].status \in {"terminating", "terminated"} => HasTeardown(s)
  /\ \A r \in Deletes : requests[r].response = "202" => HasTeardown(requests[r].session)

JobsInv == ActiveTasksRun /\ JobsBehindRows /\ AcceptedDeletesLast

(* A row that says ready says which node.                                    *)
ReadyIsRecorded ==
  \A s \in Sessions : rows[s].status = "ready" => rows[s].instance_id # Nil

-----------------------------------------------------------------------------
(* What patient clients make of it: DELETE and provisioning never overlap.   *)

DeletesComeLate ==
  \A r \in Deletes :
    /\ requests[r].pc = "set" =>
         rows[requests[r].session].status \in {"ready", "error", "terminating", "terminated"}
    /\ requests[r].pc = "enqueue" \/ tasks[r].state # "none" =>
         rows[requests[r].session].status \in {"terminating", "terminated"}

HandlerMatchesStatus(w) ==
  /\ workers[w].pc = "claim" => rows[SessionOf(w)].status = "pending"
  /\ workers[w].pc \in ProvisionPCs \ {"claim"} => rows[SessionOf(w)].status = "provisioning"
  /\ workers[w].pc = "mark" => Live(SessionOf(w)) = {}
  /\ workers[w].pc = "terminate" => rows[SessionOf(w)].instance_id = workers[w].node

HandlersMatchStatus == \A w \in Workers : HandlerMatchesStatus(w)

NodesMatchStatus ==
  \A s \in Sessions :
    /\ rows[s].status \in {"none", "pending", "error", "terminated"} => Live(s) = {}
    /\ rows[s].status = "ready" => rows[s].instance_id \in Live(s)
    /\ rows[s].status = "terminating" => \A i \in Live(s) : rows[s].instance_id = i

PatientInv ==
  /\ TenantInv
  /\ NodeInv
  /\ LaunchInv
  /\ FailuresAreClean
  /\ DeletesComeLate
  /\ HandlersMatchStatus
  /\ NodesMatchStatus
=============================================================================
