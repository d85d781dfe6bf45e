--------------------------- MODULE SessionService ---------------------------
(* The API: the auth middleware, then handleCreateSession and                *)
(* handleDeleteSession of cmd/api with sessions.Service.Create and Terminate *)
(* behind them. A request runs on a goroutine of its own, one action per     *)
(* database or queue call, all of them on the request's context, and other   *)
(* processes run in between. GET /v1/sessions/{id} only shows a client the   *)
(* status (Seen); GET /v1/me and the probes touch nothing of the model.      *)
EXTENDS SessionStore, UserStore, TaskQueue

VARIABLE requests     \* requests[r]: where the goroutine of request r is

(* subject and user are the Claims the middleware puts into the context.     *)
NoRequest ==
  [pc |-> "idle", subject |-> Nil, user |-> Nil, session |-> Nil, response |-> Nil]

Responses == {"202", "400", "401", "404", "500"}

ASSUME ServiceAssumption == Nil \notin Responses

Request == [pc : {"idle", "authed", "set", "enqueue", "done"},
            subject : Subjects \cup {Nil}, user : Users \cup {Nil},
            session : Sessions \cup {Nil}, response : Responses \cup {Nil}]

ServiceTypeOK == requests \in [Requests -> Request]
ServiceInit   == requests = [r \in Requests |-> NoRequest]

(* newSessionID: 96 random bits, never drawn twice.                          *)
FreshIDs == Sessions \ {requests[r].session : r \in Creates}

(* A call of the request to the database ("db") or the queue ("redis") may   *)
(* fail by itself, or because the client has gone.                           *)
RequestCallMayFail(kind) == kind \in Faults \/ "hangup" \in Faults

Proceed(r, pc, s, response) ==
  requests' = [requests EXCEPT ![r].pc = pc, ![r].session = s, ![r].response = response]

Reply(r, response) == Proceed(r, "done", requests[r].session, response)

(* Middleware: without a valid token 401; UpsertUser fails, executed or not, *)
(* 500; otherwise the handler runs with the claims of subject c.             *)
Authenticate(r) ==
  /\ requests[r].pc = "idle"
  /\ \/ Reply(r, "401") /\ UNCHANGED users
     \/ \E c \in Subjects : \E u \in Upserted(c) :
          \/ /\ users' = UpsertUser(c, u)
             /\ requests' = [requests EXCEPT
                  ![r] = [NoRequest EXCEPT !.pc = "authed", !.subject = c, !.user = u]]
          \/ /\ RequestCallMayFail("db")
             /\ users' \in {users, UpsertUser(c, u)}
             /\ Reply(r, "500")
  /\ UNCHANGED <<rows, tasks, workers>>

(* A POST with a broken body, or without sku or region.                      *)
RejectBody(r) ==
  /\ r \in Creates
  /\ requests[r].pc = "authed"
  /\ Reply(r, "400")
  /\ UNCHANGED <<users, rows, tasks, workers>>

(* Create up to its INSERT. An error is answered 400, the row may exist.     *)
InsertSession(r) ==
  /\ r \in Creates
  /\ requests[r].pc = "authed"
  /\ \E k \in SKUs, s \in FreshIDs :
       LET inserted == CreateSession(s, requests[r].user, k)
       IN \/ /\ Proceed(r, "enqueue", s, Nil)
             /\ rows' = inserted
          \/ /\ RequestCallMayFail("db")
             /\ Proceed(r, "done", s, "400")
             /\ rows' \in {rows, inserted}
  /\ UNCHANGED <<users, tasks, workers>>

(* What GET has shown a patient client of the session it is about to DELETE. *)
Seen(s) == ~PatientClients \/ rows[s].status \notin {"pending", "provisioning"}

(* Slip, for the mutation checks: a session in error is taken for one that is gone. *)
LookupSessionErrorIsGone(r) ==
  /\ r \in Deletes
  /\ requests[r].pc = "authed"
  /\ \E s \in {x \in Sessions : Seen(x)} :
       \/ ~FoundForUser(s, requests[r].user) /\ Proceed(r, "done", s, "404")
       \/ /\ FoundForUser(s, requests[r].user)
          /\ IF rows[s].status \in {"terminated", "terminating", "error"}
             THEN Proceed(r, "done", s, "202") ELSE Proceed(r, "set", s, Nil)
  /\ UNCHANGED <<users, rows, tasks, workers>>

(* Terminate's GetForUser, and its early return for a session that is        *)
(* already terminating or terminated.                                        *)
LookupSession(r) ==
  /\ r \in Deletes
  /\ requests[r].pc = "authed"
  /\ \E s \in {x \in Sessions : Seen(x)} :
       \/ ~FoundForUser(s, requests[r].user) /\ Proceed(r, "done", s, "404")
       \/ RequestCallMayFail("db") /\ Proceed(r, "done", s, "500")
       \/ /\ FoundForUser(s, requests[r].user)
          /\ IF rows[s].status \in {"terminated", "terminating"}
             THEN Proceed(r, "done", s, "202") ELSE Proceed(r, "set", s, Nil)
  /\ UNCHANGED <<users, rows, tasks, workers>>

(* SetSessionStatus(terminating), whatever the status has become since.      *)
SetTerminating(r) ==
  /\ requests[r].pc = "set"
  /\ LET marked == SetSessionStatus(requests[r].session, "terminating")
     IN \/ /\ Proceed(r, "enqueue", requests[r].session, Nil)
           /\ rows' = marked
        \/ /\ RequestCallMayFail("db")
           /\ Reply(r, "500")
           /\ rows' \in {rows, marked}
  /\ UNCHANGED <<users, tasks, workers>>

(* Slip, for the mutation checks: an error of EnqueueContext is dropped.     *)
EnqueueTaskDroppingErrors(r) ==
  /\ requests[r].pc = "enqueue"
  /\ Reply(r, "202")
  /\ tasks' \in {tasks, Enqueued(r, requests[r].session)}
  /\ UNCHANGED <<users, rows, workers>>

(* EnqueueContext and the answer. An error leaves the row as it is.          *)
EnqueueTask(r) ==
  /\ requests[r].pc = "enqueue"
  /\ LET enqueued == Enqueued(r, requests[r].session)
     IN \/ /\ Reply(r, "202")
           /\ tasks' = enqueued
        \/ /\ RequestCallMayFail("redis")
           /\ Reply(r, IF IsProvision(r) THEN "400" ELSE "500")
           /\ tasks' \in {tasks, enqueued}
  /\ UNCHANGED <<users, rows, workers>>

(* The API process stops under the request: no answer.                       *)
CrashRequest(r) ==
  /\ "crash" \in Faults
  /\ requests[r].pc \in {"authed", "set", "enqueue"}
  /\ Reply(r, Nil)
  /\ UNCHANGED <<users, rows, tasks, workers>>

(* What the goroutine of a request does once the middleware has let it in.   *)
RequestStep(r) ==
  RejectBody(r) \/ InsertSession(r) \/ LookupSession(r) \/ SetTerminating(r) \/ EnqueueTask(r)

=============================================================================
