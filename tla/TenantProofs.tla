---------------------------- MODULE TenantProofs ----------------------------
(* The two tables and the claims in between: in every deployment and under   *)
(* every fault, a session is its poster's and nobody else's.                 *)
EXTENDS ControlPlaneProofs

(* An empty deployment has no users, no rows and no requests.                *)
LEMMA InitTenantInv == Init => TenantInv
<1> SUFFICES ASSUME Init PROVE TenantInv
  OBVIOUS
<1>1. TypeInv
  BY InitTypeInv
<1>2. \A r \in Requests : requests[r] = NoRequest
  BY DEF Init, ServiceInit
<1>3. \A s \in Sessions : ~Exists(s)
  BY DEF Init, StoreInit, NoRow, Exists
<1>4. OnePostPerSession /\ ClaimsMatchUsers
  BY <1>2 DEF OnePostPerSession, ClaimsMatchUsers, NoRequest, Requests
<1>5. RowsHavePosts /\ RowsOwnedByPosters
  BY <1>3 DEF RowsHavePosts, RowsOwnedByPosters
<1>6. UsersDistinct
  BY DEF Init, UserInit, UsersDistinct
<1>7. DeletesByOwners
  BY <1>2 DEF DeletesByOwners, NoRequest, Init, QueueInit, NoTask, Requests
<1> QED
  BY <1>1, <1>4, <1>5, <1>6, <1>7 DEF TenantInv

(* Statements of the handlers and of a DELETE neither add a row nor give one *)
(* to somebody else.                                                         *)
KeepsOwners ==
  \A x \in Sessions : (Exists(x)' <=> Exists(x)) /\ rows'[x].owner = rows[x].owner

(* No UPDATE of the code inserts a row or writes user_id.                    *)
LEMMA StatementsKeepOwners ==
  ASSUME StoreTypeOK, NEW s \in Sessions,
         \/ rows' = rows
         \/ \E st \in Statuses : rows' = SetSessionStatus(s, st)
         \/ \E i \in Instances \cup {Nil} : rows' = SetSessionReady(s, i)
         \/ rows' = SetSessionError(s)
         \/ rows' = SetSessionTerminated(s)
  PROVE  KeepsOwners
<1> USE DEF KeepsOwners, Exists
<1>1. CASE rows' = rows
  BY <1>1
<1>2. ASSUME NEW st \in Statuses, rows' = SetSessionStatus(s, st)
      PROVE  KeepsOwners
  BY <1>2 DEF SetSessionStatus, Updated, StoreTypeOK, Row, Statuses
<1>3. ASSUME NEW i \in Instances \cup {Nil}, rows' = SetSessionReady(s, i)
      PROVE  KeepsOwners
  BY <1>3 DEF SetSessionReady, Updated, StoreTypeOK, Row
<1>4. CASE rows' = SetSessionError(s)
  BY <1>4 DEF SetSessionError, Updated, StoreTypeOK, Row
<1>5. CASE rows' = SetSessionTerminated(s)
  BY <1>5 DEF SetSessionTerminated, Updated, StoreTypeOK, Row
<1> QED
  BY <1>1, <1>2, <1>3, <1>4, <1>5

(* A step of a handler is one of those statements, or none.                  *)
LEMMA HandlersKeepOwners ==
  ASSUME TypeInv, NEW w \in Workers, HandlerStep(w)
  PROVE  KeepsOwners
<1>1. StoreTypeOK
  BY DEF TypeInv, TypeOK
<1>2. Busy(w) => SessionOf(w) \in Sessions /\ workers[w].node \in Instances \cup {Nil}
  BY DEF TypeInv, TypeOK, HandlersHaveTasks, TasksHaveSessions, SessionOf, QueueTypeOK, Worker
<1>3. CASE UNCHANGED rows
  BY <1>3 DEF KeepsOwners, Exists
<1>4. CASE GetFails(w) \/ GetForProvision(w) \/ Provision(w) \/ GetForTerminate(w) \/ TerminateNode(w)
  BY <1>3, <1>4 DEF GetFails, GetForProvision, Provision, GetForTerminate, TerminateNode
<1>5. CASE Claim(w)
  <2>1. Busy(w) /\ rows' \in {rows, SetSessionStatus(SessionOf(w), "provisioning")}
    BY <1>5 DEF Claim, Exec, Busy
  <2> QED
    BY <1>1, <1>2, <2>1, StatementsKeepOwners DEF Statuses
<1>6. CASE MarkReady(w)
  <2>1. Busy(w) /\ rows' \in {rows, SetSessionReady(SessionOf(w), workers[w].node)}
    BY <1>6 DEF MarkReady, Busy
  <2> QED
    BY <1>1, <1>2, <2>1, StatementsKeepOwners
<1>7. CASE Fail(w)
  <2>1. Busy(w) /\ rows' \in {rows, SetSessionError(SessionOf(w))}
    BY <1>7 DEF Fail, Busy
  <2> QED
    BY <1>1, <1>2, <2>1, StatementsKeepOwners
<1>8. CASE MarkTerminated(w)
  <2>1. Busy(w) /\ rows' \in {rows, SetSessionTerminated(SessionOf(w))}
    BY <1>8 DEF MarkTerminated, Busy
  <2> QED
    BY <1>1, <1>2, <2>1, StatementsKeepOwners
<1> QED
  BY <1>4, <1>5, <1>6, <1>7, <1>8 DEF HandlerStep

(* Only a request's own enqueue makes a task out of none.                    *)
NoNewTasks == \A t \in Requests : tasks'[t].state # "none" => tasks[t].state # "none"

(* Neither asynq nor a handler makes one.                                    *)
LEMMA TasksComeFromRequests ==
  ASSUME TypeInv, Queue \/ \E w \in Workers : HandlerStep(w)
  PROVE  NoNewTasks
<1> USE DEF NoNewTasks
<1>1. tasks \in [Requests -> Task]
  BY DEF TypeInv, TypeOK, QueueTypeOK
<1>2. \A w \in Workers : Busy(w) => /\ workers[w].task \in Requests
                                    /\ tasks[workers[w].task].state # "none"
  BY DEF TypeInv, HandlersHaveTasks
<1>3. CASE UNCHANGED tasks
  BY <1>3
<1>4. ASSUME NEW w \in Workers, Busy(w), ReturnNil(w) \/ ReturnErr(w)
      PROVE  NoNewTasks
  <2>1. CASE ReturnNil(w)
    BY <1>1, <1>2, <1>4, <2>1 DEF ReturnNil
  <2>2. CASE ReturnErr(w)
    BY <1>1, <1>2, <1>4, <2>2, RetriedFacts DEF ReturnErr
  <2> QED
    BY <1>4, <2>1, <2>2
<1>5. ASSUME NEW w \in Workers, HandlerStep(w)
      PROVE  NoNewTasks
  <2>1. Busy(w)
    BY <1>5 DEF HandlerStep, GetFails, GetForProvision, Claim, Provision, MarkReady, Fail,
         GetForTerminate, TerminateNode, MarkTerminated, RunInstances, LaunchFails,
         WaitForRunning, RunProvision, BootFails, TerminateBestEffort, Busy
  <2>2. UNCHANGED tasks \/ ReturnNil(w) \/ ReturnErr(w)
    BY <1>5 DEF HandlerStep, GetFails, GetForProvision, Claim, Provision, MarkReady, Fail,
         GetForTerminate, TerminateNode, MarkTerminated, RunInstances, LaunchFails,
         WaitForRunning, RunProvision, BootFails, TerminateBestEffort, Exec, Goto
  <2> QED
    BY <1>3, <1>4, <2>1, <2>2
<1>6. ASSUME Queue
      PROVE  NoNewTasks
  <2>1. ASSUME NEW w \in Workers, NEW t \in Requests, Dequeue(w, t)
        PROVE  NoNewTasks
    BY <1>1, <2>1 DEF Dequeue
  <2>2. ASSUME NEW w \in Workers, CrashWorker(w) \/ ShutdownWorker(w) \/ LoseLease(w)
        PROVE  NoNewTasks
    BY <1>1, <1>2, <2>2 DEF CrashWorker, ShutdownWorker, LoseLease
  <2>3. ASSUME NEW t \in Requests, Recover(t)
        PROVE  NoNewTasks
    BY <1>1, <2>3, RetriedFacts DEF Recover
  <2> QED
    BY <1>6, <2>1, <2>2, <2>3 DEF Queue
<1> QED
  BY <1>5, <1>6

(* The owners, users and requests that TenantInv is about stay as they are.  *)
LEMMA TenantFrame ==
  ASSUME TenantInv, TypeInv', KeepsOwners, UNCHANGED users,
         \A r \in Requests : /\ requests'[r].user = requests[r].user
                             /\ requests'[r].subject = requests[r].subject
                             /\ requests'[r].pc \in {"authed", "set", "enqueue"}
                                  \/ requests'[r].session # Nil => requests[r].user # Nil,
         \A c \in Creates : requests'[c].session = requests[c].session,
         \A r \in Deletes : requests'[r].pc \in {"set", "enqueue"} \/ tasks'[r].state # "none" =>
           /\ requests'[r].session \in Sessions
           /\ FoundForUser(requests'[r].session, requests[r].user)
  PROVE  TenantInv'
<1> USE DEF TenantInv
<1>1. OnePostPerSession' /\ RowsHavePosts'
  BY DEF OnePostPerSession, RowsHavePosts, KeepsOwners
<1>2. UsersDistinct'
  BY DEF UsersDistinct
<1>3. ClaimsMatchUsers'
  BY DEF ClaimsMatchUsers
<1>4. RowsOwnedByPosters'
  BY DEF RowsOwnedByPosters, KeepsOwners, Requests
<1>5. DeletesByOwners'
  BY DEF DeletesByOwners, KeepsOwners, FoundForUser, Requests
<1> QED
  BY <1>1, <1>2, <1>3, <1>4, <1>5


(* The steps of a request: the middleware draws an id no other subject has,  *)
(* the INSERT an id no other POST has.                                       *)
LEMMA ApiTenantInv ==
  ASSUME TenantInv, TypeInv', NEW r \in Requests, Api(r)
  PROVE  TenantInv'
<1>1. StoreTypeOK /\ ServiceTypeOK /\ UserTypeOK
  BY DEF TenantInv, TypeInv, TypeOK
<1>2. rows' = rows => KeepsOwners
  BY DEF KeepsOwners, Exists
<1>3. requests[r].pc \in {"authed", "set", "enqueue"} => requests[r].user # Nil
  BY DEF TenantInv, ClaimsMatchUsers
(* A step that leaves the claims, and a POST's session, as they are.         *)
<1>4. ASSUME NEW pc \in {"set", "enqueue", "done"}, NEW s \in Sessions \cup {Nil},
             NEW response, Proceed(r, pc, s, response),
             requests[r].user # Nil \/ (s = requests[r].session /\ pc = "done"),
             UNCHANGED users, KeepsOwners,
             r \in Creates => s = requests[r].session,
             \A x \in Requests \ {r} : tasks'[x].state = tasks[x].state,
             r \in Deletes /\ (pc \in {"set", "enqueue"} \/ tasks'[r].state # "none") =>
               s \in Sessions /\ FoundForUser(s, requests[r].user)
      PROVE  TenantInv'
  <2>1. /\ \A x \in Requests \ {r} : requests'[x] = requests[x]
        /\ requests'[r].pc = pc /\ requests'[r].session = s
        /\ requests'[r].subject = requests[r].subject
        /\ requests'[r].user = requests[r].user
    BY <1>1, <1>4 DEF ServiceTypeOK, Proceed, Request
  <2>2. \A x \in Requests : /\ requests[x].pc \in {"authed", "set", "enqueue"} => requests[x].user # Nil
                            /\ requests[x].session # Nil => requests[x].user # Nil
    BY DEF TenantInv, ClaimsMatchUsers
  <2>3. \A c \in Creates : requests'[c].session = requests[c].session
    BY <1>4, <2>1 DEF Requests
  <2>4. \A x \in Requests : /\ requests'[x].user = requests[x].user
                            /\ requests'[x].subject = requests[x].subject
                            /\ requests'[x].pc \in {"authed", "set", "enqueue"}
                                 \/ requests'[x].session # Nil => requests[x].user # Nil
    BY <1>4, <2>1, <2>2
  <2>5. ASSUME NEW x \in Deletes,
               requests'[x].pc \in {"set", "enqueue"} \/ tasks'[x].state # "none"
        PROVE  /\ requests'[x].session \in Sessions
               /\ FoundForUser(requests'[x].session, requests[x].user)
    <3>1. CASE x = r
      BY <1>4, <2>1, <2>5, <3>1
    <3>2. CASE x # r
      BY <1>4, <2>1, <2>5, <3>2
      DEF TenantInv, DeletesByOwners, TypeInv, TasksHaveSessions, Requests
    <3> QED
      BY <3>1, <3>2
  <2> QED
    BY <1>4, <2>3, <2>4, <2>5, TenantFrame
<1>5. requests[r].session \in Sessions \cup {Nil}
  BY <1>1 DEF ServiceTypeOK, Request
<1>6. CASE Authenticate(r)
  <2> USE <1>6 DEF Authenticate
  <2>1. /\ UNCHANGED <<rows, tasks>> /\ requests[r].session = Nil
        /\ tasks[r].state = "none"
    BY DEF TenantInv, TypeInv, TasksHaveSessions
  <2>2. CASE Reply(r, "401") /\ UNCHANGED users
    BY <1>2, <1>4, <1>5, <2>1, <2>2 DEF Reply
  <2>3. ASSUME NEW c \in Subjects, NEW u \in Upserted(c), UNCHANGED users, Reply(r, "500")
        PROVE  TenantInv'
    BY <1>2, <1>4, <1>5, <2>1, <2>3 DEF Reply
  (* The upsert itself: an id that is new, or the subject's own. *)
  <2>4. ASSUME NEW c \in Subjects, NEW u \in Upserted(c), users' = UpsertUser(c, u)
        PROVE  /\ u # Nil
               /\ UsersDistinct'
               /\ users'[c] = u
               /\ \A d \in Subjects : users[d] # Nil => users'[d] = users[d]
    <3>1. u \in Users /\ (users[c] = u \/ (users[c] = Nil /\ \A d \in Subjects : users[d] # u))
      BY <1>1, <2>4 DEF Upserted, FreshUserIDs, UserTypeOK
    <3>2. u # Nil
      BY <3>1, DeploymentAssumption
    <3>3. \A d \in Subjects : users'[d] = IF d = c THEN u ELSE users[d]
      BY <1>1, <2>4 DEF UpsertUser, UserTypeOK
    <3> QED
      BY <3>1, <3>2, <3>3 DEF TenantInv, UsersDistinct
  <2>5. ASSUME NEW c \in Subjects, NEW u \in Upserted(c), users' = UpsertUser(c, u),
               \A x \in Requests \ {r} : requests'[x] = requests[x],
               requests'[r].session = Nil, requests'[r].pc \in {"authed", "done"},
               \/ requests'[r].user = u /\ requests'[r].subject = c
               \/ /\ requests'[r].pc = "done"
                  /\ requests'[r].user = requests[r].user
                  /\ requests'[r].subject = requests[r].subject
        PROVE  TenantInv'
    <3>1. \A x \in Requests : requests'[x].session = requests[x].session
      <4> HIDE <1>6
      <4> QED BY <2>1, <2>5
    <3>2. OnePostPerSession' /\ RowsHavePosts'
      <4> HIDE <1>6
      <4> QED
        BY <2>1, <3>1 DEF TenantInv, OnePostPerSession, RowsHavePosts, Exists, Requests
    <3>3. UsersDistinct'
      BY <2>4, <2>5
    <3>4. ClaimsMatchUsers'
      <4> HIDE <1>6 DEF Authenticate
      <4> DEFINE Claims(x) == /\ requests[x].pc \in {"authed", "set", "enqueue"} => requests[x].user # Nil
                              /\ requests[x].session # Nil => requests[x].user # Nil
                              /\ requests[x].user # Nil =>
                                   /\ requests[x].subject \in Subjects
                                   /\ users[requests[x].subject] = requests[x].user
      <4>1. \A x \in Requests : Claims(x)
        BY DEF TenantInv, ClaimsMatchUsers
      <4>2. u # Nil /\ users'[c] = u /\ \A d \in Subjects : users[d] # Nil => users'[d] = users[d]
        BY <2>4, <2>5
      <4>3. ASSUME NEW x \in Requests \ {r} PROVE Claims(x)'
        BY <2>5, <4>1, <4>2
      <4>4. Claims(r)'
        BY <2>5, <4>1, <4>2
      <4> QED
        BY <4>3, <4>4 DEF ClaimsMatchUsers
    <3>5. RowsOwnedByPosters'
      <4>1. \A x \in Creates, s \in Sessions : requests'[x].session = s =>
              requests[x].session = s /\ requests'[x].user = requests[x].user
        BY <2>1, <2>5, <3>1, DeploymentAssumption DEF Requests
      <4> QED
        BY <2>1, <4>1 DEF TenantInv, RowsOwnedByPosters, Exists
    <3>6. DeletesByOwners'
      <4> HIDE <1>6 DEF Authenticate
      <4>1. ASSUME NEW x \in Deletes,
                   requests'[x].pc \in {"set", "enqueue"} \/ tasks'[x].state # "none"
            PROVE  x # r /\ requests'[x] = requests[x]
        BY <2>1, <2>5, <4>1 DEF Requests
      <4> QED
        BY <2>1, <4>1 DEF TenantInv, DeletesByOwners, FoundForUser, Exists
    <3> QED
      BY <2>5, <3>2, <3>3, <3>4, <3>5, <3>6 DEF TenantInv
  <2>6. ASSUME NEW c \in Subjects, NEW u \in Upserted(c), users' = UpsertUser(c, u),
               requests' = [requests EXCEPT
                 ![r] = [NoRequest EXCEPT !.pc = "authed", !.subject = c, !.user = u]]
        PROVE  TenantInv'
    BY <1>1, <2>5, <2>6 DEF ServiceTypeOK, NoRequest
  <2>7. ASSUME NEW c \in Subjects, NEW u \in Upserted(c), users' = UpsertUser(c, u),
               Reply(r, "500")
        PROVE  TenantInv'
    BY <1>1, <2>1, <2>5, <2>7 DEF ServiceTypeOK, Reply, Proceed, Request
  <2> QED
    BY <2>2, <2>3, <2>6, <2>7
<1>7. CASE RejectBody(r) \/ CrashRequest(r)
  <2>1. /\ UNCHANGED <<users, rows, tasks>>
        /\ requests[r].pc # "done" /\ tasks[r].state = "none"
    BY <1>7 DEF RejectBody, CrashRequest, TenantInv, TypeInv, TasksHaveSessions
  <2>2. PICK response : Proceed(r, "done", requests[r].session, response)
    BY <1>7 DEF RejectBody, CrashRequest, Reply
  <2> QED
    BY <1>2, <1>4, <1>5, <2>1, <2>2
<1>8. CASE InsertSession(r)
  <2>1. PICK k \in SKUs, s \in FreshIDs :
          /\ rows' \in {rows, CreateSession(s, requests[r].user, k)}
          /\ Proceed(r, "enqueue", s, Nil) \/ Proceed(r, "done", s, "400")
    BY <1>8 DEF InsertSession
  <2>2. /\ r \in Creates /\ UNCHANGED users /\ requests[r].user # Nil
        /\ requests[r].session = Nil
    BY <1>3, <1>8 DEF InsertSession, TenantInv, TypeInv, TasksHaveSessions
  <2>3. s \in Sessions /\ (\A c \in Creates : requests[c].session # s) /\ ~Exists(s)
    BY DEF FreshIDs, TenantInv, RowsHavePosts
  <2>4. /\ \A x \in Requests \ {r} : requests'[x] = requests[x]
        /\ requests'[r].session = s
        /\ requests'[r].subject = requests[r].subject
        /\ requests'[r].user = requests[r].user
    BY <1>1, <2>1 DEF ServiceTypeOK, Proceed, Request
  <2>5. /\ \A x \in Sessions \ {s} : rows'[x] = rows[x]
        /\ Exists(s)' => rows'[s].owner = requests[r].user
    BY <1>1, <2>1, <2>3 DEF CreateSession, StoreTypeOK, Exists
  <2>6. OnePostPerSession'
    BY <2>2, <2>3, <2>4 DEF TenantInv, OnePostPerSession, Requests
  <2>7. RowsHavePosts'
    <3>1. ASSUME NEW x \in Sessions \ {s}, Exists(x)'
          PROVE  \E c \in Creates : requests'[c].session = x
      <4>1. PICK c \in Creates : requests[c].session = x
        BY <2>5, <3>1 DEF TenantInv, RowsHavePosts, Exists
      <4>2. c # r
        BY <2>2, <3>1, <4>1, DeploymentAssumption
      <4> QED
        BY <2>4, <4>1, <4>2 DEF Requests
    <3> QED
      BY <2>2, <2>4, <3>1 DEF RowsHavePosts
  <2>8. UsersDistinct'
    BY <2>2 DEF TenantInv, UsersDistinct
  <2>9. ClaimsMatchUsers'
    BY <2>2, <2>4 DEF TenantInv, ClaimsMatchUsers
  <2>10. RowsOwnedByPosters'
    <3>1. ASSUME NEW c \in Creates, NEW x \in Sessions, requests'[c].session = x, Exists(x)'
          PROVE  rows'[x].owner = requests'[c].user
      <4>1. CASE c = r
        BY <2>4, <2>5, <3>1, <4>1
      <4>2. CASE c # r
        BY <2>3, <2>4, <2>5, <3>1, <4>2 DEF TenantInv, RowsOwnedByPosters, Exists, Requests
      <4> QED
        BY <4>1, <4>2
    <3> QED
      BY <3>1 DEF RowsOwnedByPosters
  <2>11. DeletesByOwners'
    <3>1. \A x \in Deletes : requests'[x] = requests[x] /\ tasks'[x] = tasks[x]
      BY <1>8, <2>2, <2>4, DeploymentAssumption DEF InsertSession, Requests
    <3>3. \A x \in Deletes : requests[x].pc \in {"set", "enqueue"} \/ tasks[x].state # "none" =>
            requests[x].session \in Sessions \ {s}
      BY <2>3 DEF TenantInv, DeletesByOwners, FoundForUser, TypeInv, TasksHaveSessions, Requests
    <3> QED
      BY <2>5, <3>1, <3>3 DEF TenantInv, DeletesByOwners, FoundForUser, Exists
  <2> QED
    BY <2>6, <2>7, <2>8, <2>9, <2>10, <2>11 DEF TenantInv
<1>9. CASE LookupSession(r)
  <2>1. PICK s \in Sessions, pc \in {"set", "done"}, response \in Responses \cup {Nil} :
          Proceed(r, pc, s, response) /\ (pc = "set" => FoundForUser(s, requests[r].user))
    BY <1>9 DEF LookupSession, Responses
  <2>2. /\ r \notin Creates /\ requests[r].user # Nil /\ UNCHANGED <<users, rows, tasks>>
        /\ tasks[r].state = "none"
    BY <1>3, <1>9, DeploymentAssumption DEF LookupSession, TenantInv, TypeInv, TasksHaveSessions
  <2> QED
    BY <1>2, <1>4, <2>1, <2>2
<1>10. CASE SetTerminating(r)
  <2>1. /\ requests[r].session \in Sessions /\ requests[r].user # Nil /\ UNCHANGED <<users, tasks>>
        /\ rows' \in {rows, SetSessionStatus(requests[r].session, "terminating")}
        /\ tasks[r].state = "none"
        /\ r \in Deletes => FoundForUser(requests[r].session, requests[r].user)
    BY <1>3, <1>10 DEF SetTerminating, TenantInv, TypeInv, TasksHaveSessions, DeletesByOwners
  <2>2. KeepsOwners
    BY <1>1, <2>1, StatementsKeepOwners DEF Statuses
  <2>3. PICK pc \in {"enqueue", "done"}, response \in Responses \cup {Nil} :
          Proceed(r, pc, requests[r].session, response)
    BY <1>10 DEF SetTerminating, Reply, Responses
  <2> QED
    BY <1>4, <1>5, <2>1, <2>2, <2>3
<1>11. CASE EnqueueTask(r)
  <2>1. /\ requests[r].user # Nil /\ UNCHANGED <<users, rows>>
        /\ requests[r].session \in Sessions
        /\ r \in Deletes => FoundForUser(requests[r].session, requests[r].user)
    BY <1>3, <1>11 DEF EnqueueTask, TenantInv, TypeInv, TasksHaveSessions, DeletesByOwners
  <2>2. PICK response : Proceed(r, "done", requests[r].session, response)
    BY <1>11 DEF EnqueueTask, Reply
  <2>3. \A x \in Requests \ {r} : tasks'[x].state = tasks[x].state
    BY <1>11 DEF EnqueueTask, Enqueued, TenantInv, TypeInv, TypeOK, QueueTypeOK
  <2> QED
    BY <1>2, <1>4, <1>5, <2>1, <2>2, <2>3
<1> QED
  BY <1>6, <1>7, <1>8, <1>9, <1>10, <1>11 DEF Api, RequestStep

(* TenantInv is inductive.                                                   *)
LEMMA NextTenantInv == TenantInv /\ [Next]_vars => TenantInv'
<1> SUFFICES ASSUME TenantInv, [Next]_vars
             PROVE  TenantInv'
  OBVIOUS
<1>1. TypeInv'
  BY NextTypeInv DEF TenantInv
(* Nothing but the API touches users and requests.                           *)
<1>2. ASSUME UNCHANGED <<users, requests>>, KeepsOwners, NoNewTasks
      PROVE  TenantInv'
  <2>1. \A x \in Requests : requests[x].pc \in {"authed", "set", "enqueue"}
          \/ requests[x].session # Nil => requests[x].user # Nil
    BY DEF TenantInv, ClaimsMatchUsers
  <2>2. \A x \in Deletes :
          requests[x].pc \in {"set", "enqueue"} \/ tasks'[x].state # "none" =>
            requests[x].session \in Sessions /\ FoundForUser(requests[x].session, requests[x].user)
    BY <1>2 DEF NoNewTasks, TenantInv, DeletesByOwners, TypeInv, TasksHaveSessions, Requests
  <2> QED
    BY <1>1, <1>2, <2>1, <2>2, TenantFrame
<1>3. CASE UNCHANGED vars
  BY <1>2, <1>3 DEF vars, KeepsOwners, Exists, NoNewTasks
<1>4. ASSUME NEW r \in Requests, Api(r)
      PROVE  TenantInv'
  BY <1>1, <1>4, ApiTenantInv
<1>5. CASE Queue
  BY <1>2, <1>5, TasksComeFromRequests DEF Queue, KeepsOwners, Exists, TenantInv
<1>6. CASE Handlers
  BY <1>2, <1>6, HandlersKeepOwners, TasksComeFromRequests DEF Handlers, TenantInv
<1> QED
  BY <1>3, <1>4, <1>5, <1>6 DEF Next

(* In every reachable state the claims, the users table and the owners of    *)
(* the sessions agree, whatever fails.                                       *)
THEOREM TenantInvariant == Spec => []TenantInv
  BY InitTenantInv, NextTenantInv, PTL DEF Spec

(* The row's owner is the user of a request exactly if the request carries   *)
(* the subject that POSTed the session.                                      *)
LEMMA OwnersPosted ==
  ASSUME TenantInv, NEW r \in Requests, requests[r].user # Nil, NEW s \in Sessions, Exists(s)
  PROVE  FoundForUser(s, requests[r].user) <=> PostedBy(s, requests[r].subject)
<1>1. requests[r].subject \in Subjects /\ users[requests[r].subject] = requests[r].user
  BY DEF TenantInv, ClaimsMatchUsers
<1>2. PICK c \in Creates : requests[c].session = s
  BY DEF TenantInv, RowsHavePosts
<1>3. \A d \in Creates : requests[d].session = s => d = c
  BY <1>2, DeploymentAssumption DEF TenantInv, OnePostPerSession
<1>4. rows[s].owner = requests[c].user
  BY <1>2 DEF TenantInv, RowsOwnedByPosters
<1>5. /\ requests[c].user # Nil /\ requests[c].subject \in Subjects
      /\ users[requests[c].subject] = requests[c].user
  BY <1>2, DeploymentAssumption DEF TenantInv, ClaimsMatchUsers, Requests
<1>6. requests[c].user = requests[r].user <=> requests[c].subject = requests[r].subject
  BY <1>1, <1>5 DEF TenantInv, UsersDistinct
<1> QED
  BY <1>2, <1>3, <1>4, <1>6 DEF FoundForUser, PostedBy

(* A DELETE is never answered 404 to the subject that POSTed the session and *)
(* never goes through for any other, in every deployment, whatever fails.    *)
THEOREM TenantsApart == Spec => TenantsKeptApart
<1> DEFINE Apart ==
      \A r \in Deletes :
        requests[r].pc = "authed" /\ requests'[r].pc # "authed" =>
          LET s == requests'[r].session
              mine == Exists(s) /\ PostedBy(s, requests[r].subject)
          IN /\ requests'[r].response = "404" => ~mine
             /\ requests'[r].pc = "set" \/ requests'[r].response = "202" => mine
<1>1. ASSUME TenantInv, [Next]_vars
      PROVE  Apart
  <2> SUFFICES ASSUME NEW r \in Deletes, requests[r].pc = "authed", requests'[r].pc # "authed"
               PROVE  LET s == requests'[r].session
                          mine == Exists(s) /\ PostedBy(s, requests[r].subject)
                      IN /\ requests'[r].response = "404" => ~mine
                         /\ requests'[r].pc = "set" \/ requests'[r].response = "202" => mine
    OBVIOUS
  <2>1. r \in Requests /\ r \notin Creates /\ requests[r] \in Request /\ ServiceTypeOK
    BY <1>1, DeploymentAssumption DEF Requests, TenantInv, TypeInv, TypeOK, ServiceTypeOK
  <2>2. requests[r].user # Nil /\ requests[r].subject \in Subjects
        /\ users[requests[r].subject] = requests[r].user
    BY <1>1, <2>1 DEF TenantInv, ClaimsMatchUsers
  <2>3. \A s \in Sessions : Exists(s) =>
          (FoundForUser(s, requests[r].user) <=> PostedBy(s, requests[r].subject))
    BY <1>1, <2>1, <2>2, OwnersPosted
  <2>4. PICK x \in Requests : Api(x)
    <3>1. requests' # requests
      OBVIOUS
    <3> QED
      BY <1>1, <3>1 DEF Next, vars, Queue, Handlers
  <2>5. x = r
    <3>1. \A y \in Requests \ {x} : requests'[y] = requests[y]
      BY <2>1, <2>4 DEF Api, RequestStep, Authenticate, RejectBody, InsertSession, LookupSession,
           SetTerminating, EnqueueTask, CrashRequest, Reply, Proceed, ServiceTypeOK
    <3> QED
      BY <2>1, <3>1
  <2>6. CASE LookupSession(r)
    <3>1. PICK s \in Sessions :
            \/ ~FoundForUser(s, requests[r].user) /\ Proceed(r, "done", s, "404")
            \/ Proceed(r, "done", s, "500")
            \/ /\ FoundForUser(s, requests[r].user)
               /\ Proceed(r, "done", s, "202") \/ Proceed(r, "set", s, Nil)
      BY <2>6 DEF LookupSession
    <3>2. /\ requests'[r].session = s
          /\ Proceed(r, "done", s, "404") => requests'[r].response = "404" /\ requests'[r].pc = "done"
          /\ Proceed(r, "done", s, "500") => requests'[r].response = "500" /\ requests'[r].pc = "done"
          /\ Proceed(r, "done", s, "202") => requests'[r].response = "202"
          /\ Proceed(r, "set", s, Nil) => requests'[r].response = Nil
      BY <2>1, <3>1 DEF Proceed, ServiceTypeOK, Request
    <3> QED
      BY <2>3, <3>1, <3>2, ServiceAssumption DEF FoundForUser, Responses
  <2>7. CASE CrashRequest(r)
    BY <2>1, <2>7, ServiceAssumption
    DEF CrashRequest, Reply, Proceed, ServiceTypeOK, Request, Responses
  <2> QED
    BY <2>1, <2>4, <2>5, <2>6, <2>7
    DEF Api, RequestStep, Authenticate, RejectBody, InsertSession, SetTerminating, EnqueueTask
<1> QED
  BY <1>1, TenantInvariant, PTL DEF Spec, TenantsKeptApart
=============================================================================
