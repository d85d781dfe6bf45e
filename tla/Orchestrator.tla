---------------------------- MODULE Orchestrator ----------------------------
(* cmd/orchestrator: handleProvision and handleTerminate on the workers of   *)
(* the queue. A handler's database statements, its provider calls and its    *)
(* return are separate steps: the API and the other workers run in between.  *)
(* A payload always decodes and the one provider is always registered, so    *)
(* those error branches have no action.                                      *)
EXTENDS SessionStore, AwsManaged

(* A statement of worker w's handler fails, executed or not.                 *)
Exec(w, next, pc) ==
  \/ rows' = next /\ Goto(w, pc, workers[w].node)
  \/ CallMayFail(w, "db") /\ rows' \in {rows, next} /\ ReturnErr(w)

(* GetSession fails: either handler returns the error.                       *)
GetFails(w) ==
  /\ workers[w].pc = "get"
  /\ CallMayFail(w, "db")
  /\ ReturnErr(w)
  /\ UNCHANGED <<rows, instances>>

(* Slip, for the mutation checks: no status check. *)
GetForProvisionUnchecked(w) ==
  /\ workers[w].pc = "get"
  /\ IsProvision(workers[w].task)
  /\ Goto(w, "claim", Nil)
  /\ UNCHANGED <<rows, instances>>

(* handleProvision's GetSession: a session that is gone or no longer pending *)
(* is skipped.                                                               *)
GetForProvision(w) ==
  /\ workers[w].pc = "get"
  /\ IsProvision(workers[w].task)
  /\ IF rows[SessionOf(w)].status = "pending"
     THEN Goto(w, "claim", Nil) ELSE ReturnNil(w)
  /\ UNCHANGED <<rows, instances>>

(* SetSessionStatus(provisioning), whatever the status has become since.     *)
Claim(w) ==
  /\ workers[w].pc = "claim"
  /\ Exec(w, SetSessionStatus(SessionOf(w), "provisioning"), "launch")
  /\ UNCHANGED instances

(* The calls Provision makes.                                                *)
Provision(w) ==
  /\ \/ RunInstances(w, rows[SessionOf(w)].sku)
     \/ LaunchFails(w, rows[SessionOf(w)].sku)
     \/ WaitForRunning(w)
     \/ RunProvision(w)
     \/ BootFails(w)
     \/ TerminateBestEffort(w)
  /\ UNCHANGED rows

(* SetSessionReady. After an error the handler returns it: the instance runs *)
(* on and nobody has its id.                                                 *)
MarkReady(w) ==
  /\ workers[w].pc = "ready"
  /\ LET ready == SetSessionReady(SessionOf(w), workers[w].node)
     IN \/ rows' = ready /\ ReturnNil(w)
        \/ CallMayFail(w, "db") /\ rows' \in {rows, ready} /\ ReturnErr(w)
  /\ UNCHANGED instances

(* Slip, for the mutation checks: the error is returned, the row left alone. *)
FailSilently(w) ==
  /\ workers[w].pc = "fail"
  /\ ReturnErr(w)
  /\ UNCHANGED <<rows, instances>>

(* fail: SetSessionError, its own error dropped, and Provision's returned.   *)
Fail(w) ==
  /\ workers[w].pc = "fail"
  /\ \/ rows' = SetSessionError(SessionOf(w))
     \/ CallMayFail(w, "db") /\ UNCHANGED rows
  /\ ReturnErr(w)
  /\ UNCHANGED instances

(* Slip, for the mutation checks: a session without an instance is skipped. *)
GetForTerminateSkipping(w) ==
  /\ workers[w].pc = "get"
  /\ ~IsProvision(workers[w].task)
  /\ LET node == rows[SessionOf(w)].instance_id
     IN IF node = Nil THEN ReturnNil(w) ELSE Goto(w, "terminate", node)
  /\ UNCHANGED <<rows, instances>>

(* Slip, for the mutation checks: the row is marked, the instance left alone. *)
GetForTerminateMarkingOnly(w) ==
  /\ workers[w].pc = "get"
  /\ ~IsProvision(workers[w].task)
  /\ Goto(w, "mark", Nil)
  /\ UNCHANGED <<rows, instances>>

(* handleTerminate's GetSession: the instance id is the one recorded now.    *)
GetForTerminate(w) ==
  /\ workers[w].pc = "get"
  /\ ~IsProvision(workers[w].task)
  /\ IF ~Exists(SessionOf(w)) THEN ReturnNil(w)
     ELSE LET node == rows[SessionOf(w)].instance_id
          IN Goto(w, IF node = Nil THEN "mark" ELSE "terminate", node)
  /\ UNCHANGED <<rows, instances>>

(* Slip, for the mutation checks: after an error the call is made again. *)
TerminateNodeRetrying(w) ==
  /\ workers[w].pc = "terminate"
  /\ UNCHANGED rows
  /\ \/ instances' = Terminated(workers[w].node) /\ Goto(w, "mark", Nil)
     \/ /\ CallMayFail(w, "ec2")
        /\ instances' \in {instances, Terminated(workers[w].node)}
        /\ Goto(w, "terminate", workers[w].node)

(* prov.Terminate. An error is logged and otherwise ignored.                 *)
TerminateNode(w) ==
  /\ workers[w].pc = "terminate"
  /\ TerminateInstances(workers[w].node, CallMayFail(w, "ec2"))
  /\ Goto(w, "mark", Nil)
  /\ UNCHANGED rows

(* SetSessionTerminated, whatever the status has become since.               *)
MarkTerminated(w) ==
  /\ workers[w].pc = "mark"
  /\ LET marked == SetSessionTerminated(SessionOf(w))
     IN \/ rows' = marked /\ ReturnNil(w)
        \/ CallMayFail(w, "db") /\ rows' \in {rows, marked} /\ ReturnErr(w)
  /\ UNCHANGED instances

HandlerStep(w) ==
  \/ GetFails(w) \/ GetForProvision(w) \/ Claim(w) \/ Provision(w)
  \/ MarkReady(w) \/ Fail(w) \/ GetForTerminate(w) \/ TerminateNode(w)
  \/ MarkTerminated(w)

=============================================================================
