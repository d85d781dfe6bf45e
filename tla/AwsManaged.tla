----------------------------- MODULE AwsManaged -----------------------------
(* internal/providers/aws_managed on top of EC2. A call into the provider    *)
(* runs on the worker goroutine of the handler that made it, one action per  *)
(* AWS call or script run. EC2 is external: it hands out an id per launched  *)
(* instance, tagged with the session it was launched for.                    *)
EXTENDS TaskQueue

VARIABLE instances    \* instances[i]: the instance EC2 launched under id i

NotLaunched == [state |-> "none", session |-> Nil]

Instance == [state : {"none", "live", "terminated"}, session : Sessions \cup {Nil}]

Ec2TypeOK == instances \in [Instances -> Instance]
Ec2Init   == instances = [i \in Instances |-> NotLaunched]

Free == {i \in Instances : instances[i].state = "none"}

Launched(i, s) == [instances EXCEPT ![i] = [state |-> "live", session |-> s]]
Terminated(i)  == [instances EXCEPT ![i].state = "terminated"]

(* A call that carries the handler's context may fail by itself, or because  *)
(* the lease is lost and the context cancelled.                              *)
CallMayFail(w, kind) == kind \in Faults \/ ~workers[w].leased

(* RunInstances succeeds. *)
RunInstances(w, sku) ==
  /\ workers[w].pc = "launch"
  /\ sku = SupportedSKU
  /\ \E i \in Free : /\ instances' = Launched(i, SessionOf(w))
                     /\ Goto(w, "boot", i)

(* resolveAMI or ensureSecurityGroup fails; neither changes anything.        *)
LookupFails(w) == CallMayFail(w, "ec2")

(* Provision returns an error before it knows an instance id: SKU not        *)
(* supported, AMI or security group not found, no capacity, or RunInstances  *)
(* failed - perhaps after EC2 had launched the instance.                     *)
LaunchFails(w, sku) ==
  /\ workers[w].pc = "launch"
  /\ Goto(w, "fail", Nil)
  /\ \/ /\ sku # SupportedSKU \/ LookupFails(w) \/ Free = {} \/ CallMayFail(w, "ec2")
        /\ UNCHANGED instances
     \/ /\ sku = SupportedSKU /\ CallMayFail(w, "ec2")
        /\ \E i \in Free : instances' = Launched(i, SessionOf(w))

(* waitForRunning sees the instance running with a public IP.                *)
WaitForRunning(w) ==
  /\ workers[w].pc = "boot"
  /\ Goto(w, "script", workers[w].node)
  /\ UNCHANGED instances

(* Slip, for the mutation checks: the cleanup is deferred, and runs on success too. *)
RunProvisionCleaningUp(w) ==
  /\ workers[w].pc = "script"
  /\ Goto(w, "ready", workers[w].node)
  /\ instances' = Terminated(workers[w].node)

(* runProvision: the provision script exits 0 and Provision returns the node.*)
RunProvision(w) ==
  /\ workers[w].pc = "script"
  /\ Goto(w, "ready", workers[w].node)
  /\ UNCHANGED instances

(* Slip, for the mutation checks: no terminateBestEffort before the return. *)
BootFailsWithoutCleanup(w) ==
  /\ workers[w].pc \in {"boot", "script"}
  /\ "boot" \in Faults \/ CallMayFail(w, "ec2")
  /\ Goto(w, "fail", Nil)
  /\ UNCHANGED instances

(* The instance did not come up in five minutes, DescribeInstances failed,   *)
(* the script failed, or Provision's ten minutes were over.                  *)
BootFails(w) ==
  /\ workers[w].pc \in {"boot", "script"}
  /\ "boot" \in Faults \/ CallMayFail(w, "ec2")
  /\ Goto(w, "cleanup", workers[w].node)
  /\ UNCHANGED instances

(* TerminateInstances: after an error nobody knows whether it took effect.   *)
TerminateInstances(i, mayFail) ==
  \/ instances' = Terminated(i)
  \/ mayFail /\ UNCHANGED instances

(* On a context of its own; its error is dropped.                            *)
TerminateBestEffort(w) ==
  /\ workers[w].pc = "cleanup"
  /\ TerminateInstances(workers[w].node, "ec2" \in Faults)
  /\ Goto(w, "fail", Nil)

=============================================================================
