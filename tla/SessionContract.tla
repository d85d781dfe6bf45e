--------------------------- MODULE SessionContract ---------------------------
(* What the control plane promises one session and its nodes, seen from      *)
(* outside, when its clients DELETE only what they have seen settle: a node  *)
(* is started once, while the session is provisioning, runs until it is given*)
(* up or reclaimed, and never outlives the session's end. Abstracts from the *)
(* API, the queue, the workers and their failures.                           *)

CONSTANTS Sessions, Instances

VARIABLES
  status,             \* status[s]: the status column, "none" before the INSERT
  nodes               \* nodes[s]: the instances of s that run, and cost money

Init ==
  /\ status = [s \in Sessions |-> "none"]
  /\ nodes = [s \in Sessions |-> {}]

Move(s, from, to) ==
  /\ status[s] \in from
  /\ status' = [status EXCEPT ![s] = to]
  /\ UNCHANGED nodes

Request(s) == Move(s, {"none"}, "pending")
Claim(s)   == Move(s, {"pending"}, "provisioning")

Launch(s) ==
  /\ status[s] = "provisioning"
  /\ nodes[s] = {}
  /\ \E i \in Instances :
       /\ \A t \in Sessions : i \notin nodes[t]
       /\ nodes' = [nodes EXCEPT ![s] = {i}]
  /\ UNCHANGED status

(* The node is terminated: given up on, or reclaimed after a DELETE.         *)
Release(s) ==
  /\ status[s] \in {"provisioning", "terminating"}
  /\ nodes[s] # {}
  /\ nodes' = [nodes EXCEPT ![s] = {}]
  /\ UNCHANGED status

Ready(s)  == nodes[s] # {} /\ Move(s, {"provisioning"}, "ready")
Fail(s)   == nodes[s] = {} /\ Move(s, {"provisioning"}, "error")
Delete(s) == Move(s, {"ready", "error", "terminated"}, "terminating")
Finish(s) == nodes[s] = {} /\ Move(s, {"terminating"}, "terminated")

Next == \E s \in Sessions :
  \/ Request(s) \/ Claim(s) \/ Launch(s) \/ Release(s)
  \/ Ready(s) \/ Fail(s) \/ Delete(s) \/ Finish(s)

Spec == Init /\ [][Next]_<<status, nodes>>

-----------------------------------------------------------------------------

(* A session shows ready only with its one node running, and nothing runs    *)
(* for a session that ended: nobody is billed for it.                        *)
BillingMatchesStatus ==
  \A s \in Sessions :
    /\ status[s] = "ready" => \E i \in Instances : nodes[s] = {i}
    /\ status[s] \in {"none", "pending", "error", "terminated"} => nodes[s] = {}
=============================================================================
