-------------------------- MODULE ProviderContract --------------------------
(* What the interface Provider of internal/providers promises its callers:   *)
(* Provision "launches an instance and blocks until it's reachable",         *)
(* Terminate "stops the instance". A call that returns a node leaves it      *)
(* running, a call that returns an error leaves nothing running, and nobody  *)
(* else stops a node while a Provision call still has it in hand. Which      *)
(* backend it is, its calls and its retries are left out.                    *)
EXTENDS FiniteSets

CONSTANTS Callers, Nodes, Nil

VARIABLES
  calls,              \* calls[c]: the Provision call of caller c, and its node
  running             \* the nodes that run, and cost money

NoCall == [state |-> "none", node |-> Nil]

Init ==
  /\ calls = [c \in Callers |-> NoCall]
  /\ running = {}

InHand == {calls[c].node : c \in Callers}

Call(c) ==
  /\ calls[c].state = "none"
  /\ calls' = [calls EXCEPT ![c] = [state |-> "provisioning", node |-> Nil]]
  /\ UNCHANGED running

Launch(c) ==
  /\ calls[c] = [state |-> "provisioning", node |-> Nil]
  /\ \E n \in Nodes \ (running \cup InHand) :
       /\ calls' = [calls EXCEPT ![c].node = n]
       /\ running' = running \cup {n}

ReturnNode(c) ==
  /\ calls[c].state = "provisioning"
  /\ calls[c].node \in running
  /\ calls' = [calls EXCEPT ![c].state = "returned"]
  /\ UNCHANGED running

ReturnError(c) ==
  /\ calls[c].state = "provisioning"
  /\ calls' = [calls EXCEPT ![c] = [state |-> "failed", node |-> Nil]]
  /\ running' = running \ {calls[c].node}

(* The caller is done with the result, or dies: what runs runs on.           *)
Forget(c) ==
  /\ calls' = [calls EXCEPT ![c] = NoCall]
  /\ UNCHANGED running

Terminate(n) ==
  /\ n \notin InHand
  /\ running' = running \ {n}
  /\ UNCHANGED calls

Next ==
  \/ \E c \in Callers :
       Call(c) \/ Launch(c) \/ ReturnNode(c) \/ ReturnError(c) \/ Forget(c)
  \/ \E n \in Nodes : Terminate(n)

Spec == Init /\ [][Next]_<<calls, running>>

-----------------------------------------------------------------------------

(* A node that was returned runs as long as its caller still needs it.       *)
ReturnedRuns == \A c \in Callers : calls[c].state = "returned" => calls[c].node \in running
=============================================================================
