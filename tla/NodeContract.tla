---------------------------- MODULE NodeContract ----------------------------
(* What the control plane promises about a session's node whatever its       *)
(* clients do and whatever fails, as long as no worker outlives its lease:   *)
(* one node at most, for good; a node that was handed over is named for good *)
(* and runs until the owner's DELETE. When a session is told to be what, and *)
(* whether a node nobody was told of stops, is left out.                     *)

CONSTANTS Sessions, Instances, Nil

VARIABLES
  launched,           \* launched[s]: the nodes ever started for session s
  running,            \* the nodes that run, and cost money
  handle,             \* handle[s]: the node that was handed over
  deleted             \* deleted[s]: a DELETE of s by its owner got through

vars == <<launched, running, handle, deleted>>

Init ==
  /\ launched = [s \in Sessions |-> {}]
  /\ running = {}
  /\ handle = [s \in Sessions |-> Nil]
  /\ deleted = [s \in Sessions |-> FALSE]

Launch(s) ==
  /\ launched[s] = {}
  /\ \E i \in Instances :
       /\ \A t \in Sessions : i \notin launched[t]
       /\ launched' = [launched EXCEPT ![s] = {i}]
       /\ running' = running \cup {i}
  /\ UNCHANGED <<handle, deleted>>

HandOver(s) ==
  /\ handle[s] = Nil
  /\ \E i \in launched[s] \cap running : handle' = [handle EXCEPT ![s] = i]
  /\ UNCHANGED <<launched, running, deleted>>

Delete(s) ==
  /\ deleted' = [deleted EXCEPT ![s] = TRUE]
  /\ UNCHANGED <<launched, running, handle>>

(* Given up before it was handed over, or reclaimed.                         *)
Stop(s) ==
  /\ handle[s] = Nil \/ deleted[s]
  /\ running' = running \ launched[s]
  /\ UNCHANGED <<launched, handle, deleted>>

Next == \E s \in Sessions : Launch(s) \/ HandOver(s) \/ Delete(s) \/ Stop(s)

Spec == Init /\ [][Next]_vars

-----------------------------------------------------------------------------

(* What was handed over is the one node there ever was, and runs until the   *)
(* owner's DELETE.                                                           *)
KeptUntilDeleted ==
  \A s \in Sessions : handle[s] # Nil =>
    /\ launched[s] = {handle[s]}
    /\ deleted[s] \/ handle[s] \in running
=============================================================================
