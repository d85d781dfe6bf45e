---------------------------- MODULE SessionStore ----------------------------
(* The sessions table of internal/store: the statements of                   *)
(* db/queries/sessions.sql as sqlc generated them. A statement is atomic on  *)
(* its own; the code never runs two of them in one transaction. Each operator*)
(* below is the table after the statement. No UPDATE looks at the status it  *)
(* overwrites. Timestamps, region, public_ip and error_reason are left out:  *)
(* no branch of the code reads them.                                         *)
EXTENDS Deployment

VARIABLE rows         \* rows[s]: the row of session s, or NoRow

Statuses == {"pending", "provisioning", "ready", "terminating", "terminated", "error"}

Row == [status : Statuses \cup {"none"}, owner : Users \cup {Nil},
        sku : SKUs \cup {Nil}, instance_id : Instances \cup {Nil}]

NoRow == [status |-> "none", owner |-> Nil, sku |-> Nil, instance_id |-> Nil]

StoreTypeOK == rows \in [Sessions -> Row]
StoreInit   == rows = [s \in Sessions |-> NoRow]

Exists(s) == rows[s].status # "none"

(* UPDATE ... WHERE id = s: a table without the row is left as it is.        *)
Updated(s, row) == IF Exists(s) THEN [rows EXCEPT ![s] = row] ELSE rows

CreateSession(s, u, k) ==
  [rows EXCEPT ![s] =
     [status |-> "pending", owner |-> u, sku |-> k, instance_id |-> Nil]]

(* Slip, for the mutation checks: GetSession where GetSessionForUser is meant. *)
FoundForAnyone(s, u) == Exists(s)

FoundForUser(s, u) == Exists(s) /\ rows[s].owner = u

(* Slip, for the mutation checks: the UPDATE also clears instance_id. *)
SetSessionTerminatedForgetting(s) ==
  Updated(s, [rows[s] EXCEPT !.status = "terminated", !.instance_id = Nil])

SetSessionStatus(s, st)  == Updated(s, [rows[s] EXCEPT !.status = st])
SetSessionReady(s, i)    == Updated(s, [rows[s] EXCEPT !.status = "ready", !.instance_id = i])
SetSessionError(s)       == Updated(s, [rows[s] EXCEPT !.status = "error"])
SetSessionTerminated(s)  == Updated(s, [rows[s] EXCEPT !.status = "terminated"])

=============================================================================
