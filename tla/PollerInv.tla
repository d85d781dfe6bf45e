------------------------------ MODULE PollerInv ------------------------------
(* The inductive invariant of the quota guard, kept without its proof so     *)
(* that TLC checks it too.                                                   *)
EXTENDS Poller

(* Polls past the check that have not been counted yet.                      *)
Checked(d) == {p \in Pollers : At(p, "increment") /\ pollers[p].day = d}

(* Polls that may send a request today that is not, or no longer, covered by *)
(* a future increment of today's counter: counted ones, and yesterday's.     *)
Owing ==
  {p \in Pollers : \/ At(p, "send") /\ pollers[p].day = today
                   \/ ~At(p, "idle") /\ pollers[p].day # today}

QuotaInv ==
  /\ TypeOK
  /\ \A d \in Days :
       hits[d] + Cardinality(Checked(d)) <= FailClosedThreshold - 1 + Cardinality(Pollers)
  /\ \A d \in Days : d > today => sent[d] = 0
  /\ sent[today] + Cardinality(Owing) <= hits[today] + Cardinality(Pollers)
  /\ CallsAreCounted
=============================================================================
