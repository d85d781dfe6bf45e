---------------------------- MODULE PollerProofs ----------------------------
(* The quota guard for every number of overlapping polls, every threshold,   *)
(* and every number of days.                                                 *)
EXTENDS PollerInv, FiniteSetTheorems, TLAPS

N == Cardinality(Pollers)

(* Sets of pollers are finite and no larger than Pollers. *)
LEMMA PollerSets ==
  /\ N \in Nat
  /\ \A S \in SUBSET Pollers :
       IsFiniteSet(S) /\ Cardinality(S) \in Nat /\ Cardinality(S) <= N
BY PollerAssumption, FS_Subset, FS_CardinalityType DEF N

(* One poller joins a set, or leaves it. *)
LEMMA OneMore ==
  ASSUME NEW S \in SUBSET Pollers, NEW p \in Pollers, NEW T \in SUBSET Pollers,
         T \subseteq S \cup {p}
  PROVE  /\ Cardinality(T) <= Cardinality(S) + 1
         /\ p \in S /\ p \notin T => Cardinality(T) + 1 <= Cardinality(S)
         /\ p \in S \/ p \notin T => Cardinality(T) <= Cardinality(S)
<1>1. IsFiniteSet(S) /\ IsFiniteSet(T) /\ Cardinality(S) \in Nat /\ Cardinality(T) \in Nat
  BY PollerSets
<1>2. CASE p \in S
  <2>1. T \subseteq S
    BY <1>2
  <2>2. Cardinality(T) <= Cardinality(S)
    BY <1>1, <2>1, FS_Subset
  <2>3. ASSUME p \notin T
        PROVE  Cardinality(T) + 1 <= Cardinality(S)
    <3>1. Cardinality(S \ {p}) = Cardinality(S) - 1 /\ IsFiniteSet(S \ {p})
      BY <1>1, <1>2, FS_RemoveElement
    <3>2. T \subseteq S \ {p}
      BY <2>1, <2>3
    <3>3. Cardinality(T) <= Cardinality(S \ {p})
      BY <3>1, <3>2, FS_Subset
    <3> QED
      BY <1>1, <3>1, <3>3
  <2> QED
    BY <1>1, <2>2, <2>3
<1>3. CASE p \notin S
  <2>1. Cardinality(S \cup {p}) = Cardinality(S) + 1 /\ IsFiniteSet(S \cup {p})
    BY <1>1, <1>3, FS_AddElement
  <2>2. Cardinality(T) <= Cardinality(S \cup {p})
    BY <2>1, FS_Subset
  <2>3. ASSUME p \notin T
        PROVE  Cardinality(T) <= Cardinality(S)
    <3>1. T \subseteq S
      BY <2>3
    <3> QED
      BY <1>1, <3>1, FS_Subset
  <2> QED
    BY <1>1, <1>3, <2>1, <2>2, <2>3
<1> QED
  BY <1>2, <1>3

(* The deployment starts with empty counters and no poll under way. *)
LEMMA InitQuotaInv == Init => QuotaInv
<1> SUFFICES ASSUME Init PROVE QuotaInv
  OBVIOUS
<1> USE PollerAssumption DEF Init
<1>1. N \in Nat /\ 1 \in Days
  BY PollerSets DEF Days
<1>2. TypeOK
  BY <1>1 DEF TypeOK, N
<1>3. \A d \in Days : Checked(d) = {}
  BY DEF Checked, At
<1>4. Owing = {}
  BY DEF Owing, At
<1>5. Cardinality({}) = 0
  BY FS_EmptySet
<1>6. \A d \in Days :
        hits[d] + Cardinality(Checked(d)) <= FailClosedThreshold - 1 + Cardinality(Pollers)
  <2> SUFFICES ASSUME NEW d \in Days
               PROVE  0 <= FailClosedThreshold - 1 + N
    BY <1>3, <1>5 DEF N
  <2> QED
    BY <1>1
<1>7. /\ sent[today] + Cardinality(Owing) <= hits[today] + Cardinality(Pollers)
      /\ CallsAreCounted
  BY <1>1, <1>4, <1>5 DEF N, CallsAreCounted
<1> QED
  BY <1>2, <1>6, <1>7 DEF QuotaInv

(* Every step keeps the invariant: a poll that passes the check has its place *)
(* in the slack above the threshold, one that is counted takes its request    *)
(* out of it, and at midnight every poll under way may owe the new day one.   *)
LEMMA NextQuotaInv == QuotaInv /\ [Next]_vars => QuotaInv'
<1> SUFFICES ASSUME QuotaInv, [Next]_vars PROVE QuotaInv'
  OBVIOUS
<1> USE PollerAssumption DEF QuotaInv
<1>1. /\ N \in Nat /\ today \in Nat /\ today \in Days
      /\ \A d \in Days : d \in Nat /\ hits[d] \in Nat /\ sent[d] \in Nat
      /\ \A d \in Days : Checked(d) \in SUBSET Pollers /\ Cardinality(Checked(d)) \in Nat
      /\ Owing \in SUBSET Pollers /\ Cardinality(Owing) \in Nat
  BY PollerSets DEF TypeOK, Days, Checked, Owing, N
<1>2. /\ \A d \in Days : Checked(d)' \in SUBSET Pollers /\ Cardinality(Checked(d)') \in Nat
      /\ \A d \in Days : Cardinality(Checked(d)') <= N
      /\ Owing' \in SUBSET Pollers /\ Cardinality(Owing') \in Nat /\ Cardinality(Owing') <= N
  BY PollerSets DEF Checked, Owing
<1>3. CASE UNCHANGED vars
  <2>1. /\ \A d \in Days : Checked(d)' = Checked(d)
        /\ Owing' = Owing
    BY <1>3 DEF vars, Checked, Owing, At
  <2> QED
    BY <1>3, <2>1 DEF vars, TypeOK, CallsAreCounted
(* A step of one poll that counts and sends nothing.                          *)
<1>4. ASSUME NEW p \in Pollers, UNCHANGED <<today, hits, sent>>,
             pollers' \in [Pollers -> [pc : {"idle", "get", "increment", "send"}, day : Days]],
             \A q \in Pollers \ {p} : pollers'[q] = pollers[q],
             p \in Owing' => p \in Owing,
             \A d \in Days : p \in Checked(d)' => hits[d] < FailClosedThreshold
      PROVE  QuotaInv'
  <2>1. TypeOK'
    BY <1>4 DEF TypeOK
  <2>2. Cardinality(Owing') <= Cardinality(Owing)
    <3>1. Owing' \subseteq Owing \cup {p}
      BY <1>4 DEF Owing, At
    <3> QED
      BY <1>1, <1>2, <1>4, <3>1, OneMore
  <2>3. ASSUME NEW d \in Days
        PROVE  hits'[d] + Cardinality(Checked(d)') <= FailClosedThreshold - 1 + N
    <3>1. CASE p \in Checked(d)'
      BY <1>1, <1>2, <1>4, <3>1
    <3>2. CASE p \notin Checked(d)'
      <4>1. Checked(d)' \subseteq Checked(d) \cup {p}
        BY <1>4 DEF Checked, At
      <4>2. Cardinality(Checked(d)') <= Cardinality(Checked(d))
        BY <1>1, <1>2, <3>2, <4>1, OneMore
      <4> QED
        BY <1>1, <1>2, <1>4, <4>2 DEF N
    <3> QED
      BY <3>1, <3>2
  <2>4. sent'[today'] + Cardinality(Owing') <= hits'[today'] + N
    BY <1>1, <1>2, <1>4, <2>2 DEF N
  <2> QED
    BY <1>4, <2>1, <2>3, <2>4 DEF N, CallsAreCounted
<1>5. ASSUME NEW p \in Pollers, Invoke(p)
      PROVE  QuotaInv'
  <2>1. pollers' = [pollers EXCEPT ![p] = [pc |-> "get", day |-> today]]
    BY <1>5 DEF Invoke
  <2>2. p \notin Owing' /\ \A d \in Days : p \notin Checked(d)'
    BY <1>5, <2>1 DEF Invoke, TypeOK, Owing, Checked, At
  <2> QED
    BY <1>1, <1>4, <1>5, <2>1, <2>2 DEF Invoke, TypeOK
<1>6. ASSUME NEW p \in Pollers, Get(p)
      PROVE  QuotaInv'
  <2>1. PICK pc \in {"idle", "increment"} :
          /\ pollers' = [pollers EXCEPT ![p].pc = pc]
          /\ pc = "increment" => ~(hits[pollers[p].day] >= FailClosedThreshold)
    BY <1>6 DEF Get, Goto
  <2>2. pollers[p].pc = "get" /\ pollers[p].day \in Days /\ UNCHANGED <<today, hits, sent>>
    BY <1>6 DEF Get, At, TypeOK
  <2>3. pollers'[p].pc = pc /\ pollers'[p].day = pollers[p].day
    BY <2>1 DEF TypeOK
  <2>4. p \in Owing' => p \in Owing
    BY <2>1, <2>2, <2>3 DEF Owing, At
  <2>5. \A d \in Days : p \in Checked(d)' => hits[d] < FailClosedThreshold
    BY <1>1, <2>1, <2>2, <2>3 DEF Checked, At
  <2>6. pollers' \in [Pollers -> [pc : {"idle", "get", "increment", "send"}, day : Days]]
    BY <2>1 DEF TypeOK
  <2>7. \A q \in Pollers \ {p} : pollers'[q] = pollers[q]
    BY <2>1 DEF TypeOK
  <2> QED
    BY <1>4, <2>2, <2>4, <2>5, <2>6, <2>7
<1>7. ASSUME NEW p \in Pollers, Abort(p)
      PROVE  QuotaInv'
  <2>1. pollers' = [pollers EXCEPT ![p].pc = "idle"] /\ UNCHANGED <<today, hits, sent>>
    BY <1>7 DEF Abort, Goto
  <2>2. pollers'[p].pc = "idle"
    BY <2>1 DEF TypeOK
  <2>3. p \notin Owing' /\ \A d \in Days : p \notin Checked(d)'
    BY <2>2 DEF Owing, Checked, At
  <2> QED
    BY <1>4, <2>1, <2>3 DEF TypeOK
<1>8. ASSUME NEW p \in Pollers, Increment(p)
      PROVE  QuotaInv'
  <2> DEFINE e == pollers[p].day
  <2>1. /\ pollers[p].pc = "increment" /\ e \in Days /\ UNCHANGED <<today, sent>>
        /\ hits' = [hits EXCEPT ![e] = hits[e] + 1]
        /\ pollers' = [pollers EXCEPT ![p].pc = "send"]
    BY <1>8 DEF Increment, Goto, At, TypeOK
  <2>2. /\ pollers'[p].pc = "send" /\ pollers'[p].day = e
        /\ \A q \in Pollers \ {p} : pollers'[q] = pollers[q]
    BY <2>1 DEF TypeOK
  <2>3. \A d \in Days : hits'[d] = IF d = e THEN hits[d] + 1 ELSE hits[d]
    BY <2>1 DEF TypeOK
  <2>4. ASSUME NEW d \in Days
        PROVE  hits'[d] + Cardinality(Checked(d)') <= FailClosedThreshold - 1 + N
    <3>1. p \notin Checked(d)' /\ Checked(d)' \subseteq Checked(d) \cup {p}
      BY <2>2 DEF Checked, At
    <3>2. CASE d = e
      <4>1. p \in Checked(d)
        BY <2>1, <3>2 DEF Checked, At
      <4>2. Cardinality(Checked(d)') + 1 <= Cardinality(Checked(d))
        BY <1>1, <1>2, <3>1, <4>1, OneMore
      <4> QED
        BY <1>1, <1>2, <2>3, <3>2, <4>2 DEF N
    <3>3. CASE d # e
      <4>1. Cardinality(Checked(d)') <= Cardinality(Checked(d))
        BY <1>1, <1>2, <3>1, OneMore
      <4> QED
        BY <1>1, <1>2, <2>3, <3>3, <4>1 DEF N
    <3> QED
      BY <3>2, <3>3
  <2>5. \A d \in Days : hits'[d] \in 0..(FailClosedThreshold - 1 + N)
    BY <1>1, <1>2, <2>3, <2>4
  <2>6. TypeOK'
    BY <2>1, <2>5 DEF TypeOK, N
  <2>7. Owing' \subseteq Owing \cup {p} /\ Cardinality(Owing') <= Cardinality(Owing) + 1
    <3>1. Owing' \subseteq Owing \cup {p}
      BY <2>1, <2>2 DEF Owing, At
    <3> QED
      BY <1>1, <1>2, <3>1, OneMore
  <2>8. sent'[today'] + Cardinality(Owing') <= hits'[today'] + N
    <3>1. CASE e = today
      BY <1>1, <1>2, <2>1, <2>3, <2>7, <3>1 DEF N
    <3>2. CASE e # today
      <4>1. p \in Owing
        BY <2>1, <3>2 DEF Owing, At
      <4>2. Cardinality(Owing') <= Cardinality(Owing)
        BY <1>1, <1>2, <2>7, <4>1, OneMore
      <4> QED
        BY <1>1, <1>2, <2>1, <2>3, <3>2, <4>2 DEF N
    <3> QED
      BY <3>1, <3>2
  <2>9. CallsAreCounted'
    BY <1>1, <2>1, <2>3 DEF CallsAreCounted, N
  <2> QED
    BY <2>1, <2>4, <2>6, <2>8, <2>9 DEF N
<1>9. ASSUME NEW p \in Pollers, Send(p)
      PROVE  QuotaInv'
  <2>1. /\ pollers[p].pc = "send" /\ UNCHANGED <<today, hits>>
        /\ sent' = [sent EXCEPT ![today] = sent[today] + 1]
        /\ pollers' = [pollers EXCEPT ![p].pc = "idle"]
    BY <1>9 DEF Send, Goto, At
  <2>2. /\ pollers'[p].pc = "idle"
        /\ \A q \in Pollers \ {p} : pollers'[q] = pollers[q]
    BY <2>1 DEF TypeOK
  <2>3. \A d \in Days : sent'[d] = IF d = today THEN sent[d] + 1 ELSE sent[d]
    BY <2>1 DEF TypeOK
  <2>4. TypeOK'
    BY <1>1, <2>1, <2>3 DEF TypeOK
  <2>5. ASSUME NEW d \in Days
        PROVE  hits'[d] + Cardinality(Checked(d)') <= FailClosedThreshold - 1 + N
    <3>1. p \notin Checked(d)' /\ Checked(d)' \subseteq Checked(d) \cup {p}
      BY <2>2 DEF Checked, At
    <3>2. Cardinality(Checked(d)') <= Cardinality(Checked(d))
      BY <1>1, <1>2, <3>1, OneMore
    <3> QED
      BY <1>1, <1>2, <2>1, <3>2 DEF N
  <2>6. Cardinality(Owing') + 1 <= Cardinality(Owing)
    <3>1. p \in Owing /\ p \notin Owing' /\ Owing' \subseteq Owing \cup {p}
      BY <2>1, <2>2 DEF Owing, At
    <3> QED
      BY <1>1, <1>2, <3>1, OneMore
  <2>7. sent'[today'] + Cardinality(Owing') <= hits'[today'] + N
    BY <1>1, <1>2, <2>1, <2>3, <2>6 DEF N
  <2>8. CallsAreCounted'
    BY <1>1, <1>2, <2>1, <2>3, <2>7 DEF CallsAreCounted, N
  <2>9. \A d \in Days : d > today' => sent'[d] = 0
    BY <1>1, <2>1, <2>3
  <2> QED
    BY <2>4, <2>5, <2>7, <2>8, <2>9 DEF N
<1>10. CASE Midnight
  <2>1. today' = today + 1 /\ today < LastDay /\ UNCHANGED <<hits, sent, pollers>>
    BY <1>10 DEF Midnight
  <2>2. today' \in Days /\ today' > today
    BY <1>1, <2>1 DEF Days
  <2>3. TypeOK'
    BY <2>1, <2>2 DEF TypeOK
  <2>4. \A d \in Days : Checked(d)' = Checked(d)
    BY <2>1 DEF Checked, At
  <2>5. sent'[today'] + Cardinality(Owing') <= hits'[today'] + N
    BY <1>1, <1>2, <2>1, <2>2
  <2>6. \A d \in Days : d > today' => sent'[d] = 0
    BY <1>1, <2>1, <2>2
  <2> QED
    BY <2>1, <2>3, <2>4, <2>5, <2>6 DEF N, CallsAreCounted
<1> QED
  BY <1>3, <1>5, <1>6, <1>7, <1>8, <1>9, <1>10 DEF Next

(* Polls between check and increment fit into the slack above the threshold,  *)
(* and every request of the day is counted or owed by a poll under way.       *)
THEOREM QuotaInvariant == Spec => []QuotaInv
BY InitQuotaInv, NextQuotaInv, PTL DEF Spec

(* CricketData never sees more requests on a day than the guard has counted   *)
(* for that day, plus one for each poll that can be under way at midnight.    *)
THEOREM CallsCounted == Spec => []CallsAreCounted
<1>1. QuotaInv => CallsAreCounted
  BY DEF QuotaInv
<1> QED
  BY <1>1, QuotaInvariant, PTL

(* The free tier's limit holds on every day, with check and increment two     *)
(* calls and polls that straddle midnight, as long as no more polls overlap   *)
(* than the buffer between threshold and limit allows: three for 95 and 100.  *)
THEOREM FreeTierHolds ==
  ASSUME FailClosedThreshold - 1 + 2 * Cardinality(Pollers) <= DailyLimit
  PROVE  Spec => []WithinFreeTier
<1>1. QuotaInv => WithinFreeTier
  <2> SUFFICES ASSUME QuotaInv, NEW d \in Days
               PROVE  sent[d] <= DailyLimit
    BY DEF WithinFreeTier
  <2>1. N \in Nat
    BY PollerSets
  <2>2. /\ hits[d] \in Nat /\ sent[d] \in Nat
        /\ hits[d] <= FailClosedThreshold - 1 + N
        /\ sent[d] <= hits[d] + N
    BY <2>1, PollerAssumption DEF QuotaInv, TypeOK, CallsAreCounted, N
  <2> QED
    BY <2>1, <2>2, PollerAssumption DEF N
<1> QED
  BY <1>1, QuotaInvariant, PTL
=============================================================================
