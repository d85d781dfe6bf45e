------------------------------- MODULE Poller -------------------------------
(* The CricketData poller of cricdata and its quota guard: Poller.call on    *)
(* the api_quota table, in invocations of the poller Lambda (or scripts)     *)
(* that may overlap. Both QuotaStores are the same table here: get is a      *)
(* consistent read, increment an atomic add. What a poll writes to the raw   *)
(* bucket afterwards is left out: nothing reads it back.                     *)
EXTENDS Naturals, FiniteSets

CONSTANTS
  Pollers,             \* invocations that may be under way at the same time
  LastDay,             \* bound: the UTC days are 1..LastDay
  FailClosedThreshold,
  DailyLimit           \* what CricketData allows per day

ASSUME PollerAssumption ==
  /\ IsFiniteSet(Pollers)
  /\ LastDay \in Nat \ {0}
  /\ FailClosedThreshold \in Nat \ {0}
  /\ DailyLimit \in Nat

VARIABLES
  today,               \* the UTC date
  hits,                \* hits[d]: api_quota's counter of day d
  sent,                \* sent[d]: the requests CricketData received on day d
  pollers              \* pollers[p]: where invocation p is, and its "day"

vars == <<today, hits, sent, pollers>>

Days == 1..LastDay

Init ==
  /\ today = 1
  /\ hits = [d \in Days |-> 0]
  /\ sent = [d \in Days |-> 0]
  /\ pollers = [p \in Pollers |-> [pc |-> "idle", day |-> 1]]

At(p, pc) == pollers[p].pc = pc
Goto(p, pc) == pollers' = [pollers EXCEPT ![p].pc = pc]

(* The schedule, a retry of the Lambda service or a person starts a poll;    *)
(* call reads the clock.                                                     *)
Invoke(p) ==
  /\ At(p, "idle")
  /\ pollers' = [pollers EXCEPT ![p] = [pc |-> "get", day |-> today]]
  /\ UNCHANGED <<today, hits, sent>>

(* Slip, for the mutation checks: > for >=. *)
GetOffByOne(p) ==
  /\ At(p, "get")
  /\ Goto(p, IF hits[pollers[p].day] > FailClosedThreshold THEN "idle" ELSE "increment")
  /\ UNCHANGED <<today, hits, sent>>

(* store.get: QuotaExceeded at the threshold, and the poll is skipped.       *)
Get(p) ==
  /\ At(p, "get")
  /\ Goto(p, IF hits[pollers[p].day] >= FailClosedThreshold THEN "idle" ELSE "increment")
  /\ UNCHANGED <<today, hits, sent>>

(* Slip, for the mutation checks: INSERT OR REPLACE for the upsert. *)
IncrementReplacing(p) ==
  /\ At(p, "increment")
  /\ hits' = [hits EXCEPT ![pollers[p].day] = 1]
  /\ Goto(p, "send")
  /\ UNCHANGED <<today, sent>>

(* store.increment, under the day that was read before the check.            *)
Increment(p) ==
  /\ At(p, "increment")
  /\ hits' = [hits EXCEPT ![pollers[p].day] = @ + 1]
  /\ Goto(p, "send")
  /\ UNCHANGED <<today, sent>>

(* urlopen: CricketData counts the request under its own date.               *)
Send(p) ==
  /\ At(p, "send")
  /\ sent' = [sent EXCEPT ![today] = @ + 1]
  /\ Goto(p, "idle")
  /\ UNCHANGED <<today, hits>>

(* A call raises, before or after it took effect, or the Lambda times out.   *)
Abort(p) ==
  /\ ~At(p, "idle")
  /\ Goto(p, "idle")
  /\ UNCHANGED <<today, hits, sent>>

Midnight ==
  /\ today < LastDay
  /\ today' = today + 1
  /\ UNCHANGED <<hits, sent, pollers>>

Next ==
  \/ \E p \in Pollers : Invoke(p) \/ Get(p) \/ Increment(p) \/ Send(p) \/ Abort(p)
  \/ Midnight

Spec == Init /\ [][Next]_vars

-----------------------------------------------------------------------------

(* Every variable keeps its type. Checks that pass at the same time exceed   *)
(* the threshold by less than the number of overlapping polls.               *)
TypeOK ==
  /\ today \in Days
  /\ hits \in [Days -> 0..(FailClosedThreshold - 1 + Cardinality(Pollers))]
  /\ sent \in [Days -> Nat]
  /\ pollers \in [Pollers -> [pc : {"idle", "get", "increment", "send"}, day : Days]]

(* CricketData never sees more requests on a day than the guard has counted  *)
(* for it, but for polls that were under way at midnight: increment comes    *)
(* before the request, so a lost answer or a crash counts too.               *)
CallsAreCounted == \A d \in Days : sent[d] <= hits[d] + Cardinality(Pollers)

(* The free tier's limit is never exceeded, although check and increment are *)
(* two calls and a poll may straddle midnight, if                            *)
(* FailClosedThreshold - 1 + 2 * Cardinality(Pollers) <= DailyLimit:         *)
(* for 95 and 100, with up to three overlapping polls.                       *)
WithinFreeTier == \A d \in Days : sent[d] <= DailyLimit

(* The guard as it is documented: at most 95 hits a day.                     *)
ThresholdHolds == \A d \in Days : hits[d] <= FailClosedThreshold
=============================================================================
