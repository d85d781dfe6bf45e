------------------------------ MODULE Cricsheet ------------------------------
(* Loading Cricsheet ZIPs: the ETL Lambda with ParquetStore, and load_sqlite *)
(* with SqliteStore, both around iter_matches. A match m has its row         *)
(* <<"matches", m>> and, if it has any innings, <<"deliveries", m>>, which   *)
(* stands for all the balls of it.                                           *)
EXTENDS Naturals, Sequences, FiniteSets

CONSTANTS
  Events,              \* S3 events, each of a ZIP that arrived in the raw bucket
  Loads,               \* ZIPs somebody loads into one SQLite file
  Matches,
  Archive,             \* Archive[j]: the matches in the ZIP of j, in namelist order
  Partitions,          \* pairs of a year and a format
  PartitionOf,         \* PartitionOf[m]: the partition match m belongs to
  Abandoned,           \* matches without innings
  MaxAttempts          \* bound: how often an event is delivered, or a load run

Jobs == Events \cup Loads
Tables == {"matches", "deliveries"}

ASSUME CricsheetAssumption ==
  /\ Events \cap Loads = {}
  /\ Archive \in [Jobs -> Seq(Matches)]
  /\ \A j \in Jobs : \A i, k \in DOMAIN Archive[j] : Archive[j][i] = Archive[j][k] => i = k
  /\ PartitionOf \in [Matches -> Partitions]
  /\ MaxAttempts \in Nat

VARIABLES
  jobs,                \* jobs[j]: the invocation at work on j
  written,             \* written[<<e, t, m>>]: how often e's attempts wrote m to t
  table                \* the rows in the SQLite file

vars == <<jobs, written, table>>

Job == [pc : {"idle", "parse", "close"}, next : Nat \ {0}, failed : BOOLEAN,
        flushed : SUBSET (Tables \X Partitions), attempts : Nat, done : BOOLEAN]

Init ==
  /\ jobs = [j \in Jobs |-> [pc |-> "idle", next |-> 1, failed |-> FALSE,
                             flushed |-> {}, attempts |-> 0, done |-> FALSE]]
  /\ written = [x \in Events \X Tables \X Matches |-> 0]
  /\ table = {}

At(j, pc) == jobs[j].pc = pc

HasRows(t, m) == t = "matches" \/ m \notin Abandoned

RowsOf(matches) == {r \in Tables \X matches : HasRows(r[1], r[2])}

(* The invocation ends; "done" stays once an attempt has succeeded.          *)
Exit(j, succeeded) ==
  jobs' = [jobs EXCEPT ![j] =
    [pc |-> "idle", next |-> 1, failed |-> FALSE, flushed |-> {},
     attempts |-> jobs[j].attempts, done |-> jobs[j].done \/ succeeded]]

(* The event is delivered, again after an error and at times without one; the *)
(* ZIP is read and the store is opened. (If that fails: Kill, right after.)  *)
Start(j) ==
  /\ At(j, "idle")
  /\ jobs[j].attempts < MaxAttempts
  /\ jobs' = [jobs EXCEPT ![j] = [jobs[j] EXCEPT !.pc = "parse", !.attempts = jobs[j].attempts + 1]]
  /\ UNCHANGED <<written, table>>

(* One turn of the loop around iter_matches: write the next match.           *)
Write(j) ==
  /\ At(j, "parse")
  /\ jobs[j].next <= Len(Archive[j])
  /\ jobs' = [jobs EXCEPT ![j] = [jobs[j] EXCEPT !.next = jobs[j].next + 1]]
  /\ UNCHANGED <<written, table>>

(* The end of the ZIP and an exception both lead into the finally clause: a  *)
(* file json.load or _parse_match raises on, a write that fails.             *)
EndOfLoop(j) ==
  /\ At(j, "parse")
  /\ jobs' = [jobs EXCEPT ![j] =
       [jobs[j] EXCEPT !.pc = "close", !.failed = jobs[j].next <= Len(Archive[j])]]
  /\ UNCHANGED <<written, table>>

Buffered(j) == {Archive[j][i] : i \in 1..(jobs[j].next - 1)}

(* The buffered rows of one table and partition.                             *)
PartRows(j, t, p) ==
  {m \in Buffered(j) : PartitionOf[m] = p /\ HasRows(t, m)}

Unflushed(j, t) ==
  {p \in Partitions : PartRows(j, t, p) # {} /\ <<t, p>> \notin jobs[j].flushed}

(* Slip, for the mutation checks: the two loops of close in the other order. *)
MayFlushBallsFirst(j, t) == t = "matches" => Unflushed(j, "deliveries") = {}

(* close goes through all partitions of matches, then of deliveries.         *)
MayFlush(j, t) == t = "deliveries" => Unflushed(j, "matches") = {}

WithPart(j, t, p) ==
  [x \in Events \X Tables \X Matches |->
     IF x[1] = j /\ x[2] = t /\ x[3] \in PartRows(j, t, p) THEN written[x] + 1 ELSE written[x]]

(* Slip, for the mutation checks: an error of put_object is logged, not raised. *)
FlushLoggingErrors(j, t, p) ==
  /\ At(j, "close")
  /\ p \in Unflushed(j, t) /\ MayFlush(j, t)
  /\ written' \in {written, WithPart(j, t, p)}
  /\ jobs' = [jobs EXCEPT ![j] = [jobs[j] EXCEPT !.flushed = jobs[j].flushed \cup {<<t, p>>}]]
  /\ UNCHANGED table

(* Slip, for the mutation checks: put_object is tried again after an error. *)
FlushRetrying(j, t, p) ==
  /\ At(j, "close")
  /\ p \in Unflushed(j, t) /\ MayFlush(j, t)
  /\ written' = WithPart(j, t, p)
  /\ \/ jobs' = [jobs EXCEPT ![j] = [jobs[j] EXCEPT !.flushed = jobs[j].flushed \cup {<<t, p>>}]]
     \/ UNCHANGED jobs
  /\ UNCHANGED table

(* _flush: one object under a fresh name. An error, whether or not the       *)
(* object was written, ends the invocation.                                  *)
Flush(j, t, p) ==
  /\ At(j, "close")
  /\ p \in Unflushed(j, t) /\ MayFlush(j, t)
  /\ \/ /\ written' = WithPart(j, t, p)
        /\ jobs' = [jobs EXCEPT ![j] = [jobs[j] EXCEPT !.flushed = jobs[j].flushed \cup {<<t, p>>}]]
     \/ /\ written' \in {written, WithPart(j, t, p)}
        /\ Exit(j, FALSE)
  /\ UNCHANGED table

(* close has flushed everything; the exception, if any, is raised on.        *)
Closed(j) ==
  /\ At(j, "close")
  /\ \A t \in Tables : Unflushed(j, t) = {}
  /\ Exit(j, ~jobs[j].failed)
  /\ UNCHANGED <<written, table>>

(* Slip, for the mutation checks: the deliveries are inserted first.         *)
HalfWrittenBalls(j) == RowsOf({Archive[j][jobs[j].next]}) \ {<<"matches", Archive[j][jobs[j].next]>>}

(* SqliteStore.write inserts the match, then its deliveries: what is there of *)
(* it when the second statement fails. (Some of the balls are not all.)      *)
HalfWritten(j) == {<<"matches", Archive[j][jobs[j].next]>>}

(* Slip, for the mutation checks: no finally, the table is created anew.     *)
CommitReplacing(j) ==
  /\ At(j, "close")
  /\ table' = RowsOf(Buffered(j))
  /\ Exit(j, ~jobs[j].failed)
  /\ UNCHANGED written

(* SqliteStore.close: everything written since the connection was opened,    *)
(* INSERT OR REPLACE by primary key, is committed at once, half a match too  *)
(* if it was its write that raised.                                          *)
Commit(j) ==
  /\ At(j, "close")
  /\ \/ table' = table \cup RowsOf(Buffered(j))
     \/ jobs[j].failed /\ table' = table \cup RowsOf(Buffered(j)) \cup HalfWritten(j)
  /\ Exit(j, ~jobs[j].failed)
  /\ UNCHANGED written

(* get_object fails, the Lambda times out, the process is killed: no finally. *)
Kill(j) ==
  /\ ~At(j, "idle")
  /\ Exit(j, FALSE)
  /\ UNCHANGED <<written, table>>

Next ==
  \/ \E j \in Jobs : Start(j) \/ Write(j) \/ EndOfLoop(j) \/ Kill(j)
  \/ \E e \in Events : \/ \E t \in Tables, p \in Partitions : Flush(e, t, p)
                       \/ Closed(e)
  \/ \E l \in Loads : Commit(l)

Spec == Init /\ [][Next]_vars

-----------------------------------------------------------------------------

(* Every variable keeps its type.                                            *)
TypeOK ==
  /\ jobs \in [Jobs -> Job]
  /\ written \in [Events \X Tables \X Matches -> Nat]
  /\ table \subseteq Tables \X Matches

(* What a query of the place j is loaded into finds.                         *)
Found(j, t, m) == IF j \in Events THEN written[<<j, t, m>>] > 0 ELSE <<t, m>> \in table

(* Once an attempt has returned without an error, all the ZIP holds is in    *)
(* the curated bucket, or in the SQLite file, whatever other attempts did.   *)
DoneIsComplete ==
  \A j \in Jobs : jobs[j].done =>
    \A i \in DOMAIN Archive[j], t \in Tables :
      HasRows(t, Archive[j][i]) => Found(j, t, Archive[j][i])

(* Deliveries are never there without their match, not even while close is   *)
(* under way, after it broke off, or after a write that failed halfway: a    *)
(* query may join the tables at any time.                                    *)
BallsHaveMatches ==
  \A j \in Jobs, m \in Matches : Found(j, "deliveries", m) => Found(j, "matches", m)

(* A row is there once per attempt at most: exactly once if none failed.     *)
OneCopyPerAttempt ==
  \A e \in Events, t \in Tables, m \in Matches : written[<<e, t, m>>] <= jobs[e].attempts

-----------------------------------------------------------------------------
(* What the loader looks like to whoever queries what it has loaded          *)

(* Part names are fresh: an event has a place of its own in the bucket. All  *)
(* loads share the SQLite file.                                              *)
Places == {{e} : e \in Events} \cup {Loads}
PlaceOf == [j \in Jobs |-> IF j \in Events THEN {j} ELSE Loads]

Held == [j \in Jobs |-> RowsOf({Archive[j][i] : i \in DOMAIN Archive[j]})]

Content ==
  [s \in Places |->
     IF s = Loads THEN table
     ELSE {r \in Tables \X Matches : \E e \in s : written[<<e, r[1], r[2]>>] > 0}]

Store == INSTANCE StoreContract WITH
  Stores  <- Places,
  StoreOf <- PlaceOf,
  Holds   <- Held,
  content <- Content,
  done    <- {j \in Jobs : jobs[j].done}

(* ParquetStore under the ETL handler and SqliteStore under load_sqlite both *)
(* implement StoreContract, wherever attempts break off and however often    *)
(* they are repeated.                                                        *)
StoreSpec == Store!Spec
=============================================================================
