--------------------------- MODULE CricsheetProofs ---------------------------
(* The loader, for any ZIPs, partitions and number of attempts: LoaderInv is *)
(* inductive. An invocation ends in Exit or goes on in its own record, so    *)
(* each case below looks at the one job that moves.                          *)
EXTENDS CricsheetInv, TLAPS

USE DEF At

Keys == Events \X Tables \X Matches

(* What flushing one partition does to the counts: one more for its rows.    *)
LEMMA WithPartAdds ==
  ASSUME TypeOK, NEW e \in Events, NEW t \in Tables, NEW p \in Partitions
  PROVE  /\ WithPart(e, t, p) \in [Keys -> Nat]
         /\ \A f \in Events, u \in Tables, m \in Matches :
              WithPart(e, t, p)[<<f, u, m>>] =
                IF f = e /\ u = t /\ m \in PartRows(e, t, p)
                THEN written[<<f, u, m>>] + 1 ELSE written[<<f, u, m>>]
BY DEF TypeOK, WithPart, Keys

(* Rows of deliveries come with a row of matches in the same partition.      *)
LEMMA BallsComeWithMatches ==
  ASSUME NEW j \in Jobs, NEW p \in Partitions
  PROVE  PartRows(j, "deliveries", p) \subseteq PartRows(j, "matches", p)
BY DEF PartRows, HasRows

(* What an attempt holds in memory depends on its position in the ZIP only.  *)
LEMMA SameRows ==
  ASSUME NEW j \in Jobs, jobs'[j].next = jobs[j].next, NEW t \in Tables, NEW p \in Partitions
  PROVE  PartRows(j, t, p)' = PartRows(j, t, p)
BY DEF PartRows, Buffered

(* A job that has read its ZIP to the end holds every match of it.           *)
LEMMA AllBuffered ==
  ASSUME LoaderInv, NEW j \in Jobs, At(j, "close"), ~jobs[j].failed, NEW i \in DOMAIN Archive[j]
  PROVE  Archive[j][i] \in Buffered(j) /\ Archive[j][i] \in Matches
<1>1. Archive[j] \in Seq(Matches) /\ jobs[j].next \in Nat
  BY CricsheetAssumption DEF LoaderInv, TypeOK, Job
<1>2. jobs[j].next = Len(Archive[j]) + 1
  BY <1>1 DEF LoaderInv, LoopsEnd
<1>3. i \in 1..Len(Archive[j])
  BY <1>1
<1> QED BY <1>1, <1>2, <1>3 DEF Buffered

(* The loader's invariant holds at the start.                                *)
LEMMA LoaderStart == Init => LoaderInv
<1> SUFFICES ASSUME Init PROVE LoaderInv
  OBVIOUS
<1>1. TypeOK
  BY DEF Init, TypeOK, Job
<1>2. LoopsEnd
  BY CricsheetAssumption DEF Init, LoopsEnd
<1>3. /\ FlushedIsThere /\ NothingFlushedEarly /\ OneCopyInFlight
      /\ BallsHaveMatches /\ DoneIsComplete
  BY DEF Init, FlushedIsThere, NothingFlushedEarly, OneCopyInFlight, BallsHaveMatches,
         DoneIsComplete, Found, Jobs, Tables
<1>4. OneCopyPerAttempt
  BY DEF Init, OneCopyPerAttempt, Jobs
<1> QED BY <1>1, <1>2, <1>3, <1>4 DEF LoaderInv

(* A step of job j may raise the counts of its own rows, within its attempts. *)
Grown(j) ==
  /\ written' \in [Keys -> Nat]
  /\ \A f \in Events, t \in Tables, m \in Matches :
       /\ written'[<<f, t, m>>] >= written[<<f, t, m>>]
       /\ written'[<<f, t, m>>] <= jobs[f].attempts
       /\ f # j => written'[<<f, t, m>>] = written[<<f, t, m>>]
  /\ table \subseteq table' /\ table' \subseteq Tables \X Matches
  /\ BallsHaveMatches'

(* What a query has found it will find again.                                *)
LEMMA StaysFound ==
  ASSUME LoaderInv, NEW j \in Jobs, Grown(j), NEW k \in Jobs, NEW t \in Tables,
         NEW m \in Matches, Found(k, t, m)
  PROVE  Found(k, t, m)'
<1>1. k \in Events => written[<<k, t, m>>] \in Nat /\ written'[<<k, t, m>>] \in Nat
  BY DEF LoaderInv, TypeOK, Grown, Keys
<1> QED
  BY <1>1 DEF Grown, Found

(* One object put by close keeps within that.                                *)
LEMMA FlushGrows ==
  ASSUME LoaderInv, NEW e \in Events, NEW t \in Tables, NEW p \in Partitions, At(e, "close"),
         p \in Unflushed(e, t), MayFlush(e, t), written' = WithPart(e, t, p),
         UNCHANGED table
  PROVE  /\ Grown(e)
         /\ \A f \in Events, u \in Tables, m \in Matches :
              written'[<<f, u, m>>] =
                IF f = e /\ u = t /\ m \in PartRows(e, t, p)
                THEN written[<<f, u, m>>] + 1 ELSE written[<<f, u, m>>]
<1>1. /\ written' \in [Keys -> Nat]
      /\ \A f \in Events, u \in Tables, m \in Matches :
           written'[<<f, u, m>>] =
             IF f = e /\ u = t /\ m \in PartRows(e, t, p)
             THEN written[<<f, u, m>>] + 1 ELSE written[<<f, u, m>>]
  BY WithPartAdds DEF LoaderInv
<1>2. written \in [Keys -> Nat] /\ \A f \in Events : jobs[f].attempts \in Nat
  BY DEF LoaderInv, TypeOK, Job, Jobs, Keys
<1>3. ASSUME NEW f \in Events, NEW u \in Tables, NEW m \in Matches
      PROVE  /\ written'[<<f, u, m>>] >= written[<<f, u, m>>]
             /\ written'[<<f, u, m>>] <= jobs[f].attempts
             /\ f # e => written'[<<f, u, m>>] = written[<<f, u, m>>]
  <2>1. written[<<f, u, m>>] \in Nat /\ written[<<f, u, m>>] <= jobs[f].attempts
    BY <1>2 DEF LoaderInv, OneCopyPerAttempt, Keys
  <2>2. f = e /\ u = t /\ m \in PartRows(e, t, p) => written[<<f, u, m>>] < jobs[f].attempts
    BY DEF LoaderInv, OneCopyInFlight, Unflushed, PartRows
  <2> QED BY <1>1, <1>2, <2>1, <2>2
<1>4. BallsHaveMatches'
  <2> SUFFICES ASSUME NEW f \in Events, NEW m \in Matches, written'[<<f, "deliveries", m>>] > 0
               PROVE  written'[<<f, "matches", m>>] > 0
    BY DEF LoaderInv, BallsHaveMatches, Found
  <2>1. /\ written[<<f, "deliveries", m>>] \in Nat /\ written[<<f, "matches", m>>] \in Nat
        /\ written'[<<f, "matches", m>>] >= written[<<f, "matches", m>>]
        /\ written'[<<f, "matches", m>>] \in Nat
    BY <1>1, <1>2, <1>3 DEF Keys, Tables
  <2>2. CASE written[<<f, "deliveries", m>>] > 0
    <3>1. Found(f, "deliveries", m) => Found(f, "matches", m)
      BY DEF LoaderInv, BallsHaveMatches, Jobs
    <3> QED BY <2>1, <2>2, <3>1 DEF Found
  <2>3. CASE f = e /\ t = "deliveries" /\ m \in PartRows(e, t, p)
    <3>1. m \in PartRows(e, "matches", p)
      BY <2>3, BallsComeWithMatches DEF Jobs
    <3>2. <<"matches", p>> \in jobs[e].flushed
      BY <2>3, <3>1 DEF MayFlush, Unflushed
    <3>3. written[<<f, "matches", m>>] > 0
      BY <2>3, <3>1, <3>2 DEF LoaderInv, FlushedIsThere, Tables
    <3> QED BY <2>1, <3>3
  <2> QED BY <1>1, <2>1, <2>2, <2>3 DEF Tables
<1> QED BY <1>1, <1>3, <1>4 DEF Grown, LoaderInv, TypeOK

(* A step that writes nothing keeps within that too.                         *)
LEMMA SameGrows ==
  ASSUME LoaderInv, NEW j \in Jobs, UNCHANGED <<written, table>>
  PROVE  Grown(j)
<1>1. written \in [Keys -> Nat] /\ \A f \in Events : jobs[f].attempts \in Nat
  BY DEF LoaderInv, TypeOK, Job, Jobs, Keys
<1> QED BY <1>1 DEF LoaderInv, TypeOK, OneCopyPerAttempt, BallsHaveMatches, Found, Grown, Keys

(* An invocation that ends: LoaderInv is kept, whatever it wrote on its way  *)
(* out, if everything is in place in case it claims success.                 *)
LEMMA LoaderExit ==
  ASSUME LoaderInv, NEW j \in Jobs, NEW ok \in BOOLEAN, Exit(j, ok), Grown(j),
         ok => \A i \in DOMAIN Archive[j], t \in Tables :
                 HasRows(t, Archive[j][i]) => Found(j, t, Archive[j][i])'
  PROVE  LoaderInv'
<1>1. /\ jobs'[j] = [pc |-> "idle", next |-> 1, failed |-> FALSE, flushed |-> {},
                     attempts |-> jobs[j].attempts, done |-> jobs[j].done \/ ok]
      /\ \A i \in Jobs \ {j} : jobs'[i] = jobs[i]
  BY DEF LoaderInv, TypeOK, Job, Exit
<1>2. TypeOK'
  BY DEF LoaderInv, TypeOK, Job, Exit, Grown, Keys
<1>3. LoopsEnd'
  <2>1. \A i \in Jobs : Len(Archive[i]) \in Nat
    BY CricsheetAssumption
  <2> QED BY <1>1, <2>1 DEF LoaderInv, LoopsEnd
<1>4. FlushedIsThere'
  <2> SUFFICES ASSUME NEW e \in Events, NEW t \in Tables, NEW p \in Partitions,
                      <<t, p>> \in jobs'[e].flushed, NEW m \in PartRows(e, t, p)'
               PROVE  written'[<<e, t, m>>] > 0
    BY DEF FlushedIsThere
  <2>1. e # j /\ e \in Jobs /\ jobs'[e] = jobs[e]
    BY <1>1 DEF Jobs
  <2>2. m \in PartRows(e, t, p) /\ m \in Matches
    <3>1. m \in PartRows(e, t, p)
      BY <2>1, SameRows
    <3>2. Archive[e] \in Seq(Matches) /\ jobs[e].next \in Nat /\ jobs[e].next <= Len(Archive[e]) + 1
      BY <2>1, CricsheetAssumption DEF LoaderInv, LoopsEnd, TypeOK, Job
    <3> QED BY <3>1, <3>2 DEF PartRows, Buffered
  <2> QED BY <2>1, <2>2 DEF LoaderInv, FlushedIsThere, Grown
<1>5. NothingFlushedEarly' /\ OneCopyInFlight'
  BY <1>1 DEF LoaderInv, NothingFlushedEarly, OneCopyInFlight, Grown, Jobs
<1>6. OneCopyPerAttempt' /\ BallsHaveMatches'
  BY <1>1 DEF OneCopyPerAttempt, Grown, Jobs
<1>7. DoneIsComplete'
  <2> SUFFICES ASSUME NEW k \in Jobs, jobs'[k].done, NEW i \in DOMAIN Archive[k],
                      NEW t \in Tables, HasRows(t, Archive[k][i])
               PROVE  Found(k, t, Archive[k][i])'
    BY DEF DoneIsComplete, HasRows
  <2>1. CASE jobs[k].done
    <3>1. Archive[k][i] \in Matches
      BY CricsheetAssumption
    <3>2. Found(k, t, Archive[k][i])
      BY <2>1 DEF LoaderInv, DoneIsComplete
    <3> QED BY <3>1, <3>2, StaysFound
  <2>2. CASE ~jobs[k].done
    BY <1>1, <2>2
  <2> QED BY <2>1, <2>2
<1> QED BY <1>2, <1>3, <1>4, <1>5, <1>6, <1>7 DEF LoaderInv

(* A step of a job that goes on, and puts nothing anywhere.                  *)
LEMMA LoaderMoves ==
  ASSUME LoaderInv, NEW j \in Jobs, Start(j) \/ Write(j) \/ EndOfLoop(j)
  PROVE  LoaderInv'
<1> DEFINE r == jobs'[j]
<1>1. /\ jobs[j] \in Job /\ UNCHANGED <<written, table>>
      /\ Len(Archive[j]) \in Nat /\ jobs[j].flushed = {} /\ jobs[j].pc # "close"
  BY CricsheetAssumption DEF LoaderInv, TypeOK, NothingFlushedEarly, Start, Write, EndOfLoop
<1>2. /\ r \in Job /\ r.flushed = {} /\ r.done = jobs[j].done
      /\ r.pc \in {"parse", "close"}
      /\ r.attempts >= jobs[j].attempts
      /\ jobs[j].pc = "idle" => r.attempts = jobs[j].attempts + 1
      /\ r.pc # "parse" => jobs[j].pc = "parse"
      /\ r.next <= Len(Archive[j]) + 1
      /\ r.pc = "close" => (r.failed <=> r.next <= Len(Archive[j]))
      /\ jobs' = [jobs EXCEPT ![j] = r]
  <2>1. CASE Start(j)
    <3>1. r = [pc |-> "parse", next |-> jobs[j].next, failed |-> jobs[j].failed, flushed |-> {},
               attempts |-> jobs[j].attempts + 1, done |-> jobs[j].done]
      BY <1>1, <2>1 DEF LoaderInv, TypeOK, Start, Job
    <3>2. jobs' = [jobs EXCEPT ![j] = r]
      BY <2>1, <3>1 DEF LoaderInv, TypeOK, Start
    <3>3. r \in Job
      BY <1>1, <3>1 DEF Job
    <3> QED BY <1>1, <2>1, <3>1, <3>2, <3>3 DEF LoaderInv, LoopsEnd, Start, Job
  <2>2. CASE Write(j)
    <3>1. r = [jobs[j] EXCEPT !.next = jobs[j].next + 1]
      BY <1>1, <2>2 DEF LoaderInv, TypeOK, Write
    <3>2. jobs' = [jobs EXCEPT ![j] = r]
      BY <2>2, <3>1 DEF LoaderInv, TypeOK, Write
    <3> QED BY <1>1, <2>2, <3>1, <3>2 DEF LoaderInv, LoopsEnd, Write, Job
  <2>3. CASE EndOfLoop(j)
    <3>1. r = [pc |-> "close", next |-> jobs[j].next, failed |-> jobs[j].next <= Len(Archive[j]),
               flushed |-> {}, attempts |-> jobs[j].attempts, done |-> jobs[j].done]
      BY <1>1, <2>3 DEF LoaderInv, TypeOK, EndOfLoop, Job
    <3>2. jobs' = [jobs EXCEPT ![j] = r]
      BY <2>3, <3>1 DEF LoaderInv, TypeOK, EndOfLoop
    <3>3. r \in Job
      BY <1>1, <3>1 DEF Job
    <3> QED BY <1>1, <2>3, <3>1, <3>2, <3>3 DEF LoaderInv, LoopsEnd, EndOfLoop, Job
  <2> QED BY <2>1, <2>2, <2>3
<1>3. \A i \in Jobs \ {j} : jobs'[i] = jobs[i]
  BY <1>2 DEF LoaderInv, TypeOK
<1>4. TypeOK' /\ LoopsEnd' /\ NothingFlushedEarly'
  BY <1>1, <1>2, <1>3 DEF LoaderInv, TypeOK, LoopsEnd, NothingFlushedEarly
<1>5. FlushedIsThere'
  BY <1>1, <1>2, <1>3, SameRows DEF LoaderInv, FlushedIsThere, Jobs
<1>6. OneCopyInFlight' /\ OneCopyPerAttempt'
  <2> SUFFICES ASSUME NEW e \in Events, NEW t \in Tables, NEW m \in Matches
               PROVE  /\ jobs'[e].pc \in {"parse", "close"} /\ e = j =>
                            written[<<e, t, m>>] < jobs'[e].attempts
                      /\ written[<<e, t, m>>] <= jobs'[e].attempts
    BY <1>1, <1>2, <1>3 DEF LoaderInv, OneCopyInFlight, OneCopyPerAttempt, Jobs
  <2>1. /\ written[<<e, t, m>>] \in Nat /\ jobs[e].attempts \in Nat /\ jobs'[e].attempts \in Nat
        /\ written[<<e, t, m>>] <= jobs[e].attempts
    BY <1>1, <1>4 DEF LoaderInv, OneCopyPerAttempt, TypeOK, Job, Jobs
  <2>2. e = j /\ jobs[e].pc = "parse" => written[<<e, t, m>>] < jobs[e].attempts
    BY DEF LoaderInv, OneCopyInFlight
  <2>3. jobs[e].pc \in {"idle", "parse", "close"}
    BY DEF LoaderInv, TypeOK, Job, Jobs
  <2>4. CASE e = j
    BY <1>1, <1>2, <2>1, <2>2, <2>3, <2>4
  <2>5. CASE e # j
    BY <1>3, <2>1, <2>5 DEF Jobs
  <2> QED BY <2>4, <2>5
<1>7. BallsHaveMatches' /\ DoneIsComplete'
  BY <1>1, <1>2, <1>3 DEF LoaderInv, BallsHaveMatches, DoneIsComplete, Found
<1> QED BY <1>4, <1>5, <1>6, <1>7 DEF LoaderInv

(* A partition flushed while the invocation goes on.                         *)
LEMMA LoaderFlushes ==
  ASSUME LoaderInv, NEW e \in Events, NEW t \in Tables, NEW p \in Partitions, At(e, "close"),
         p \in Unflushed(e, t), MayFlush(e, t), written' = WithPart(e, t, p),
         jobs' = [jobs EXCEPT ![e] =
                    [jobs[e] EXCEPT !.flushed = jobs[e].flushed \cup {<<t, p>>}]],
         UNCHANGED table
  PROVE  LoaderInv'
<1>1. /\ Grown(e)
      /\ \A f \in Events, u \in Tables, m \in Matches :
           written'[<<f, u, m>>] =
             IF f = e /\ u = t /\ m \in PartRows(e, t, p)
             THEN written[<<f, u, m>>] + 1 ELSE written[<<f, u, m>>]
  BY FlushGrows
<1>2. /\ e \in Jobs /\ jobs[e] \in Job /\ jobs'[e] \in Job
      /\ jobs'[e] = [jobs[e] EXCEPT !.flushed = jobs[e].flushed \cup {<<t, p>>}]
      /\ \A i \in Jobs \ {e} : jobs'[i] = jobs[i]
  BY DEF LoaderInv, TypeOK, Job, Jobs
<1>3. \A i \in Jobs : /\ jobs'[i].next = jobs[i].next /\ jobs'[i].pc = jobs[i].pc
                      /\ jobs'[i].failed = jobs[i].failed /\ jobs'[i].done = jobs[i].done
                      /\ jobs'[i].attempts = jobs[i].attempts
  BY <1>2 DEF Job
<1>4. TypeOK' /\ LoopsEnd' /\ NothingFlushedEarly'
  BY <1>1, <1>2, <1>3 DEF LoaderInv, TypeOK, LoopsEnd, NothingFlushedEarly, Grown, Keys
<1>5. FlushedIsThere'
  <2> SUFFICES ASSUME NEW f \in Events, NEW u \in Tables, NEW q \in Partitions,
                      <<u, q>> \in jobs'[f].flushed, NEW m \in PartRows(f, u, q)
               PROVE  written'[<<f, u, m>>] > 0
    BY <1>3, SameRows DEF FlushedIsThere, Jobs
  <2>1. m \in Matches
    <3>1. f \in Jobs /\ Archive[f] \in Seq(Matches)
      BY CricsheetAssumption DEF Jobs
    <3>2. jobs[f].next \in Nat /\ jobs[f].next <= Len(Archive[f]) + 1
      BY <3>1 DEF LoaderInv, LoopsEnd, TypeOK, Job
    <3> QED BY <3>1, <3>2 DEF PartRows, Buffered
  <2>2. /\ written[<<f, u, m>>] \in Nat /\ written'[<<f, u, m>>] \in Nat
        /\ written'[<<f, u, m>>] >= written[<<f, u, m>>]
    BY <1>1, <2>1 DEF LoaderInv, TypeOK, Grown, Keys
  <2>3. CASE <<u, q>> \in jobs[f].flushed
    BY <2>2, <2>3 DEF LoaderInv, FlushedIsThere
  <2>4. CASE f = e /\ u = t /\ q = p
    BY <1>1, <2>1, <2>2, <2>4
  <2> QED BY <1>2, <2>3, <2>4 DEF Jobs, Job
<1>6. OneCopyInFlight'
  <2> SUFFICES ASSUME NEW f \in Events, NEW u \in Tables, NEW m \in Matches
               PROVE  /\ jobs[f].pc = "parse" => written'[<<f, u, m>>] < jobs[f].attempts
                      /\ jobs[f].pc = "close" /\ <<u, PartitionOf[m]>> \notin jobs'[f].flushed
                           => written'[<<f, u, m>>] < jobs[f].attempts
    BY <1>3 DEF OneCopyInFlight, Jobs
  <2>1. CASE f # e
    BY <1>1, <1>2, <2>1 DEF LoaderInv, OneCopyInFlight, Jobs
  <2>2. CASE f = e
    BY <1>1, <1>2, <2>2 DEF LoaderInv, OneCopyInFlight, Job, PartRows
  <2> QED BY <2>1, <2>2
<1>7. OneCopyPerAttempt' /\ BallsHaveMatches'
  BY <1>1, <1>3 DEF OneCopyPerAttempt, Grown, Jobs
<1>8. DoneIsComplete'
  <2> SUFFICES ASSUME NEW k \in Jobs, jobs[k].done, NEW i \in DOMAIN Archive[k],
                      NEW u \in Tables, HasRows(u, Archive[k][i])
               PROVE  Found(k, u, Archive[k][i])'
    BY <1>3 DEF DoneIsComplete, HasRows
  <2>1. Archive[k][i] \in Matches /\ Found(k, u, Archive[k][i])
    BY CricsheetAssumption DEF LoaderInv, DoneIsComplete
  <2> QED BY <1>1, <1>2, <2>1, StaysFound
<1> QED BY <1>4, <1>5, <1>6, <1>7, <1>8 DEF LoaderInv

(* A commit adds rows of matches the load has read, and the deliveries among *)
(* them have their match: it was inserted first.                             *)
LEMMA CommitRows ==
  ASSUME LoaderInv, NEW l \in Loads, Commit(l)
  PROVE  \E rows \in SUBSET (Tables \X {Archive[l][i] : i \in DOMAIN Archive[l]}) :
           /\ table' = table \cup rows
           /\ RowsOf(Buffered(l)) \subseteq rows
           /\ \A r \in rows : HasRows(r[1], r[2]) /\ <<"matches", r[2]>> \in rows
<1> DEFINE read == {Archive[l][i] : i \in DOMAIN Archive[l]}
           half == Archive[l][jobs[l].next]
<1>1. /\ l \in Jobs /\ Archive[l] \in Seq(Matches) /\ jobs[l].next \in Nat \ {0}
      /\ jobs[l].next <= Len(Archive[l]) + 1
  BY CricsheetAssumption DEF LoaderInv, LoopsEnd, TypeOK, Job, Jobs
<1>2. Buffered(l) \subseteq read
  BY <1>1 DEF Buffered
<1>3. /\ RowsOf(Buffered(l)) \subseteq Tables \X read
      /\ \A r \in RowsOf(Buffered(l)) :
           HasRows(r[1], r[2]) /\ <<"matches", r[2]>> \in RowsOf(Buffered(l))
  BY <1>2 DEF RowsOf, HasRows, Tables
<1>4. CASE table' = table \cup RowsOf(Buffered(l))
  BY <1>3, <1>4
<1>5. CASE jobs[l].failed /\ table' = table \cup RowsOf(Buffered(l)) \cup HalfWritten(l)
  <2>1. half \in read
    <3>1. jobs[l].next <= Len(Archive[l])
      BY <1>1, <1>5 DEF LoaderInv, LoopsEnd, Commit
    <3> QED BY <1>1, <3>1
  <2>2. /\ HalfWritten(l) = {<<"matches", half>>} /\ HasRows("matches", half)
        /\ <<"matches", half>> \in Tables \X read
    BY <2>1 DEF HalfWritten, HasRows, Tables
  <2>3. table' = table \cup (RowsOf(Buffered(l)) \cup {<<"matches", half>>})
    BY <1>5, <2>2
  <2> DEFINE rows == RowsOf(Buffered(l)) \cup {<<"matches", half>>}
  <2>4. rows \subseteq Tables \X read /\ RowsOf(Buffered(l)) \subseteq rows
    BY <1>3, <2>2
  <2>5. ASSUME NEW r \in rows
        PROVE  HasRows(r[1], r[2]) /\ <<"matches", r[2]>> \in rows
    <3>1. CASE r \in RowsOf(Buffered(l))
      BY <1>3, <3>1
    <3>2. CASE r = <<"matches", half>>
      <4>1. r[1] = "matches" /\ r[2] = half
        BY <3>2
      <4> QED BY <2>2, <4>1
    <3> QED BY <3>1, <3>2
  <2> QED BY <2>3, <2>4, <2>5
<1> QED BY <1>4, <1>5 DEF Commit

LEMMA CommitGrows ==
  ASSUME LoaderInv, NEW l \in Loads, Commit(l)
  PROVE  Grown(l)
<1>1. PICK rows \in SUBSET (Tables \X {Archive[l][i] : i \in DOMAIN Archive[l]}) :
        /\ table' = table \cup rows
        /\ \A r \in rows : <<"matches", r[2]>> \in rows
  BY CommitRows
<1>2. rows \subseteq Tables \X Matches
  <2>1. Archive[l] \in Seq(Matches)
    BY CricsheetAssumption DEF Jobs
  <2> QED BY <2>1
<1>3. UNCHANGED written /\ table \subseteq Tables \X Matches
  BY DEF Commit, LoaderInv, TypeOK
<1>4. BallsHaveMatches'
  <2> SUFFICES ASSUME NEW m \in Matches, <<"deliveries", m>> \in table'
               PROVE  <<"matches", m>> \in table'
    BY <1>3 DEF LoaderInv, BallsHaveMatches, Found
  <2>1. CASE <<"deliveries", m>> \in table
    <3>1. l \in Jobs /\ l \notin Events
      BY CricsheetAssumption DEF Jobs
    <3> QED BY <1>1, <2>1, <3>1 DEF LoaderInv, BallsHaveMatches, Found
  <2>2. CASE <<"deliveries", m>> \in rows
    BY <1>1, <2>2
  <2> QED BY <1>1, <2>1, <2>2
<1>5. written \in [Keys -> Nat] /\ \A f \in Events : jobs[f].attempts \in Nat
  BY DEF LoaderInv, TypeOK, Job, Jobs, Keys
<1> QED BY <1>1, <1>2, <1>3, <1>4, <1>5 DEF LoaderInv, OneCopyPerAttempt, Grown, Keys

(* Every step of the loader keeps its invariant.                             *)
LEMMA LoaderStep == LoaderInv /\ [Next]_vars => LoaderInv'
<1> SUFFICES ASSUME LoaderInv, [Next]_vars PROVE LoaderInv'
  OBVIOUS
<1>1. ASSUME NEW j \in Jobs, Start(j) \/ Write(j) \/ EndOfLoop(j) PROVE LoaderInv'
  BY <1>1, LoaderMoves
<1>3. ASSUME NEW j \in Jobs, Kill(j) PROVE LoaderInv'
  BY <1>3, SameGrows, LoaderExit DEF Kill
<1>4. ASSUME NEW e \in Events, NEW t \in Tables, NEW p \in Partitions, Flush(e, t, p)
      PROVE  LoaderInv'
  <2>1. e \in Jobs /\ At(e, "close") /\ p \in Unflushed(e, t) /\ MayFlush(e, t) /\ table' = table
    BY <1>4 DEF Flush, Jobs
  <2>2. CASE /\ written' = WithPart(e, t, p)
             /\ jobs' = [jobs EXCEPT ![e] =
                           [jobs[e] EXCEPT !.flushed = jobs[e].flushed \cup {<<t, p>>}]]
    BY <2>1, <2>2, LoaderFlushes
  <2>3. CASE written' = WithPart(e, t, p) /\ Exit(e, FALSE)
    <3>1. Grown(e)
      BY <2>1, <2>3, FlushGrows
    <3> QED BY <2>1, <2>3, <3>1, LoaderExit
  <2>4. CASE written' = written /\ Exit(e, FALSE)
    BY <2>1, <2>4, SameGrows, LoaderExit
  <2> QED BY <1>4, <2>2, <2>3, <2>4 DEF Flush
<1>5. ASSUME NEW e \in Events, Closed(e) PROVE LoaderInv'
  <2>1. e \in Jobs /\ Exit(e, ~jobs[e].failed) /\ UNCHANGED <<written, table>> /\ At(e, "close")
        /\ jobs[e].failed \in BOOLEAN
    BY <1>5 DEF Closed, Jobs, LoaderInv, TypeOK, Job
  <2>2. ASSUME ~jobs[e].failed, NEW i \in DOMAIN Archive[e], NEW t \in Tables,
               HasRows(t, Archive[e][i])
        PROVE  Found(e, t, Archive[e][i])'
    <3> DEFINE m == Archive[e][i]
    <3>1. m \in Buffered(e) /\ m \in Matches
      BY <2>1, <2>2, AllBuffered
    <3>2. PartitionOf[m] \in Partitions /\ m \in PartRows(e, t, PartitionOf[m])
      BY <2>2, <3>1, CricsheetAssumption DEF PartRows, HasRows
    <3>3. <<t, PartitionOf[m]>> \in jobs[e].flushed
      BY <1>5, <3>2 DEF Closed, Unflushed
    <3> QED BY <2>1, <3>2, <3>3 DEF LoaderInv, FlushedIsThere, Found
  <2> QED BY <2>1, <2>2, SameGrows, LoaderExit
<1>6. ASSUME NEW l \in Loads, Commit(l) PROVE LoaderInv'
  <2>1. /\ l \in Jobs /\ l \notin Events /\ jobs[l].failed \in BOOLEAN
        /\ Exit(l, ~jobs[l].failed) /\ At(l, "close")
    BY <1>6, CricsheetAssumption DEF Commit, Jobs, LoaderInv, TypeOK, Job
  <2>2. ASSUME ~jobs[l].failed, NEW i \in DOMAIN Archive[l], NEW t \in Tables,
               HasRows(t, Archive[l][i])
        PROVE  Found(l, t, Archive[l][i])'
    <3>1. Archive[l][i] \in Buffered(l)
      BY <2>1, <2>2, AllBuffered
    <3>2. <<t, Archive[l][i]>> \in RowsOf(Buffered(l))
      BY <2>2, <3>1 DEF RowsOf
    <3> QED BY <1>6, <2>1, <3>2 DEF Found, Commit
  <2> QED BY <1>6, <2>1, <2>2, CommitGrows, LoaderExit
<1>7. CASE UNCHANGED vars
  BY <1>7 DEF vars, LoaderInv, TypeOK, LoopsEnd, FlushedIsThere, NothingFlushedEarly,
              OneCopyInFlight, OneCopyPerAttempt, BallsHaveMatches, DoneIsComplete,
              PartRows, Buffered, Found
<1> QED BY <1>1, <1>3, <1>4, <1>5, <1>6, <1>7 DEF Next

(* The loader's invariant holds in every state, whatever the ZIPs hold.      *)
THEOREM LoaderInvariant == Spec => []LoaderInv
BY LoaderStart, LoaderStep, PTL DEF Spec

(* An attempt that returned without an error left its ZIP's matches and      *)
(* deliveries complete behind, however many attempts failed before.          *)
THEOREM ReturnedIsComplete == Spec => []DoneIsComplete
<1>1. LoaderInv => DoneIsComplete
  BY DEF LoaderInv
<1> QED BY <1>1, LoaderInvariant, PTL

(* No delivery is ever in the curated bucket, or in the SQLite file, without *)
(* its match.                                                                *)
THEOREM NoOrphanedBalls == Spec => []BallsHaveMatches
<1>1. LoaderInv => BallsHaveMatches
  BY DEF LoaderInv
<1> QED BY <1>1, LoaderInvariant, PTL

(* A redelivered event adds one copy of a row at most.                       *)
THEOREM CopiesCounted == Spec => []OneCopyPerAttempt
<1>1. LoaderInv => OneCopyPerAttempt
  BY DEF LoaderInv
<1> QED BY <1>1, LoaderInvariant, PTL

-----------------------------------------------------------------------------
(* The loader implements StoreContract *)

(* No event's parts are where the loads go, or where another event's are.    *)
LEMMA PlacesApart ==
  /\ Loads \in Places
  /\ \A e \in Events : /\ PlaceOf[e] = {e} /\ {e} \in Places /\ {e} # Loads
                       /\ \A f \in Events : {e} = {f} => e = f
  /\ \A l \in Loads : PlaceOf[l] = Loads
BY CricsheetAssumption DEF Places, PlaceOf, Jobs

LEMMA ContentAt ==
  /\ Content[Loads] = table /\ Content'[Loads] = table'
  /\ \A e \in Events :
       /\ Content[{e}] = {r \in Tables \X Matches : written[<<e, r[1], r[2]>>] > 0}
       /\ Content'[{e}] = {r \in Tables \X Matches : written'[<<e, r[1], r[2]>>] > 0}
BY PlacesApart DEF Content

LEMMA SameContent ==
  ASSUME NEW e \in Events,
         \A r \in Tables \X Matches :
           written'[<<e, r[1], r[2]>>] > 0 <=> written[<<e, r[1], r[2]>>] > 0
  PROVE  Content'[{e}] = Content[{e}]
<1>1. \A r : r \in Content'[{e}] <=> r \in Content[{e}]
  BY ContentAt
<1> QED
  BY <1>1 DEF Content, Places

(* Two tables are the same if they are in every place.                       *)
LEMMA ContentAdds ==
  ASSUME NEW s \in Places, NEW rows, Content'[s] = Content[s] \cup rows,
         \A q \in Places \ {s} : Content'[q] = Content[q]
  PROVE  Content' = [Content EXCEPT ![s] = Content[s] \cup rows]
BY DEF Content

LEMMA ContentStays ==
  ASSUME UNCHANGED <<written, table>>
  PROVE  UNCHANGED Content
BY DEF Content

(* What j's archive holds, match by match.                                   *)
LEMMA HeldRows ==
  ASSUME NEW j \in Jobs
  PROVE  /\ Held[j] \subseteq Tables \X Matches
         /\ \A r \in Held[j] : \E i \in DOMAIN Archive[j] :
              r[2] = Archive[j][i] /\ r[1] \in Tables /\ HasRows(r[1], r[2])
         /\ \A i \in DOMAIN Archive[j], t \in Tables :
              HasRows(t, Archive[j][i]) => <<t, Archive[j][i]>> \in Held[j]
<1>1. \A i \in DOMAIN Archive[j] : Archive[j][i] \in Matches
  BY CricsheetAssumption
<1> QED
  BY <1>1 DEF Held, RowsOf

(* What an attempt has read is in its archive.                               *)
LEMMA BufferedIsHeld ==
  ASSUME LoaderInv, NEW j \in Jobs, NEW m \in Buffered(j)
  PROVE  m \in Matches /\ \A t \in Tables : HasRows(t, m) => <<t, m>> \in Held[j]
<1>1. Archive[j] \in Seq(Matches) /\ jobs[j].next \in Nat /\ jobs[j].next <= Len(Archive[j]) + 1
  BY CricsheetAssumption DEF LoaderInv, LoopsEnd, TypeOK, Job
<1>2. PICK i \in 1..(jobs[j].next - 1) : m = Archive[j][i]
  BY DEF Buffered
<1>3. i \in DOMAIN Archive[j]
  BY <1>1, <1>2
<1> QED
  BY <1>1, <1>2, <1>3, HeldRows

(* The end of an invocation is seen outside only if it returned.             *)
LEMMA ExitIsSeen ==
  ASSUME TypeOK, NEW j \in Jobs, NEW ok \in BOOLEAN, Exit(j, ok)
  PROVE  {k \in Jobs : jobs'[k].done} = {k \in Jobs : jobs[k].done} \cup IF ok THEN {j} ELSE {}
<1>1. \A k \in Jobs \ {j} : jobs'[k] = jobs[k]
  BY DEF Exit, TypeOK
<1>2. jobs'[j].done = (jobs[j].done \/ ok)
  BY DEF Exit, TypeOK, Job
<1> QED
  BY <1>1, <1>2

(* An object put into the bucket adds rows of the event's archive, and the   *)
(* deliveries among them find their matches.                                 *)
LEMMA FlushIsWrite ==
  ASSUME LoaderInv, BallsHaveMatches', NEW e \in Events, NEW t \in Tables, NEW p \in Partitions,
         written' = WithPart(e, t, p), UNCHANGED table
  PROVE  \E rows \in SUBSET (Held[e] \ Content[{e}]) :
           /\ Store!Joins(Content[{e}] \cup rows)
           /\ Content' = Store!Added(e, rows)
<1> DEFINE rows == ({t} \X PartRows(e, t, p)) \ Content[{e}]
<1>1. /\ TypeOK /\ e \in Jobs
      /\ \A f \in Events, u \in Tables, m \in Matches :
           written'[<<f, u, m>>] = IF f = e /\ u = t /\ m \in PartRows(e, t, p)
                                   THEN written[<<f, u, m>>] + 1 ELSE written[<<f, u, m>>]
      /\ \A f \in Events, u \in Tables, m \in Matches : written[<<f, u, m>>] \in Nat
  <2>1. TypeOK /\ e \in Jobs
    BY DEF LoaderInv, Jobs
  <2>2. \A f \in Events, u \in Tables, m \in Matches : <<f, u, m>> \in Keys
    BY DEF Keys
  <2> QED
    BY <2>1, <2>2, WithPartAdds DEF TypeOK, Keys
<1>2. \A m \in PartRows(e, t, p) : m \in Matches /\ <<t, m>> \in Held[e]
  <2>1. ASSUME NEW m \in PartRows(e, t, p)
        PROVE  m \in Buffered(e) /\ HasRows(t, m)
    BY DEF PartRows, HasRows
  <2> QED
    BY <1>1, <2>1, BufferedIsHeld
<1>3. rows \in SUBSET (Held[e] \ Content[{e}])
  BY <1>2
<1>4. Content'[{e}] = Content[{e}] \cup rows
  <2>1. ASSUME NEW r \in Tables \X Matches
        PROVE  r \in Content'[{e}] <=> r \in Content[{e}] \cup rows
    <3>1. r[1] \in Tables /\ r[2] \in Matches /\ r = <<r[1], r[2]>>
      OBVIOUS
    <3>2. r \in {t} \X PartRows(e, t, p) <=> r[1] = t /\ r[2] \in PartRows(e, t, p)
      BY <3>1
    <3>3. written'[<<e, r[1], r[2]>>] > 0 <=>
            written[<<e, r[1], r[2]>>] > 0 \/ r \in {t} \X PartRows(e, t, p)
      BY <1>1, <3>1, <3>2
    <3> QED
      BY <3>3, ContentAt
  <2>2. Content'[{e}] \subseteq Tables \X Matches /\ Content[{e}] \subseteq Tables \X Matches
    BY ContentAt
  <2>3. rows \subseteq Tables \X Matches
    BY <1>2
  <2> QED
    BY <2>1, <2>2, <2>3
<1>5. \A q \in Places \ {{e}} : Content'[q] = Content[q]
  <2>1. Content'[Loads] = Content[Loads]
    BY ContentAt
  <2>2. ASSUME NEW f \in Events, {f} # {e}
        PROVE  Content'[{f}] = Content[{f}]
    <3>1. \A r \in Tables \X Matches :
            written'[<<f, r[1], r[2]>>] > 0 <=> written[<<f, r[1], r[2]>>] > 0
      BY <1>1, <2>2
    <3> QED
      BY <3>1, SameContent
  <2> QED
    BY <2>1, <2>2 DEF Places
<1>6. Content' = Store!Added(e, rows)
  <2>1. Content' = [Content EXCEPT ![{e}] = Content[{e}] \cup rows]
    BY <1>4, <1>5, ContentAdds, PlacesApart
  <2> QED
    BY <2>1, PlacesApart DEF Store!Added
<1>7. Store!Joins(Content'[{e}])
  <2>1. ASSUME NEW r \in Content'[{e}]
        PROVE  <<"matches", r[2]>> \in Content'[{e}]
    <3>1. r \in Tables \X Matches /\ written'[<<e, r[1], r[2]>>] > 0
      BY ContentAt
    <3>2. r[2] \in Matches /\ r[1] \in {"matches", "deliveries"} /\ "matches" \in Tables
      BY <3>1 DEF Tables
    <3>3. written'[<<e, "matches", r[2]>>] > 0
      BY <1>1, <3>1, <3>2 DEF BallsHaveMatches, Found
    <3> QED
      BY <3>2, <3>3, ContentAt
  <2> QED
    BY <2>1 DEF Store!Joins
<1> QED
  BY <1>3, <1>4, <1>6, <1>7

(* A commit adds what the attempt has read, with its matches, and all of the *)
(* archive if it is the end of it.                                           *)
LEMMA CommitIsWrite ==
  ASSUME LoaderInv, NEW l \in Loads, Commit(l)
  PROVE  /\ \E rows \in SUBSET (Held[l] \ Content[Loads]) :
              /\ Store!Joins(Content[Loads] \cup rows)
              /\ Content' = Store!Added(l, rows)
         /\ ~jobs[l].failed => Content' = Store!Added(l, Held[l])
<1>1. l \in Jobs /\ UNCHANGED written
  BY DEF Jobs, Commit
<1>2. PICK all \in SUBSET (Tables \X {Archive[l][i] : i \in DOMAIN Archive[l]}) :
        /\ table' = table \cup all
        /\ RowsOf(Buffered(l)) \subseteq all
        /\ \A r \in all : HasRows(r[1], r[2]) /\ <<"matches", r[2]>> \in all
  BY CommitRows
<1> DEFINE rows == all \ Content[Loads]
<1>3. all \subseteq Held[l]
  <2>1. ASSUME NEW r \in all
        PROVE  r \in Held[l]
    <3>1. PICK i \in DOMAIN Archive[l] : r[2] = Archive[l][i]
      BY <1>2
    <3>2. r \in Tables \X {Archive[l][k] : k \in DOMAIN Archive[l]} /\ HasRows(r[1], r[2])
      BY <1>2
    <3>3. r[1] \in Tables /\ r = <<r[1], r[2]>>
      BY <3>2
    <3> QED
      BY <1>1, <3>1, <3>2, <3>3, HeldRows
  <2> QED
    BY <2>1
<1>4. Content'[Loads] = Content[Loads] \cup all
  BY <1>2, ContentAt
<1>5. \A q \in Places \ {Loads} : Content'[q] = Content[q]
  <2>1. \A e \in Events : Content'[{e}] = Content[{e}]
    BY <1>1, SameContent
  <2> QED
    BY <2>1 DEF Places
<1>6. Store!Joins(Content[Loads] \cup rows)
  <2>1. Content[Loads] \cup rows = table \cup all
    BY ContentAt
  <2>2. ASSUME NEW r \in table
        PROVE  <<"matches", r[2]>> \in table
    <3>1. r[1] \in {"matches", "deliveries"} /\ r[2] \in Matches /\ r = <<r[1], r[2]>>
      BY DEF LoaderInv, TypeOK, Tables
    <3>2. l \notin Events
      BY CricsheetAssumption
    <3> QED
      BY <1>1, <3>1, <3>2 DEF LoaderInv, BallsHaveMatches, Found
  <2> QED
    BY <1>2, <2>1, <2>2 DEF Store!Joins
<1>7. Content' = Store!Added(l, rows)
  BY <1>4, <1>5, ContentAdds, PlacesApart DEF Store!Added
<1>8. ASSUME ~jobs[l].failed
      PROVE  Content' = Store!Added(l, Held[l])
  <2>1. Held[l] \subseteq all
    <3>1. jobs[l].pc = "close"
      BY DEF Commit
    <3>2. ASSUME NEW r \in Held[l]
          PROVE  r \in RowsOf(Buffered(l))
      <4>1. PICK i \in DOMAIN Archive[l] :
              r[2] = Archive[l][i] /\ r[1] \in Tables /\ HasRows(r[1], r[2])
        BY <1>1, HeldRows
      <4>2. r = <<r[1], r[2]>> /\ r[2] \in Buffered(l)
        BY <1>1, <1>8, <3>1, <4>1, AllBuffered, HeldRows
      <4> QED
        BY <4>1, <4>2 DEF RowsOf
    <3> QED
      BY <1>2, <3>2
  <2>2. Content'[Loads] = Content[Loads] \cup Held[l]
    BY <1>3, <1>4, <2>1
  <2> QED
    BY <1>5, <2>2, ContentAdds, PlacesApart DEF Store!Added
<1> QED
  BY <1>3, <1>6, <1>7, <1>8

(* What has been loaded completely needs nothing more.                       *)
LEMMA CompleteIsClosed ==
  ASSUME LoaderInv, DoneIsComplete', NEW e \in Events, jobs'[e].done, UNCHANGED <<written, table>>
  PROVE  Content' = Store!Added(e, Held[e])
<1>1. e \in Jobs
  BY DEF Jobs
<1>2. Held[e] \subseteq Content'[{e}]
  <2>1. ASSUME NEW r \in Held[e]
        PROVE  r \in Content'[{e}]
    <3>1. PICK i \in DOMAIN Archive[e] :
            r[2] = Archive[e][i] /\ r[1] \in Tables /\ HasRows(r[1], r[2])
      BY <1>1, HeldRows
    <3>2. written'[<<e, r[1], r[2]>>] > 0
      BY <1>1, <3>1 DEF DoneIsComplete, Found
    <3>3. r \in Tables \X Matches
      BY <1>1, HeldRows
    <3> QED
      BY <3>2, <3>3, ContentAt
  <2> QED
    BY <2>1
<1>3. Content' = Content
  BY ContentStays
<1>4. Content'[{e}] = Content[{e}] \cup Held[e]
  BY <1>2, <1>3
<1>5. Content' = [Content EXCEPT ![{e}] = Content[{e}] \cup Held[e]]
  BY <1>3, <1>4, ContentAdds, PlacesApart
<1> QED
  BY <1>5, PlacesApart DEF Store!Added

LEMMA LoaderStepIsStoreStep ==
  LoaderInv /\ LoaderInv' /\ [Next]_vars => [Store!Next]_<<Content, {j \in Jobs : jobs[j].done}>>
<1> DEFINE done == {j \in Jobs : jobs[j].done}
<1> SUFFICES ASSUME LoaderInv, LoaderInv', [Next]_vars
             PROVE  Store!Next \/ UNCHANGED <<Content, done>>
  OBVIOUS
<1>1. TypeOK /\ \A j \in Jobs : jobs[j] \in Job
  BY DEF LoaderInv, TypeOK
<1>2. CASE UNCHANGED vars
  BY <1>2, ContentStays DEF vars
<1>3. ASSUME NEW j \in Jobs, Start(j) \/ Write(j) \/ EndOfLoop(j)
      PROVE  UNCHANGED <<Content, done>>
  <2>1. \A k \in Jobs \ {j} : jobs'[k] = jobs[k]
    BY <1>1, <1>3 DEF Start, Write, EndOfLoop, TypeOK
  <2>2. jobs'[j].done = jobs[j].done
    <3>1. CASE Start(j)
      <4>1. jobs'[j] = [jobs[j] EXCEPT !.pc = "parse", !.attempts = jobs[j].attempts + 1]
        BY <1>1, <3>1 DEF Start, TypeOK
      <4> QED
        BY <1>1, <4>1 DEF Job
    <3>2. CASE Write(j)
      <4>1. jobs'[j] = [jobs[j] EXCEPT !.next = jobs[j].next + 1]
        BY <1>1, <3>2 DEF Write, TypeOK
      <4> QED
        BY <1>1, <4>1 DEF Job
    <3>3. CASE EndOfLoop(j)
      <4>1. jobs'[j] = [jobs[j] EXCEPT !.pc = "close", !.failed = jobs[j].next <= Len(Archive[j])]
        BY <1>1, <3>3 DEF EndOfLoop, TypeOK
      <4> QED
        BY <1>1, <4>1 DEF Job
    <3> QED
      BY <1>3, <3>1, <3>2, <3>3
  <2>3. done' = done
    BY <2>1, <2>2
  <2> QED
    BY <1>3, <2>3, ContentStays DEF Start, Write, EndOfLoop
<1>4. ASSUME NEW j \in Jobs, Kill(j)
      PROVE  UNCHANGED <<Content, done>>
  BY <1>1, <1>4, ExitIsSeen, ContentStays DEF Kill
<1>5. ASSUME NEW e \in Events, NEW t \in Tables, NEW p \in Partitions, Flush(e, t, p)
      PROVE  Store!Next \/ UNCHANGED <<Content, done>>
  <2>1. e \in Jobs
    BY DEF Jobs
  <2>2. done' = done
    <3>1. CASE Exit(e, FALSE)
      BY <1>1, <2>1, <3>1, ExitIsSeen
    <3>2. CASE ~Exit(e, FALSE)
      <4>1. \A k \in Jobs \ {e} : jobs'[k] = jobs[k]
        BY <1>1, <1>5, <2>1, <3>2 DEF Flush, TypeOK
      <4>2. jobs'[e].done = jobs[e].done
        <5>1. jobs'[e] = [jobs[e] EXCEPT !.flushed = jobs[e].flushed \cup {<<t, p>>}]
          BY <1>1, <1>5, <2>1, <3>2 DEF Flush, TypeOK
        <5> QED
          BY <1>1, <2>1, <5>1 DEF Job
      <4> QED
        BY <4>1, <4>2
    <3> QED
      BY <3>1, <3>2
  <2>3. CASE written' = written
    BY <1>5, <2>2, <2>3, ContentStays DEF Flush
  <2>4. CASE written' = WithPart(e, t, p)
    <3>1. Store!Write(e)
      BY <1>5, <2>2, <2>4, FlushIsWrite, PlacesApart DEF Store!Write, Flush, LoaderInv
    <3> QED
      BY <2>1, <3>1 DEF Store!Next
  <2> QED
    BY <1>5, <2>3, <2>4 DEF Flush
<1>6. ASSUME NEW e \in Events, Closed(e)
      PROVE  Store!Next \/ UNCHANGED <<Content, done>>
  <2>1. e \in Jobs /\ jobs[e].failed \in BOOLEAN
    BY <1>1 DEF Jobs, Job
  <2>2. Exit(e, ~jobs[e].failed) /\ UNCHANGED <<written, table>>
    BY <1>6 DEF Closed
  <2>3. CASE jobs[e].failed
    BY <1>1, <2>1, <2>2, <2>3, ExitIsSeen, ContentStays
  <2>4. CASE ~jobs[e].failed
    <3>1. done' = done \cup {e}
      BY <1>1, <2>1, <2>2, <2>4, ExitIsSeen
    <3>2. jobs'[e].done
      BY <2>1, <3>1
    <3>3. Store!Close(e)
      BY <2>2, <3>1, <3>2, CompleteIsClosed DEF Store!Close, LoaderInv
    <3> QED
      BY <2>1, <3>3 DEF Store!Next
  <2> QED
    BY <2>3, <2>4
<1>7. ASSUME NEW l \in Loads, Commit(l)
      PROVE  Store!Next
  <2>1. l \in Jobs /\ jobs[l].failed \in BOOLEAN
    BY <1>1 DEF Jobs, Job
  <2>2. Exit(l, ~jobs[l].failed)
    BY <1>7 DEF Commit
  <2>3. CASE jobs[l].failed
    <3>1. done' = done
      BY <1>1, <2>1, <2>2, <2>3, ExitIsSeen
    <3>2. Store!Write(l)
      BY <1>7, <3>1, CommitIsWrite, PlacesApart DEF Store!Write
    <3> QED
      BY <2>1, <3>2 DEF Store!Next
  <2>4. CASE ~jobs[l].failed
    <3>1. done' = done \cup {l}
      BY <1>1, <2>1, <2>2, <2>4, ExitIsSeen
    <3>2. Store!Close(l)
      BY <1>7, <2>4, <3>1, CommitIsWrite DEF Store!Close
    <3> QED
      BY <2>1, <3>2 DEF Store!Next
  <2> QED
    BY <2>3, <2>4
<1> QED
  BY <1>2, <1>3, <1>4, <1>5, <1>6, <1>7 DEF Next

(* Both stores, under the handler and under load_sqlite, implement the       *)
(* contract of Store, for any archives, partitions and numbers of attempts.  *)
THEOREM ImplementsStore == Spec => StoreSpec
<1>1. Init => Store!Init
  <2>1. ASSUME Init, NEW s \in Places
        PROVE  Content[s] = {}
    <3>1. CASE s = Loads
      BY <2>1, <3>1 DEF Init, Content
    <3>2. ASSUME NEW e \in Events, s = {e}
          PROVE  Content[s] = {}
      <4>1. \A r \in Tables \X Matches : ~(written[<<e, r[1], r[2]>>] > 0)
        BY <2>1 DEF Init
      <4>2. {r \in Tables \X Matches : written[<<e, r[1], r[2]>>] > 0} = {}
        BY <4>1
      <4> QED
        BY <3>2, <4>2, ContentAt
    <3> QED
      BY <3>1, <3>2 DEF Places
  <2>2. Init => {j \in Jobs : jobs[j].done} = {}
    BY DEF Init
  <2> QED
    BY <2>1, <2>2 DEF Store!Init, Content
<1> QED
  BY <1>1, LoaderInvariant, LoaderStepIsStoreStep, PTL DEF Spec, StoreSpec, Store!Spec
=============================================================================
