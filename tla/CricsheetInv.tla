---------------------------- MODULE CricsheetInv ----------------------------
(* The inductive invariant of the loader, kept without its proof so that TLC *)
(* checks it too.                                                            *)
EXTENDS Cricsheet

(* An invocation that reached close has read all, or met an exception.       *)
LoopsEnd ==
  \A j \in Jobs :
    /\ jobs[j].pc = "close" => (jobs[j].failed <=> jobs[j].next <= Len(Archive[j]))
    /\ jobs[j].next <= Len(Archive[j]) + 1

(* What is marked as flushed is there.                                       *)
FlushedIsThere ==
  \A e \in Events, t \in Tables, p \in Partitions :
    <<t, p>> \in jobs[e].flushed => \A m \in PartRows(e, t, p) : written[<<e, t, m>>] > 0

(* Before close an attempt has written nothing, in close what it has flushed. *)
OneCopyInFlight ==
  \A e \in Events, t \in Tables, m \in Matches :
    /\ jobs[e].pc = "parse" => written[<<e, t, m>>] < jobs[e].attempts
    /\ jobs[e].pc = "close" /\ <<t, PartitionOf[m]>> \notin jobs[e].flushed =>
         written[<<e, t, m>>] < jobs[e].attempts

NothingFlushedEarly == \A j \in Jobs : jobs[j].pc # "close" => jobs[j].flushed = {}

LoaderInv ==
  /\ TypeOK
  /\ LoopsEnd
  /\ FlushedIsThere
  /\ NothingFlushedEarly
  /\ OneCopyInFlight
  /\ OneCopyPerAttempt
  /\ BallsHaveMatches
  /\ DoneIsComplete
=============================================================================
