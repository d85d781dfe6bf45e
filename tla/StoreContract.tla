---------------------------- MODULE StoreContract ----------------------------
(* What whoever loads match archives may rely on, whichever Store of         *)
(* cricdata/ingest/store.py the matches go to: rows are added and never      *)
(* taken away, only rows of the archive that is loaded, no deliveries before *)
(* their match, and a load that has returned has left all it was given.      *)
(* Buffers, partitions, transactions, attempts and what breaks them off are  *)
(* left out.                                                                 *)

CONSTANTS
  Jobs,               \* the archives to be loaded
  Stores,             \* the tables they go to
  StoreOf,            \* StoreOf[j]: where j's rows go
  Holds               \* Holds[j]: the rows of j's archive, pairs of a table and a match

VARIABLES
  content,            \* content[s]: the rows a query of s finds
  done                \* the archives whose loading has returned

Init ==
  /\ content = [s \in Stores |-> {}]
  /\ done = {}

Added(j, rows) == [content EXCEPT ![StoreOf[j]] = content[StoreOf[j]] \cup rows]

(* Every row finds the match it belongs to.                                  *)
Joins(rows) == \A r \in rows : <<"matches", r[2]>> \in rows

Write(j) ==
  /\ \E rows \in SUBSET (Holds[j] \ content[StoreOf[j]]) :
       /\ Joins(content[StoreOf[j]] \cup rows)
       /\ content' = Added(j, rows)
  /\ UNCHANGED done

(* close returns: what had not been written yet is there at the latest now.  *)
Close(j) ==
  /\ content' = Added(j, Holds[j])
  /\ done' = done \cup {j}

Next == \E j \in Jobs : Write(j) \/ Close(j)

Spec == Init /\ [][Next]_<<content, done>>
=============================================================================
