---------------------------- MODULE MCCricsheet ----------------------------
EXTENDS CricsheetInv, TLC

CONSTANTS e1, l1, l2, m1, m2, m3, p1, p2

(* Two partitions, one match abandoned; the loads share a part of what they  *)
(* load. Events have nothing in common: one stands for all of them.          *)
MCArchive == e1 :> <<m1, m3, m2>> @@ l1 :> <<m2, m1>> @@ l2 :> <<m1, m3>>

MCPartitionOf == [m \in {m1, m2, m3} |-> IF m = m1 THEN p1 ELSE p2]
=============================================================================
