--------------------------- MODULE MCControlPlane ---------------------------
EXTENDS ControlPlaneInv, TLC

(* Nothing tells two workers, two EC2 ids, two sessions, two subjects, two   *)
(* user ids or two requests of a kind apart. Only for runs without a         *)
(* liveness property.                                                        *)
Symmetry ==
  UNION {Permutations(S) :
         S \in {Workers, Instances, Sessions, Subjects, Users, Creates, Deletes}}
=============================================================================
