------------------------------ MODULE MCLevel2 ------------------------------
(* The pipeline on small instances: which verdict sets a verification may  *)
(* return, and the symmetry of the jobs.                                   *)
EXTENDS Level2Pipeline, TLC

(* One set of each kind: a full and a mixed confirmation, a refutation. *)
SomeVerdicts ==
  {{"verified_profitable"},
   {"verified_profitable", "verified_unprofitable"},
   {"verified_unprofitable", "route_unavailable"}}

Profitable == {{"verified_profitable"}}

JobSymmetry == Permutations(Jobs)
=============================================================================
