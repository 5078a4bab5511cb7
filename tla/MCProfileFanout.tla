-------------------------- MODULE MCProfileFanout --------------------------
(* ProfileFanout on small instances: requests and users are model values   *)
(* that are only compared, so they are symmetric where no run checks a     *)
(* liveness property.                                                      *)
EXTENDS ProfileFanout, TLC

Symmetry == Permutations(Requests) \cup Permutations(Users)
=============================================================================
