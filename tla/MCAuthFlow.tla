---------------------------- MODULE MCAuthFlow ----------------------------
(* AuthFlow on small instances.  The sets are model values, and the module *)
(* only ever compares them, so they are symmetric.                         *)
EXTENDS AuthFlow, TLC

Symmetry ==
  Permutations(Browsers) \cup Permutations(Requests)
    \cup Permutations(Ids) \cup Permutations(Codes)
=============================================================================
