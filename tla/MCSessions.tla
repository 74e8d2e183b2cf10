----------------------------- MODULE MCSessions -----------------------------
(* Instances of Sessions for TLC. *)
EXTENDS Sessions, TLC

CONSTANTS b1, b2, a1, t1, t2, r1, r2, alice

(* Session ids are alike, and so are browsers and requests. *)
IdSymmetry ==
  Permutations(Browsers) \cup Permutations(SessionIds) \cup Permutations(Requests)
=============================================================================
