------------------------------ MODULE MCCheckIn ------------------------------
(* CheckIn on small instances, and the symmetries its safety runs use. *)
EXTENDS CheckIn, TLC

\* students are interchangeable when they are alike on leave
StudentSymmetry ==
  {p \in Permutations(Students) : \A s \in OnLeave : p[s] \in OnLeave}

Symmetry == StudentSymmetry \cup Permutations(Tokens)
              \cup Permutations(Codes) \cup Permutations(Requests)
=============================================================================
