----------------------------- MODULE MCEnrollJobs -----------------------------
(* EnrollJobs for TLC: identities are model values and interchangeable. *)
EXTENDS EnrollJobs, TLC

Symmetry ==
    Permutations(Requests) \cup Permutations(Jobs) \cup Permutations(Certs)
      \cup Permutations(Handlers) \cup Permutations(Workers)

===============================================================================
