--------------------------- MODULE MCCloudBinding ---------------------------
(* CloudBinding on small instances. *)
EXTENDS CloudBinding, TLC

Symmetry == Permutations(Users) \cup Permutations(Requests) \cup Permutations(Creds)
              \cup Permutations(Subjects) \cup Permutations(Redemptions)
=============================================================================
