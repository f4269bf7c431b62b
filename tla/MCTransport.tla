---------------------------- MODULE MCTransport ----------------------------
(* Transport on small instances. *)
EXTENDS Transport, TLC

\* What prune drops from failures in the order of the clock is what its filter drops.
ASSUME PrunedIsFiltered ==
  \A n \in 0..4, now \in 1..5 : \A times \in [1..n -> 1..5] :
    (\A i, j \in 1..n : i <= j => times[i] <= times[j]) =>
      Pruned([Closed EXCEPT !.failures = times], now)
        = SelectSeq(times, LAMBDA t : t >= now - FailureWindow)

Symmetry == Permutations(Callers) \cup Permutations(Keys)
=============================================================================
