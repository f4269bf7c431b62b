------------------------- MODULE MCRedisCoordinator -------------------------
(* RedisCoordinator on small instances. *)
EXTENDS RedisCoordinator, TLC

Symmetry == Permutations(Calls)

\* Bounds: three failures are counted at a time, and at the last tick of the clock calls
\* ask and fetch, but no result comes any more.
Bound ==
  /\ Cardinality(counted) <= 3
  /\ clock = MaxTime =>
       \A c \in Calls : stage[c] \notin {"recording", "failing", "clearing", "releasing"}
=============================================================================
