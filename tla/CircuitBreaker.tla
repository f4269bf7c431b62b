--------------------------- MODULE CircuitBreaker ---------------------------
(***************************************************************************)
(* The passive circuit breaker a process keeps for one provider, as        *)
(* operators on its fields (class CircuitBreaker of transport.ts).  What a *)
(* breaker is told of a result is one of three things: the provider was    *)
(* reachable, it failed in a way that counts, or the request was aborted.  *)
(***************************************************************************)
EXTENDS Integers, Sequences, FiniteSets

CONSTANTS
  FailureThreshold,   \* policy.failureThreshold
  FailureWindow,      \* policy.failureWindowMs
  OpenFor             \* policy.openMs

ASSUME PolicyAssumption ==
  /\ FailureThreshold \in Nat \ {0}
  /\ FailureWindow \in Nat
  /\ OpenFor \in Nat

\* openedAt is 0 for undefined: the code tests !openedAt, and no clock reads 0.
Breaker == [state : {"closed", "open", "half_open"}, failures : Seq(Nat),
            openedAt : Nat, halfOpenProbe : BOOLEAN]

Closed == [state |-> "closed", failures |-> <<>>, openedAt |-> 0, halfOpenProbe |-> FALSE]

\* prune keeps the failures of the window.  They were pushed as the clock went, so
\* those that left the window are the first ones.
Pruned(b, now) ==
  LET stale == {i \in DOMAIN b.failures : b.failures[i] < now - FailureWindow}
  IN  SubSeq(b.failures, Cardinality(stale) + 1, Len(b.failures))

\* Whether a request is let through, and the breaker after it asked.
Cooling(b, now) == b.openedAt = 0 \/ now - b.openedAt < OpenFor

Admits(b, now) ==
  CASE b.state = "closed" -> TRUE
    [] b.state = "open" -> ~Cooling(b, now)
    [] b.state = "half_open" -> ~b.halfOpenProbe

Asked(b, now) ==
  LET probing == b.state # "closed" /\ (b.state = "open" => ~Cooling(b, now))
  IN  [state |-> IF probing THEN "half_open" ELSE b.state,
       failures |-> Pruned(b, now),
       openedAt |-> b.openedAt,
       halfOpenProbe |-> b.halfOpenProbe \/ probing]

Opened(failures, now) ==
  [state |-> "open", failures |-> failures, openedAt |-> now, halfOpenProbe |-> FALSE]

\* recordResult of a failure that counts.
Counted(b, now) ==
  LET failures == IF b.state = "half_open" THEN Pruned(b, now)
                  ELSE Append(Pruned(b, now), now)
  IN  IF b.state = "half_open" \/ Len(failures) >= FailureThreshold
      THEN Opened(failures, now)
      ELSE [state |-> b.state, failures |-> failures,
            openedAt |-> b.openedAt, halfOpenProbe |-> b.halfOpenProbe]

\* Fault: only a success closes the breaker; a 404 says nothing.
ToldOfSuccess(b, result, now) ==
  CASE result = "failed" -> Counted(b, now)
    [] result = "success" -> Closed
    [] OTHER -> b

\* recordReachable and recordResult: an aborted request says nothing.
Told(b, result, now) ==
  CASE result = "failed" -> Counted(b, now)
    [] result = "aborted" -> b
    [] OTHER -> Closed
=============================================================================
