------------------------------- MODULE MCService -------------------------------
(* Two requests that ask providers, one of them through both providers, and   *)
(* one for the dashboard's snapshot.                                           *)
EXTENDS Service, TLC

CONSTANTS search, redeem, panel
MCRequests == {search, redeem, panel}
MCSnapshots == {panel}
Attempt(provider, status, outcome, cache) ==
  [provider |-> provider, host |-> provider, status |-> status, outcome |-> outcome, cache |-> cache]
MCShape ==
  search :> [tracked |-> TRUE, route |-> "gateway", status |-> 200, duration |-> 5, hit |-> TRUE,
             attempts |-> {Attempt("one", 304, "", "fresh"), Attempt("two", 0, "aborted", "unknown")}]
  @@ redeem :> [tracked |-> TRUE, route |-> "authorization", status |-> 502, duration |-> 10, hit |-> FALSE,
                attempts |-> {}]
  @@ panel :> [tracked |-> FALSE, route |-> "snapshot", status |-> 200, duration |-> 1, hit |-> FALSE,
               attempts |-> {}]
\* Over PostgreSQL, whose reads are apart, the clock stands.
MCCases == {[backend |-> "sqlite", requests |-> MCRequests, until |-> 2],
            [backend |-> "postgres", requests |-> {search, panel}, until |-> 1]}
MCThresholds == <<5, 8>>
=============================================================================
