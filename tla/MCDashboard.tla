----------------------------- MODULE MCDashboard -----------------------------
(* Two replicas are set up at once; one limits the logins of two addresses;   *)
(* its gate is full; and one session is used, touched and logged out.         *)
EXTENDS Dashboard

CONSTANTS east, west, i, j, s1, s2, l1, l2, l3, l4, l5, view, again, logout, change
MCReplicas == {east, west}
MCIps == {i, j}
MCSetups == {s1, s2}
MCLogins == {l1, l2, l3, l4, l5}
MCViews == {view, again}
MCLogouts == {logout}
MCChanges == {change}

Case(requests, known, exists, replicas, ips, until, restarted) ==
  [requests |-> requests, known |-> known, admin |-> exists, replicas |-> replicas,
   ips |-> ips, until |-> until, restarts |-> restarted]
MCCases ==
  {Case({s1, s2, l1}, {s1, s2, l1}, FALSE, {east, west}, {i, j}, 0, 1),
   Case({l1, l2, l3, l4, l5}, {}, TRUE, {east}, {i}, 2, 0),
   Case({l1, l2, l3}, {l1, l2, l3}, TRUE, {east}, {i, j}, 0, 0),
   Case({l1, view, again, logout}, {l1}, TRUE, {east}, {i}, 3, 0),
   Case({l1, change, logout}, {l1, change}, TRUE, {east}, {i}, 2, 0)}
=============================================================================
