---- MODULE MCExplorationSession ----
(* Clients that stop, two requests that alternate, and as many sessions in a *)
(* row as MaxGeneration allows, recordings and replays included.             *)
EXTENDS ExplorationSession

CONSTANTS c1, c2, r1, r2

MCOneClient == {c1}
MCClients == {c1, c2}
MCRequests == {r1, r2}
====
