---- MODULE MCPerformanceSession ----
(* Two clients of the performance handlers. *)
EXTENDS PerformanceSession

CONSTANTS c1, c2

MCClients == {c1, c2}
====
