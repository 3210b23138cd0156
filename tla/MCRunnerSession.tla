---- MODULE MCRunnerSession ----
(* Two clients that stop runs, and the shutdown of the agent. *)
EXTENDS RunnerSession

CONSTANTS c1, c2

MCClients == {c1, c2}
====
