---- MODULE MCControlPlane ----
(* Instances of ControlPlane for TLC. *)
EXTENDS ControlPlane, TLC

CONSTANTS c1, c2, r1, r2

MCOneClient == {c1}
MCClients == {c1, c2}
MCRequests == {r1, r2}

\* Clients and requests are only compared with each other.
MCSymmetry == Permutations({c1, c2}) \cup Permutations({r1, r2})
====
