---- MODULE MCRecordReplaySession ----
(* Instances of RecordReplaySession for TLC. *)
EXTENDS RecordReplaySession, TLC

CONSTANTS c1, c2

MCClients == {c1, c2}

\* Clients are only compared with each other.
MCSymmetry == Permutations(MCClients)
====
