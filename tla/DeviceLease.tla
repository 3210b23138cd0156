---- MODULE DeviceLease ----
(***************************************************************************)
(* What the device's ownership promises, with no coordinator, lock, flag   *)
(* or goroutine in sight: sessions come one after the other, a session is  *)
(* host from its beginning to its end, and while there is a host it may    *)
(* have one guest at a time.  A session that is over never drives again.   *)
(***************************************************************************)
EXTENDS Integers

CONSTANT MaxGeneration

VARIABLE lease      \* what each session is to the device

Sessions == 1 .. MaxGeneration

Roles == {"new", "host", "guest", "over"}

In(role) == {s \in Sessions : lease[s] = role}

LeaseInit == lease = [s \in Sessions |-> "new"]

\* Sessions begin in the order of their generations.
Fresh(s) == In("new") = s .. MaxGeneration

Begin(s) ==
  /\ Fresh(s)
  /\ In("host") = {}
  /\ lease' = [lease EXCEPT ![s] = "host"]

BeginGuest(s) ==
  /\ Fresh(s)
  /\ In("host") # {}
  /\ In("guest") = {}
  /\ lease' = [lease EXCEPT ![s] = "guest"]

EndGuest(s) ==
  /\ lease[s] = "guest"
  /\ lease' = [lease EXCEPT ![s] = "over"]

\* The host takes its guest with it.
EndHost(s) ==
  /\ lease[s] = "host"
  /\ lease' = [t \in Sessions |->
                 IF lease[t] \in {"host", "guest"} THEN "over" ELSE lease[t]]

LeaseNext ==
  \E s \in Sessions : Begin(s) \/ BeginGuest(s) \/ EndGuest(s) \/ EndHost(s)

LeaseSpec == LeaseInit /\ [][LeaseNext]_lease
====
