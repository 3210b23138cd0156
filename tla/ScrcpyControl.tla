---- MODULE ScrcpyControl ----
(* The control channel of scrcpy: clients that take the channel from each      *)
(* other (beginControl, endControl), and the acknowledgements that a session's *)
(* reader hands to the requests that wait for them (waitClipboardAck,          *)
(* publishClipboardAck).  One session; the device answers late or not at all.  *)
EXTENDS Naturals, Sequences, SequencesExt

CONSTANTS
  Controllers,  \* clients of the control channel
  Tickets,      \* the sequence numbers that their requests carry
  AckQueueSize, \* clipboardAckQueueSize
  MaxControls,  \* bound: how often the channel is taken
  MaxAcks       \* bound: acknowledgements the device sends

ASSUME ScrcpyControlAssumption == AckQueueSize \in Nat

VARIABLES
  kClient,   \* the handler of each client: where it is, its token, its request
  kControl,  \* controlGeneration, controlActive and whose cancel is registered
  kPending,  \* ackOrder; ackPending is its range
  kWaiters,  \* ackWaiters: the clients that wait for a sequence number
  kSpace,    \* ackSpace has a token
  kReader,   \* readDeviceMessages
  kSocket,   \* acknowledgements on their way
  kAcks,     \* how many the device has sent
  kDone      \* the session is closed

controlVars ==
  <<kClient, kControl, kPending, kWaiters, kSpace, kReader, kSocket, kAcks, kDone>>
ackVars == <<kPending, kWaiters, kSpace, kReader, kSocket, kAcks, kDone>>

NoClient == [pc |-> "off", token |-> 0, cancelled |-> FALSE, sequence |-> 0, ack |-> FALSE]

ControlInit ==
  /\ kClient = [c \in Controllers |-> NoClient]
  /\ kControl = [generation |-> 0, active |-> FALSE, owner |-> {}]
  /\ kPending = <<>>
  /\ kWaiters = [q \in Tickets |-> <<>>]
  /\ kSpace = FALSE
  /\ kReader = [pc |-> "read", sequence |-> 0]
  /\ kSocket = <<>>
  /\ kAcks = 0
  /\ kDone = FALSE

\* beginControl cancels the client that has the channel.
BeginControl(c) ==
  /\ kClient[c].pc = "off"
  /\ kControl.generation < MaxControls
  /\ kControl' = [generation |-> kControl.generation + 1, active |-> TRUE, owner |-> {c}]
  /\ kClient' = [d \in Controllers |->
                   IF d = c THEN [NoClient EXCEPT !.pc = "ready", !.token = kControl.generation + 1]
                   ELSE [kClient[d] EXCEPT !.cancelled = @ \/ d \in kControl.owner]]
  /\ UNCHANGED ackVars

\* The client's context is over, or it disconnects.
EndControl(c) ==
  /\ kClient[c].pc = "ready"
  /\ kControl' = IF kControl.generation # kClient[c].token THEN kControl
                 ELSE [kControl EXCEPT !.owner = {}, !.active = FALSE]
  /\ kClient' = [kClient EXCEPT ![c] = NoClient]
  /\ UNCHANGED ackVars

\* serveControl writes the frame to the session; the device answers it or not.
WriteFrame(c, q) ==
  /\ kClient[c].pc = "ready"
  /\ ~kClient[c].cancelled
  /\ ~kDone
  /\ kClient' = [kClient EXCEPT ![c].pc = "check", ![c].sequence = q, ![c].ack = FALSE]
  /\ \/ UNCHANGED <<kSocket, kAcks>>
     \/ /\ kAcks < MaxAcks
        /\ kAcks' = kAcks + 1
        /\ kSocket' = Append(kSocket, q)
  /\ UNCHANGED <<kControl, kPending, kWaiters, kSpace, kReader, kDone>>

\* append(s[:i], s[i+1:]...) where e is found; neither list holds anything twice.
LeftOut(s, e) == RemoveAt(s, CHOOSE i \in 1 .. Len(s) : s[i] = e)

\* waitClipboardAck, under ackMu: an early acknowledgement is taken, else the
\* request waits.  Either way the reader is told, after the lock.
CheckAck(c) ==
  LET q == kClient[c].sequence IN
  /\ kClient[c].pc = "check"
  /\ IF Contains(kPending, q)
       THEN /\ kPending' = LeftOut(kPending, q)
            /\ kClient' = [kClient EXCEPT ![c].pc = "signalTaken"]
            /\ UNCHANGED kWaiters
       ELSE /\ kWaiters' = [kWaiters EXCEPT ![q] = Append(@, c)]
            /\ kClient' = [kClient EXCEPT ![c].pc = "signalWaiting"]
            /\ UNCHANGED kPending
  /\ UNCHANGED <<kControl, kSpace, kReader, kSocket, kAcks, kDone>>

SignalSpace(c) ==
  /\ kClient[c].pc \in {"signalTaken", "signalWaiting"}
  /\ kSpace' = TRUE
  /\ kClient' = [kClient EXCEPT ![c].pc = IF @ = "signalTaken" THEN "ready" ELSE "wait"]
  /\ UNCHANGED <<kControl, kPending, kWaiters, kReader, kSocket, kAcks, kDone>>

AckArrives(c) ==
  /\ kClient[c].pc \in {"wait", "drain"}
  /\ kClient[c].ack
  /\ kClient' = [kClient EXCEPT ![c].pc = "ready", ![c].ack = FALSE]
  /\ UNCHANGED <<kControl, ackVars>>

\* A timeout, a cancellation or the end of the session: removeAckWaiter.  When
\* the waiter is gone its acknowledgement has been sent and is read after all.
GiveUpAck(c) ==
  LET q == kClient[c].sequence
      mine == Contains(kWaiters[q], c)
  IN /\ kClient[c].pc = "wait"
     /\ kWaiters' = IF mine THEN [kWaiters EXCEPT ![q] = LeftOut(@, c)] ELSE kWaiters
     /\ \/ kClient' = [kClient EXCEPT ![c].pc = IF mine THEN "ready" ELSE "drain"]
        \/ kDone /\ kClient' = [kClient EXCEPT ![c].pc = "ready", ![c].ack = FALSE]
     /\ UNCHANGED <<kControl, kPending, kSpace, kReader, kSocket, kAcks, kDone>>

ReadAck ==
  /\ kReader.pc = "read"
  /\ ~kDone
  /\ kSocket # <<>>
  /\ kReader' = [pc |-> "publish", sequence |-> Head(kSocket)]
  /\ kSocket' = Tail(kSocket)
  /\ UNCHANGED <<kClient, kControl, kPending, kWaiters, kSpace, kAcks, kDone>>

\* publishClipboardAck, under ackMu: to the first that waits, else to the queue;
\* when the queue is full the reader waits for a signal.
PublishAck ==
  LET q == kReader.sequence
      next(pc) == kReader' = [kReader EXCEPT !.pc = pc]
  IN /\ kReader.pc = "publish"
     /\ CASE kDone -> next("over") /\ UNCHANGED <<kClient, kWaiters, kPending>>
          [] ~kDone /\ kWaiters[q] # <<>> ->
               /\ kWaiters' = [kWaiters EXCEPT ![q] = Tail(@)]
               /\ kClient' = [kClient EXCEPT ![Head(kWaiters[q])].ack = TRUE]
               /\ next("read")
               /\ UNCHANGED kPending
          [] ~kDone /\ kWaiters[q] = <<>> ->
               /\ kPending' = IF Contains(kPending, q) \/ Len(kPending) >= AckQueueSize
                                THEN kPending ELSE Append(kPending, q)
               /\ next(IF Contains(kPending', q) THEN "read" ELSE "blocked")
               /\ UNCHANGED <<kClient, kWaiters>>
     /\ UNCHANGED <<kControl, kSpace, kSocket, kAcks, kDone>>

WakeReader ==
  /\ kReader.pc = "blocked"
  /\ \/ kDone /\ kReader' = [kReader EXCEPT !.pc = "over"] /\ UNCHANGED kSpace
     \/ kSpace /\ kSpace' = FALSE /\ kReader' = [kReader EXCEPT !.pc = "publish"]
  /\ UNCHANGED <<kClient, kControl, kPending, kWaiters, kSocket, kAcks, kDone>>

\* session.close, by the stream or because the process ended.
CloseSession ==
  /\ ~kDone
  /\ kDone' = TRUE
  /\ UNCHANGED <<kClient, kControl, kPending, kWaiters, kSpace, kReader, kSocket, kAcks>>

ControlNext ==
  \/ \E c \in Controllers :
       \/ BeginControl(c) \/ EndControl(c)
       \/ \E q \in Tickets : WriteFrame(c, q)
       \/ CheckAck(c) \/ SignalSpace(c) \/ AckArrives(c) \/ GiveUpAck(c)
  \/ ReadAck \/ PublishAck \/ WakeReader \/ CloseSession

ControlSpec == ControlInit /\ [][ControlNext]_controlVars

------------------------------------------------------------------------------
\* The reader does not sleep while it could go on: when the queue has space
\* again, or a request waits for the very acknowledgement that it holds, its
\* wake-up is there or about to be sent.
NoLostAckWakeup ==
  kReader.pc = "blocked"
    /\ (Len(kPending) < AckQueueSize \/ kWaiters[kReader.sequence] # <<>>)
    => \/ kSpace
       \/ kDone
       \/ \E c \in Controllers : kClient[c].pc \in {"signalTaken", "signalWaiting"}

\* A request that waits is registered once or has its answer, never both and
\* never neither: the final receive after a timeout cannot block for ever.
WaiterHasItsAnswer ==
  \A c \in Controllers :
    LET registered == \E q \in Tickets : Contains(kWaiters[q], c) IN
    /\ kClient[c].pc \in {"signalWaiting", "wait"} => registered # kClient[c].ack
    /\ kClient[c].pc = "drain" => kClient[c].ack /\ ~registered
    /\ kClient[c].pc \in {"off", "ready", "check", "signalTaken"} => ~registered

\* Only the client that took the channel last is not cancelled, and the channel
\* is active exactly as long as it serves that client.
OneController ==
  LET serving == {c \in Controllers : kClient[c].pc # "off"}
      newest == {c \in serving : kClient[c].token = kControl.generation}
  IN /\ {c \in serving : ~kClient[c].cancelled} = newest
     /\ kControl.active <=> newest # {}
     /\ kControl.owner = newest

ScrcpyControlSafe == NoLostAckWakeup /\ WaiterHasItsAnswer /\ OneController
====
