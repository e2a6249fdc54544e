------------------------------ MODULE JetStream ------------------------------
(***************************************************************************)
(* A JetStream consumer with explicit acknowledgements, as the workers use *)
(* it (internal/telemetrybus/queue_subscribe.go): a message is delivered   *)
(* to one member of the queue group, and again after a nak or once AckWait *)
(* has passed without an answer.  The server itself is external.           *)
(***************************************************************************)
CONSTANT Messages

VARIABLE stream     \* the consumer's state of each message

StreamTypeOK == stream \in [Messages -> {"queued", "delivered", "acked"}]

StreamInit == stream = [m \in Messages |-> "queued"]

Deliver(m) ==
    /\ stream[m] = "queued"
    /\ stream' = [stream EXCEPT ![m] = "delivered"]

\* An ack settles a message even when it has been queued again meanwhile.
Ack(S) == stream' = [m \in Messages |-> IF m \in S THEN "acked" ELSE stream[m]]

\* A nak, or AckWait passing, has no effect on a message that was acknowledged.
Nak(S) ==
    stream' = [m \in Messages |->
                 IF m \in S /\ stream[m] = "delivered" THEN "queued" ELSE stream[m]]
==============================================================================
