-------------------------- MODULE ConsumerSupervisor -------------------------
(***************************************************************************)
(* RunConsumerSupervisor (internal/telemetrybus/consumer_supervisor.go)    *)
(* keeps a durable queue subscription alive for a worker process, and      *)
(* MsgHandlerTracker (subscription_tracker.go) lets it wait for the        *)
(* handlers of a subscription that it gives up.                            *)
(*                                                                         *)
(* nats.go calls the handler of a subscription from one goroutine, message *)
(* by message.  A message that goroutine has taken from its queue is still *)
(* handled when Unsubscribe comes in between; until the wrapper has        *)
(* counted it the tracker does not know.                                   *)
(***************************************************************************)
EXTENDS Naturals, FiniteSetsExt

CONSTANTS MaxSubs,  \* bound on subscriptions of the process with busy handlers
          NoSub

ASSUME SupervisorAssumption == MaxSubs \in Nat \ {0} /\ NoSub \notin 1..MaxSubs

Subs == 1..MaxSubs

VARIABLES
    consumer,   \* the durable exists on the server
    sup,        \* where the supervisor is: subscribe, watch, check, wait or returned
    sub,        \* the subscription that gets messages
    created,    \* it was this subscription that created the durable
    callback,   \* the goroutine of each subscription: free, taken or counted
    idle,       \* the tracker's channel has a token
    ctxDone     \* the process was asked to stop

supervisorVars == <<consumer, sup, sub, created, callback, idle, ctxDone>>

SupervisorInit ==
    /\ consumer = FALSE /\ created = FALSE /\ idle = FALSE /\ ctxDone = FALSE
    /\ sup = "subscribe" /\ sub = NoSub
    /\ callback = [s \in Subs |-> "free"]

\* The tracker's counter.
Active == {s \in Subs : callback[s] = "counted"}

------------------------------------------------------------------------------
(* The tracker.                                                            *)

\* A message is taken from the subscription's queue.
Take(s) ==
    /\ sub = s /\ consumer /\ callback[s] = "free"
    /\ callback' = [callback EXCEPT ![s] = "taken"]
    /\ UNCHANGED <<consumer, sup, sub, created, idle, ctxDone>>

\* The wrapped handler is entered.
Enter(s) ==
    /\ callback[s] = "taken"
    /\ callback' = [callback EXCEPT ![s] = "counted"]
    /\ UNCHANGED <<consumer, sup, sub, created, idle, ctxDone>>

\* The wrapped handler returns; the last one leaves a token, if there is room for it.
Leaves(s) ==
    /\ callback[s] = "counted"
    /\ callback' = [callback EXCEPT ![s] = "free"]
    /\ idle' = (idle \/ Active = {s})
    /\ UNCHANGED <<consumer, sup, sub, created, ctxDone>>

\* Mutant: a token is taken for the proof that nobody is active.
WaitTrusts ==
    \/ /\ sup = "check"
       /\ sup' = IF Active = {} THEN "subscribe" ELSE "wait"
       /\ UNCHANGED idle
    \/ sup = "wait" /\ idle /\ idle' = FALSE /\ sup' = "subscribe"

\* WaitForIdle: it looks at the counter, and again after each token, which may be an old
\* one.
WaitForIdle ==
    \/ /\ sup = "check"
       /\ sup' = IF Active = {} THEN "subscribe" ELSE "wait"
       /\ UNCHANGED idle
    \/ sup = "wait" /\ idle /\ idle' = FALSE /\ sup' = "check"

------------------------------------------------------------------------------
(* The supervisor.                                                         *)

\* The loop ends with the context; otherwise it subscribes, which creates the durable
\* when it is missing.
Subscribe ==
    /\ sup = "subscribe"
    /\ \/ ctxDone /\ sup' = "returned" /\ UNCHANGED <<consumer, sub, created>>
       \/ /\ ~ctxDone /\ sup' = "watch"
          /\ LET free == {s \in Subs : callback[s] = "free"}
             IN free # {} /\ sub' = Min(free)
          /\ created' = ~consumer /\ consumer' = TRUE
    /\ UNCHANGED <<callback, idle, ctxDone>>

\* Mutant: only the subscription is looked at.
UnhealthyLocal == sub = NoSub

\* A failed lookup of the consumer's state leaves the subscription as it is.
Unhealthy == sub = NoSub \/ ~consumer

\* superviseSubscription ends, and cleanupSubscription unsubscribes.  The client deletes
\* the durable with the subscription that created it.
GiveUp ==
    /\ sup = "watch" /\ (ctxDone \/ Unhealthy)
    /\ sup' = "check"
    /\ sub' = NoSub /\ created' = FALSE
    /\ consumer' = (consumer /\ ~created)
    /\ UNCHANGED <<callback, idle, ctxDone>>

Drain == WaitForIdle /\ UNCHANGED <<consumer, sub, created, callback, ctxDone>>

\* DrainTimeout passes; the handlers that are still busy stay so.
DrainTimesOut ==
    /\ sup = "wait" /\ sup' = "subscribe"
    /\ UNCHANGED <<consumer, sub, created, callback, idle, ctxDone>>

Supervise == Subscribe \/ GiveUp \/ Drain

------------------------------------------------------------------------------
(* What happens to it.                                                     *)

\* The durable is lost on the server, or the subscription in the client.
Break ==
    /\ sup # "returned"
    /\ \/ consumer /\ consumer' = FALSE /\ UNCHANGED <<sub, created>>
       \/ sub # NoSub /\ sub' = NoSub /\ created' = FALSE /\ UNCHANGED consumer
    /\ UNCHANGED <<sup, callback, idle, ctxDone>>

Cancel ==
    /\ ~ctxDone /\ ctxDone' = TRUE
    /\ UNCHANGED <<consumer, sup, sub, created, callback, idle>>

\* A process takes the place of this one.
Restart ==
    /\ sup' = "subscribe" /\ sub' = NoSub /\ created' = FALSE /\ idle' = FALSE
    /\ callback' = [s \in Subs |-> "free"] /\ ctxDone' = FALSE
    /\ UNCHANGED consumer
==============================================================================
