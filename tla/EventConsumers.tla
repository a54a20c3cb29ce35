--------------------------- MODULE EventConsumers ---------------------------
(***************************************************************************)
(* A durable JetStream consumer (pkg/nats) inside the processes that       *)
(* consume it: payment results (reservation service), spot updates and     *)
(* reservation events (analytics). The replicas of a service share one     *)
(* consumer. One of them, "here", is the process of ServiceProcess; of the *)
(* others only what they do to the messages is looked at. A message is     *)
(* delivered to one replica, into the buffer of its client, and a replica  *)
(* handles its messages one after the other. Acks are explicit, a delivery *)
(* that is not answered in time is repeated, MaxDeliver deliveries are all *)
(* a message gets.                                                         *)
(***************************************************************************)
EXTENDS ServiceProcess

CONSTANTS MaxMessages,  \* bound on the messages published
          MaxDeliver,   \* 5 in cmd/*/main.go
          Others        \* the other replicas: deployment.yaml asks for two in all

ASSUME DeliveryAssumption ==
    MaxMessages \in Nat /\ MaxDeliver \in Nat \ {0} /\ "here" \notin Others

VARIABLES consumer,     \* the consumer that is looked at, or "none"
          durable,      \* the stream and the consumer exist on the server
          payload,      \* what message m carries
          state,        \* the server's book on message m
          tries,        \* its deliveries
          buffer,       \* messages delivered to a replica and not handled
          handling,     \* what the callback of a replica is doing
          done,         \* how often the handler's statement took effect
          wrote         \* the message a replica's statement took effect for last

deliveryVars == <<consumer, durable, payload, state, tries, buffer, handling, done, wrote>>

vars == <<processVars, deliveryVars>>

Messages == 1..MaxMessages

Replicas == {"here"} \cup Others

\* Of analytics' two consumers the model follows either: both write one row. The
\* consumer of the search service has a module of its own.
Consumers == [s \in DOMAIN Startup |->
    CASE s = "reservation" -> "paymentConsumer"
      [] s = "analytics"   -> "eventConsumers"
      [] OTHER             -> "none"]

CallbackStates == [msg : {0} \cup Messages, at : {"idle", "began", "worked", "failed"}]

Idle == [msg |-> 0, at |-> "idle"]

\* An event is "good" or JSON that does not parse ("poison"). Among the payment
\* results "good" stands for both and "unknown" is a status nobody knows.
Payloads == {"good", IF consumer = "paymentConsumer" THEN "unknown" ELSE "poison"}

TypeOK ==
    /\ ProcessTypeOK
    /\ consumer = Consumers[svc]
    /\ durable \in BOOLEAN
    /\ payload \in [Messages -> Payloads]
    /\ state \in [Messages -> {"unsent", "missed", "ready", "out", "acked", "termed", "dropped"}]
    /\ tries \in [Messages -> 0..MaxDeliver]
    /\ buffer \in [Replicas -> Seq(Messages)]
    /\ handling \in [Replicas -> CallbackStates]
    /\ done \in [Messages -> Nat]
    /\ wrote \in [Replicas -> {0} \cup Messages]

Init ==
    /\ ProcessInit
    /\ consumer = Consumers[svc]
    /\ durable = FALSE
    /\ payload = [m \in Messages |-> "good"]
    /\ state = [m \in Messages |-> "unsent"]
    /\ tries = [m \in Messages |-> 0]
    /\ buffer = [c \in Replicas |-> <<>>] /\ handling = [c \in Replicas |-> Idle]
    /\ done = [m \in Messages |-> 0] /\ wrote = [c \in Replicas |-> 0]

------------------------------------------------------------------------------
(* The server                                                              *)

\* What replica c has open. The other replicas have everything while they are up.
Has(c, r) == c = "here" => r \in open

\* DeliverNewPolicy: what was published before the consumer was first created
\* is not delivered.
Publish(m, p) ==
    /\ consumer # "none" /\ state[m] = "unsent"
    /\ \A n \in 1..(m - 1) : state[n] # "unsent"
    /\ state' = [state EXCEPT ![m] = IF durable THEN "ready" ELSE "missed"]
    /\ payload' = [payload EXCEPT ![m] = p]
    /\ UNCHANGED <<processVars, consumer, durable, tries, buffer, handling, done, wrote>>

\* Mutant: every delivery is the first.
DeliverUncounted(c, m) ==
    /\ Has(c, consumer) /\ state[m] = "ready"
    /\ state' = [state EXCEPT ![m] = "out"]
    /\ tries' = [tries EXCEPT ![m] = 1]
    /\ buffer' = [buffer EXCEPT ![c] = Append(@, m)]
    /\ UNCHANGED <<processVars, consumer, durable, payload, handling, done, wrote>>

\* The consumer's next message goes to whichever replica asks. First deliveries are
\* in the order of publication, repeated ones at any time.
Deliver(c, m) ==
    /\ Has(c, consumer) /\ state[m] = "ready"
    /\ tries[m] = 0 => \A n \in 1..(m - 1) : state[n] = "ready" => tries[n] > 0
    /\ state' = [state EXCEPT ![m] = "out"]
    /\ tries' = [tries EXCEPT ![m] = @ + 1]
    /\ buffer' = [buffer EXCEPT ![c] = Append(@, m)]
    /\ UNCHANGED <<processVars, consumer, durable, payload, handling, done, wrote>>

\* Mutant: no MaxDeliver.
AgainForEver(m) == [state EXCEPT ![m] = "ready"]

\* The message is due again, unless it has had its deliveries.
Again(m) == [state EXCEPT ![m] = IF tries[m] < MaxDeliver THEN "ready" ELSE "dropped"]

AckWaitEnds(m) ==
    /\ state[m] = "out"
    /\ state' = Again(m)
    /\ UNCHANGED <<processVars, consumer, durable, payload, tries, buffer, handling, done, wrote>>

------------------------------------------------------------------------------
(* The handler's answer reaches the server if the connection is open and   *)
(* counts if the message is not settled; an error of Ack, Nak or Term is   *)
(* not looked at.                                                          *)

Unsettled(m) == state[m] \in {"ready", "out"}

Ack(c, m) == state' = IF Has(c, "nats") /\ Unsettled(m) THEN [state EXCEPT ![m] = "acked"] ELSE state

Term(c, m) == state' = IF Has(c, "nats") /\ Unsettled(m) THEN [state EXCEPT ![m] = "termed"] ELSE state

Nak(c, m) == state' = IF Has(c, "nats") /\ state[m] = "out" THEN Again(m) ELSE state

------------------------------------------------------------------------------
(* The client of a replica: one callback at a time                         *)

\* Mutant: callbacks in goroutines that overtake each other.
TakeAny(c) ==
    /\ handling[c] = Idle
    /\ \E i \in 1..Len(buffer[c]) :
          /\ handling' = [handling EXCEPT ![c] = [msg |-> buffer[c][i], at |-> "began"]]
          /\ buffer' = [buffer EXCEPT ![c] = SubSeq(@, 1, i - 1) \o SubSeq(@, i + 1, Len(@))]
    /\ UNCHANGED <<processVars, consumer, durable, payload, state, tries, done, wrote>>

Take(c) ==
    /\ handling[c] = Idle /\ buffer[c] # <<>>
    /\ handling' = [handling EXCEPT ![c] = [msg |-> Head(buffer[c]), at |-> "began"]]
    /\ buffer' = [buffer EXCEPT ![c] = Tail(@)]
    /\ UNCHANGED <<processVars, consumer, durable, payload, state, tries, done, wrote>>

Returns(c) ==
    /\ handling' = [handling EXCEPT ![c] = Idle]
    /\ UNCHANGED <<processVars, consumer, durable, payload, tries, buffer>>

At(c, place) == handling[c].at = place

\* Search and analytics terminate what they cannot parse.
HandlePoison(c) ==
    /\ At(c, "began") /\ payload[handling[c].msg] = "poison"
    /\ Term(c, handling[c].msg)
    /\ Returns(c) /\ UNCHANGED <<done, wrote>>

HandleUnknownStatus(c) ==
    /\ At(c, "began") /\ payload[handling[c].msg] = "unknown"
    /\ Ack(c, handling[c].msg)
    /\ Returns(c) /\ UNCHANGED <<done, wrote>>

\* The payment service writes no reservation id into its events, so Confirm and
\* Fail find no such reservation; JSON that does not parse is asked for again too.
HandlePaymentResult(c) ==
    /\ consumer = "paymentConsumer" /\ At(c, "began") /\ payload[handling[c].msg] = "good"
    /\ Nak(c, handling[c].msg)
    /\ Returns(c) /\ UNCHANGED <<done, wrote>>

\* Mutant: the repository repeats a statement whose answer it did not get.
TakesEffectTwice(c, m) ==
    done' = [done EXCEPT ![m] = @ + 2] /\ wrote' = [wrote EXCEPT ![c] = m]

TakesEffect(c, m) ==
    done' = [done EXCEPT ![m] = @ + 1] /\ wrote' = [wrote EXCEPT ![c] = m]

\* Mutant: the error of the usecase is not looked at.
WorkIgnored(c, ok) ==
    /\ consumer # "paymentConsumer" /\ At(c, "began") /\ payload[handling[c].msg] = "good"
    /\ ok => Has(c, "stores")
    /\ \/ Has(c, "stores") /\ TakesEffect(c, handling[c].msg)
       \/ ~ok /\ UNCHANGED <<done, wrote>>
    /\ handling' = [handling EXCEPT ![c].at = "worked"]
    /\ UNCHANGED <<processVars, consumer, durable, payload, state, tries, buffer>>

\* INSERT of the event, or upsert of the spot. The statement may fail, before or
\* after it took effect, and does when the database has been closed.
Work(c, ok) ==
    /\ consumer # "paymentConsumer" /\ At(c, "began") /\ payload[handling[c].msg] = "good"
    /\ ok => Has(c, "stores")
    /\ \/ Has(c, "stores") /\ TakesEffect(c, handling[c].msg)
       \/ ~ok /\ UNCHANGED <<done, wrote>>
    /\ handling' = [handling EXCEPT ![c].at = IF ok THEN "worked" ELSE "failed"]
    /\ UNCHANGED <<processVars, consumer, durable, payload, state, tries, buffer>>

Answer(c) ==
    /\ \/ At(c, "worked") /\ Ack(c, handling[c].msg)
       \/ At(c, "failed") /\ Nak(c, handling[c].msg)
    /\ Returns(c) /\ UNCHANGED <<done, wrote>>

------------------------------------------------------------------------------
\* A step of the process: Stop discards the client's buffer, but a callback
\* that has begun goes on until the process ends.
ClientFollows ==
    /\ durable' = (durable \/ consumer \in open')
    /\ buffer' = [buffer EXCEPT !["here"] = IF consumer \in open' THEN @ ELSE <<>>]
    /\ handling' = [handling EXCEPT !["here"] = IF phase' = "exited" THEN Idle ELSE @]
    /\ UNCHANGED <<consumer, payload, state, tries, done, wrote>>

ProcessStep == ProcessNext /\ ClientFollows

\* Another replica stops or dies, whatever it was doing, and starts again, or starts
\* for the first time: it has nothing in hand, and the consumer exists.
OtherRestarts(c) ==
    /\ consumer # "none"
    /\ durable' = TRUE
    /\ buffer' = [buffer EXCEPT ![c] = <<>>]
    /\ handling' = [handling EXCEPT ![c] = Idle]
    /\ UNCHANGED <<processVars, consumer, payload, state, tries, done, wrote>>

Callback(c) ==
    \/ Take(c) \/ HandlePoison(c) \/ HandleUnknownStatus(c) \/ HandlePaymentResult(c)
    \/ (\E ok \in BOOLEAN : Work(c, ok)) \/ Answer(c)

Next ==
    \/ ProcessStep
    \/ \E c \in Others : OtherRestarts(c)
    \/ \E m \in Messages :
          \/ \E p \in Payloads : Publish(m, p)
          \/ \E c \in Replicas : Deliver(c, m)
          \/ AckWaitEnds(m)
    \/ \E c \in Replicas : Callback(c)

\* Of the other replicas nothing is required: they may stay down or stand still.
Fairness ==
    /\ WF_vars(RunGoesOn /\ ClientFollows)
    /\ WF_vars(ServerGoesOn /\ ClientFollows)
    /\ WF_vars(WorkerGoesOn /\ ClientFollows)
    /\ WF_vars(\E m \in Messages : Deliver("here", m))
    /\ WF_vars(\E m \in Messages : AckWaitEnds(m))
    /\ WF_vars(Callback("here"))

Spec == Init /\ [][Next]_vars /\ Fairness

------------------------------------------------------------------------------
\* What the server regards as settled is settled: an acknowledged event has been
\* written to the database, or nobody can use it; only what does not parse is
\* terminated. Holds over crashes, lost acks, late acks and closed connections.
SettledMeansDone ==
    \A m \in Messages :
        /\ state[m] = "acked"  => done[m] > 0 \/ payload[m] = "unknown"
        /\ state[m] = "termed" => payload[m] = "poison"

\* Analytics inserts an event without a key of the message, so a message may be
\* counted more than once, but never more often than it was delivered.
CountedOncePerDelivery == \A m \in Messages : done[m] <= tries[m]

\* No replica takes the snapshot of a spot back behind its own write but by a repeated
\* delivery: what it gets for the first time it writes in the order of publication, over
\* any restarts. The row as a whole has no such order, and no column that would keep it:
\* a replica that is slow writes an older status, delivered once, over the newer one
\* another replica has written meanwhile.
ReplicaKeepsItsOrder ==
    [][\A c \in Replicas : wrote'[c] < wrote[c] => tries[wrote'[c]] > 1]_vars

\* Again and again no message waits: whatever was published is acknowledged,
\* terminated or given up; no poison, and no closed database, makes the consumer
\* go round for ever.
EventsSettle == []<>(\A m \in Messages : ~Unsettled(m))
=============================================================================
