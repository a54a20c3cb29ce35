------------------------- MODULE EventConsumers_proofs -------------------------
(***************************************************************************)
(* What EventConsumers promises for every service, every number of messages*)
(* and deliveries, every number of replicas, and every number of stops of  *)
(* the process.                                                            *)
(***************************************************************************)
EXTENDS EventConsumers, FiniteSetTheorems, TLAPS

------------------------------------------------------------------------------
(* The process                                                             *)

LEMMA StartupIsFinite == \A s \in DOMAIN Startup : Len(Startup[s]) \in Nat
BY DEF Startup, ReservationStartup, SearchStartup, AnalyticsStartup, PaymentStartup,
       BillingStartup, PresenceStartup, GatewayStartup

LEMMA ProcessTypeKept ==
    ASSUME ProcessTypeOK, ProcessNext
    PROVE  ProcessTypeOK' /\ svc' = svc
<1> USE MaxStopsAssumption DEF ProcessTypeOK
<1>1. Len(Startup[svc]) \in Nat
    BY StartupIsFinite
<1>2. ASSUME Exits, stops' \in 0..MaxStops PROVE ProcessTypeOK' /\ svc' = svc
  <2>1. 0 \in 0..Len(Startup[svc]) /\ \A S : {} \subseteq S
      BY <1>1
  <2>2. opened' \in 0..Len(Startup'[svc']) /\ svc' = svc
      BY <1>2, <2>1 DEF Exits, Startup
  <2>3. open' \subseteq {Startup'[svc'][i] : i \in 1..opened'}
      BY <1>2, <2>1, Zenon DEF Exits
  <2> QED BY <1>2, <2>2, <2>3 DEF Exits
<1>3. ASSUME Stop PROVE stops' \in 0..MaxStops
    BY <1>3 DEF Stop
<1>4. ASSUME NEW r, Open(r) \/ GoOnWithout(r) PROVE ProcessTypeOK' /\ svc' = svc
    BY <1>1, <1>4 DEF Open, GoOnWithout, IsNext
<1>5. CASE Launch \/ StopBegins \/ Restart
    BY <1>5 DEF Launch, StopBegins, Restart
<1>6. ASSUME NEW r, RunHook(r) PROVE ProcessTypeOK' /\ svc' = svc
    BY <1>6 DEF RunHook
<1>7. CASE Return \/ Deadline
    BY <1>2, <1>7 DEF Return, Deadline
<1>8. CASE ServerGoesOn
    BY <1>8 DEF ServerGoesOn, Listen, DrainEnds
<1>9. CASE WorkerGoesOn \/ WorkerTakes
    BY <1>9 DEF WorkerGoesOn, WorkerStarts, WorkerEnds, WorkerAbandoned, WorkerTakes
<1>10. ASSUME NEW r, CannotOpen(r) PROVE ProcessTypeOK' /\ svc' = svc
    BY <1>2, <1>3, <1>10 DEF CannotOpen
<1>11. CASE ServerFails
    BY <1>3, <1>11 DEF ServerFails
<1>12. CASE Signal
    BY <1>2, <1>3, <1>12 DEF Signal
<1>13. CASE Crash
    BY <1>2, <1>3, <1>13 DEF Crash
<1> QED BY <1>4, <1>5, <1>6, <1>7, <1>8, <1>9, <1>10, <1>11, <1>12, <1>13
        DEF ProcessNext, RunGoesOn

------------------------------------------------------------------------------
(* Types, and what the server's book says about the deliveries             *)

StateTypeOK ==
    /\ state \in [Messages -> {"unsent", "missed", "ready", "out", "acked", "termed", "dropped"}]
    /\ tries \in [Messages -> 0..MaxDeliver]
    /\ done \in [Messages -> Nat]
    /\ handling \in [Replicas -> CallbackStates]
    /\ \A c \in Replicas : handling[c].at # "idle" => handling[c].msg \in Messages
    /\ \A m \in Messages : /\ state[m] = "ready" => tries[m] < MaxDeliver
                           /\ state[m] = "unsent" => tries[m] = 0

WorkedMeansDone == \A c \in Replicas : At(c, "worked") => done[handling[c].msg] > 0

Inv == TypeOK /\ StateTypeOK /\ WorkedMeansDone /\ SettledMeansDone

LEMMA InitInv == Init => Inv
<1> SUFFICES ASSUME Init PROVE Inv OBVIOUS
<1>1. ProcessTypeOK
  <2>1. Len(Startup[svc]) \in Nat
      BY StartupIsFinite DEF Init, ProcessInit
  <2>2. opened \in 0..Len(Startup[svc]) /\ \A S : {} \subseteq S
      BY <2>1 DEF Init, ProcessInit
  <2>3. open = {}
      BY DEF Init, ProcessInit
  <2>4. open \subseteq {Startup[svc][i] : i \in 1..opened}
      BY <2>3, Zenon
  <2>5. stops \in 0..MaxStops
      BY MaxStopsAssumption DEF Init, ProcessInit
  <2> QED BY <2>2, <2>4, <2>5, Zenon DEF Init, ProcessInit, ProcessTypeOK
<1>2. Messages \subseteq Nat /\ 0 \in 0..MaxDeliver
    BY DeliveryAssumption DEF Messages
<1>3. TypeOK
  <2>1. buffer \in [Replicas -> Seq(Messages)] /\ wrote \in [Replicas -> {0} \cup Messages]
      BY DEF Init
  <2>2. handling \in [Replicas -> CallbackStates]
      BY DEF Init, Idle, CallbackStates
  <2> QED BY <1>1, <1>2, <2>1, <2>2 DEF Init, TypeOK, Payloads
<1>4. StateTypeOK
    BY <1>2 DEF Init, StateTypeOK, Idle, CallbackStates
<1>5. WorkedMeansDone /\ SettledMeansDone
    BY DEF Init, SettledMeansDone, WorkedMeansDone, At, Idle
<1> QED BY <1>3, <1>4, <1>5 DEF Inv

\* The answer to a message that is not settled, or no answer.
LEMMA AnswersKeepState ==
    ASSUME Inv, NEW c, NEW m \in Messages, Ack(c, m) \/ Term(c, m) \/ Nak(c, m)
    PROVE  /\ state' \in [Messages -> {"unsent", "missed", "ready", "out", "acked", "termed", "dropped"}]
           /\ \A n \in Messages : state'[n] = state[n] \/ n = m
           /\ state'[m] = "ready" => state[m] = "ready" \/ tries[m] < MaxDeliver
           /\ state'[m] = "unsent" => state[m] = "unsent"
           /\ state'[m] = "acked" => state[m] = "acked" \/ Ack(c, m)
           /\ state'[m] = "termed" => state[m] = "termed" \/ Term(c, m)
BY DEF Inv, TypeOK, Ack, Term, Nak, Again, Unsettled

\* A step of a client alone: the process and the server's book stay as they are.
LEMMA OnlyClientMoves ==
    ASSUME Inv,
           UNCHANGED <<processVars, consumer, durable, payload, state, tries>>,
           buffer' \in [Replicas -> Seq(Messages)],
           handling' \in [Replicas -> CallbackStates],
           \A c \in Replicas : handling'[c].at # "idle" => handling'[c].msg \in Messages,
           done' \in [Messages -> Nat], wrote' \in [Replicas -> {0} \cup Messages],
           \A m \in Messages : done[m] > 0 => done'[m] > 0
    PROVE  TypeOK' /\ StateTypeOK' /\ SettledMeansDone'
<1>1. UNCHANGED <<svc, phase, opened, open, stops, consumer, durable, payload, state, tries>>
    BY DEF processVars
<1>2. ProcessTypeOK'
    BY DEF Inv, TypeOK, ProcessTypeOK, processVars
<1>3. TypeOK'
    BY <1>1, <1>2 DEF Inv, TypeOK, Payloads, Consumers
<1>4. StateTypeOK'
    BY <1>1 DEF Inv, StateTypeOK
<1>5. SettledMeansDone'
    BY <1>1 DEF Inv, SettledMeansDone
<1> QED BY <1>3, <1>4, <1>5

\* A replica that lets go of what it was doing.
LEMMA IdleKeepsInv ==
    ASSUME Inv, NEW c \in Replicas, UNCHANGED done,
           handling' = handling \/ handling' = [handling EXCEPT ![c] = Idle]
    PROVE  /\ handling' \in [Replicas -> CallbackStates]
           /\ \A d \in Replicas : handling'[d] = handling[d] \/ handling'[d] = Idle
           /\ \A d \in Replicas : handling'[d].at # "idle" => handling'[d].msg \in Messages
           /\ WorkedMeansDone'
<1>1. handling \in [Replicas -> CallbackStates] /\ Idle \in CallbackStates
    BY DEF Inv, TypeOK, Idle, CallbackStates
<1>2. \A d \in Replicas : handling'[d] = handling[d] \/ handling'[d] = Idle
    BY <1>1
<1>3. handling' \in [Replicas -> CallbackStates]
    BY <1>1
<1>4. \A d \in Replicas : handling'[d].at # "idle" => handling'[d].msg \in Messages
    BY <1>2 DEF Inv, StateTypeOK, Idle
<1>5. WorkedMeansDone'
    BY <1>2 DEF Inv, WorkedMeansDone, At, Idle
<1> QED BY <1>2, <1>3, <1>4, <1>5

LEMMA TakeKeepsInv ==
    ASSUME Inv, NEW c \in Replicas, Take(c)
    PROVE  Inv'
<1>1. /\ handling[c] = Idle /\ buffer[c] # <<>>
      /\ handling' = [handling EXCEPT ![c] = [msg |-> Head(buffer[c]), at |-> "began"]]
      /\ buffer' = [buffer EXCEPT ![c] = Tail(buffer[c])]
      /\ UNCHANGED <<processVars, consumer, durable, payload, state, tries, done, wrote>>
    BY DEF Take
<1>2. /\ buffer \in [Replicas -> Seq(Messages)] /\ handling \in [Replicas -> CallbackStates]
      /\ done \in [Messages -> Nat] /\ wrote \in [Replicas -> {0} \cup Messages]
    BY DEF Inv, TypeOK
<1>3. buffer[c] \in Seq(Messages) /\ Tail(buffer[c]) \in Seq(Messages) /\ Head(buffer[c]) \in Messages
    BY <1>1, <1>2
<1>4. buffer' \in [Replicas -> Seq(Messages)]
    BY <1>1, <1>2, <1>3
<1>5. handling' \in [Replicas -> CallbackStates]
    BY <1>1, <1>2, <1>3 DEF CallbackStates
<1>6. \A d \in Replicas : \/ d # c /\ handling'[d] = handling[d]
                          \/ d = c /\ handling'[d].at = "began" /\ handling'[d].msg \in Messages
    BY <1>1, <1>2, <1>3
<1>7. \A d \in Replicas : handling'[d].at # "idle" => handling'[d].msg \in Messages
    BY <1>6 DEF Inv, StateTypeOK
<1>8. TypeOK' /\ StateTypeOK' /\ SettledMeansDone'
    BY <1>1, <1>2, <1>4, <1>5, <1>7, OnlyClientMoves
<1>9. WorkedMeansDone'
    BY <1>1, <1>6 DEF Inv, WorkedMeansDone, At
<1> QED BY <1>8, <1>9 DEF Inv

\* The four callbacks that end with an answer to the server.
Answers(c) == HandlePoison(c) \/ HandleUnknownStatus(c) \/ HandlePaymentResult(c) \/ Answer(c)

LEMMA AnswersAre ==
    ASSUME Inv, NEW c \in Replicas, Answers(c)
    PROVE  /\ handling[c].at # "idle" /\ handling[c].msg \in Messages
           /\ Ack(c, handling[c].msg) \/ Term(c, handling[c].msg) \/ Nak(c, handling[c].msg)
           /\ handling' = [handling EXCEPT ![c] = Idle]
           /\ UNCHANGED <<processVars, consumer, durable, payload, tries, buffer, done, wrote>>
BY DEF Answers, HandlePoison, HandleUnknownStatus, HandlePaymentResult, Answer, Returns, At, Inv, StateTypeOK

LEMMA AnswersKeepInv ==
    ASSUME Inv, NEW c \in Replicas, Answers(c)
    PROVE  Inv'
<1> DEFINE m == handling[c].msg
<1>1. m \in Messages /\ (Ack(c, m) \/ Term(c, m) \/ Nak(c, m))
    BY AnswersAre
<1>2. UNCHANGED <<processVars, consumer, durable, payload, tries, buffer, done, wrote>>
    BY AnswersAre
<1>3. ASSUME state'[m] = "acked"
      PROVE  done[m] > 0 \/ payload[m] = "unknown"
    BY <1>1, <1>3 DEF Answers, HandlePoison, HandleUnknownStatus, HandlePaymentResult, Answer, Ack, Term,
       Nak, Again, Unsettled, At, Inv, TypeOK, SettledMeansDone, WorkedMeansDone
<1>4. ASSUME state'[m] = "termed"
      PROVE  payload[m] = "poison"
    BY <1>1, <1>4 DEF Answers, HandlePoison, HandleUnknownStatus, HandlePaymentResult, Answer, Ack, Term,
       Nak, Again, Unsettled, At, Inv, TypeOK, SettledMeansDone
<1>5. /\ handling' \in [Replicas -> CallbackStates]
      /\ \A d \in Replicas : handling'[d].at # "idle" => handling'[d].msg \in Messages
      /\ WorkedMeansDone'
  <2>1. handling' = [handling EXCEPT ![c] = Idle] /\ UNCHANGED done
      BY AnswersAre
  <2> QED BY <2>1, IdleKeepsInv
<1>6. StateTypeOK'
  <2>1. /\ state' \in [Messages -> {"unsent", "missed", "ready", "out", "acked", "termed", "dropped"}]
        /\ \A n \in Messages : state'[n] = state[n] \/ n = m
        /\ state'[m] = "ready" => state[m] = "ready" \/ tries[m] < MaxDeliver
        /\ state'[m] = "unsent" => state[m] = "unsent"
      BY <1>1, AnswersKeepState
  <2> HIDE DEF m
  <2> QED BY <1>1, <1>2, <1>5, <2>1 DEF Inv, StateTypeOK
<1>7. SettledMeansDone'
  <2>1. \A n \in Messages : state'[n] = state[n] \/ n = m
      BY <1>1, AnswersKeepState
  <2> HIDE DEF m
  <2> QED BY <1>1, <1>2, <1>3, <1>4, <2>1 DEF Inv, SettledMeansDone
<1>8. TypeOK'
    BY <1>2, <1>5, <1>6 DEF Inv, TypeOK, ProcessTypeOK, processVars, StateTypeOK, Payloads, Consumers
<1> QED BY <1>5, <1>6, <1>7, <1>8 DEF Inv

\* What a handler's statement does, with or without an error.
LEMMA WorkIs ==
    ASSUME Inv, NEW c \in Replicas, NEW ok \in BOOLEAN, Work(c, ok)
    PROVE  /\ handling[c].at = "began" /\ handling[c].msg \in Messages
           /\ handling' \in [Replicas -> CallbackStates]
           /\ \A d \in Replicas \ {c} : handling'[d] = handling[d]
           /\ handling'[c].msg = handling[c].msg /\ handling'[c].at \in {"worked", "failed"}
           /\ handling'[c].at = "worked" => ok
           /\ UNCHANGED <<processVars, consumer, durable, payload, state, tries, buffer>>
           /\ \/ /\ done' = [done EXCEPT ![handling[c].msg] = done[handling[c].msg] + 1]
                 /\ wrote' = [wrote EXCEPT ![c] = handling[c].msg]
              \/ ~ok /\ UNCHANGED <<done, wrote>>
<1>1. handling \in [Replicas -> CallbackStates] /\ handling[c] \in CallbackStates
    BY DEF Inv, StateTypeOK
<1>2. handling[c].at = "began" /\ handling[c].msg \in Messages
    BY DEF Work, At, Inv, StateTypeOK
<1>3. handling' = [handling EXCEPT ![c] = [handling[c] EXCEPT !.at = IF ok THEN "worked" ELSE "failed"]]
    BY DEF Work
<1>4. /\ [handling[c] EXCEPT !.at = IF ok THEN "worked" ELSE "failed"] \in CallbackStates
      /\ handling'[c] = [handling[c] EXCEPT !.at = IF ok THEN "worked" ELSE "failed"]
    BY <1>1, <1>3 DEF CallbackStates
<1>5. /\ handling' \in [Replicas -> CallbackStates]
      /\ \A d \in Replicas \ {c} : handling'[d] = handling[d]
    BY <1>1, <1>3, <1>4
<1>6. /\ handling'[c].msg = handling[c].msg /\ handling'[c].at \in {"worked", "failed"}
      /\ handling'[c].at = "worked" => ok
    BY <1>1, <1>4 DEF CallbackStates
<1>7. UNCHANGED <<processVars, consumer, durable, payload, state, tries, buffer>>
    BY DEF Work
<1>8. \/ /\ done' = [done EXCEPT ![handling[c].msg] = done[handling[c].msg] + 1]
         /\ wrote' = [wrote EXCEPT ![c] = handling[c].msg]
      \/ ~ok /\ UNCHANGED <<done, wrote>>
    BY Zenon DEF Work, TakesEffect
<1> QED BY <1>2, <1>5, <1>6, <1>7, <1>8

LEMMA WorkKeepsInv ==
    ASSUME Inv, NEW c \in Replicas, NEW ok \in BOOLEAN, Work(c, ok)
    PROVE  Inv'
<1> DEFINE m == handling[c].msg
<1>1. m \in Messages
    BY WorkIs
<1>2. \/ done' = [done EXCEPT ![m] = done[m] + 1] /\ wrote' = [wrote EXCEPT ![c] = m]
      \/ ~ok /\ UNCHANGED <<done, wrote>>
    BY WorkIs
<1>3. /\ done \in [Messages -> Nat] /\ wrote \in [Replicas -> {0} \cup Messages]
      /\ buffer \in [Replicas -> Seq(Messages)]
    BY DEF Inv, TypeOK
<1>4. /\ UNCHANGED <<processVars, consumer, durable, payload, state, tries, buffer>>
      /\ handling' \in [Replicas -> CallbackStates]
      /\ \A d \in Replicas \ {c} : handling'[d] = handling[d]
      /\ handling'[c].msg = m /\ (handling'[c].at = "worked" => ok)
    BY WorkIs
<1> HIDE DEF m
<1>5. /\ done' \in [Messages -> Nat] /\ \A n \in Messages : done[n] > 0 => done'[n] > 0
      /\ wrote' \in [Replicas -> {0} \cup Messages]
      /\ ok => done'[m] > 0
  <2>1. CASE done' = [done EXCEPT ![m] = done[m] + 1] /\ wrote' = [wrote EXCEPT ![c] = m]
    <3>1. /\ done' \in [Messages -> Nat] /\ done'[m] > 0
          /\ \A n \in Messages : done[n] > 0 => done'[n] > 0
        BY <1>1, <1>3, <2>1
    <3>2. wrote' \in [Replicas -> {0} \cup Messages]
        BY <1>1, <1>3, <2>1
    <3> QED BY <3>1, <3>2
  <2>2. CASE ~ok /\ UNCHANGED <<done, wrote>>
      BY <1>3, <2>2
  <2> QED BY <1>2, <2>1, <2>2
<1>6. \A d \in Replicas : handling'[d].at # "idle" => handling'[d].msg \in Messages
    BY <1>1, <1>4 DEF Inv, StateTypeOK
<1>7. buffer' \in [Replicas -> Seq(Messages)]
    BY <1>3, <1>4
<1>8. TypeOK' /\ StateTypeOK' /\ SettledMeansDone'
    BY <1>4, <1>5, <1>6, <1>7, OnlyClientMoves
<1>9. WorkedMeansDone'
  <2>1. ASSUME NEW d \in Replicas \ {c}, handling'[d].at = "worked" PROVE done'[handling'[d].msg] > 0
    <3>1. handling[d].at = "worked" /\ handling[d].msg \in Messages /\ handling'[d].msg = handling[d].msg
        BY <1>4, <2>1 DEF Inv, StateTypeOK
    <3> QED BY <1>5, <3>1 DEF Inv, WorkedMeansDone, At
  <2> QED BY <1>4, <1>5, <2>1 DEF WorkedMeansDone, At
<1> QED BY <1>8, <1>9 DEF Inv

LEMMA ProcessKeepsInv ==
    ASSUME Inv, ProcessStep
    PROVE  Inv'
<1>0. "here" \in Replicas
    BY DEF Replicas
<1>1. ProcessTypeOK' /\ svc' = svc
    BY ProcessTypeKept DEF Inv, TypeOK, ProcessStep
<1>2. consumer' = Consumers'[svc']
    BY <1>1 DEF Inv, TypeOK, ProcessStep, ClientFollows, Consumers
<1>3. /\ durable' \in BOOLEAN /\ UNCHANGED <<consumer, payload, state, tries, done, wrote>>
      /\ handling' = handling \/ handling' = [handling EXCEPT !["here"] = Idle]
      /\ buffer' = buffer \/ buffer' = [buffer EXCEPT !["here"] = <<>>]
    BY DEF Inv, TypeOK, ProcessStep, ClientFollows
<1>4. buffer' \in [Replicas -> Seq(Messages)]
  <2>1. <<>> \in Seq(Messages)
      OBVIOUS
  <2> QED BY <1>3, <2>1 DEF Inv, TypeOK
<1>5. /\ handling' \in [Replicas -> CallbackStates]
      /\ \A d \in Replicas : handling'[d].at # "idle" => handling'[d].msg \in Messages
      /\ WorkedMeansDone'
    BY <1>0, <1>3, IdleKeepsInv
<1>6. TypeOK'
    BY <1>1, <1>2, <1>3, <1>4, <1>5 DEF Inv, TypeOK, Payloads
<1>7. StateTypeOK' /\ SettledMeansDone'
    BY <1>3, <1>5 DEF Inv, StateTypeOK, SettledMeansDone
<1> QED BY <1>5, <1>6, <1>7 DEF Inv

LEMMA RestartKeepsInv ==
    ASSUME Inv, NEW c \in Others, OtherRestarts(c)
    PROVE  Inv'
<1>0. c \in Replicas
    BY DEF Replicas
<1>1. /\ durable' = TRUE /\ UNCHANGED <<processVars, consumer, payload, state, tries, done, wrote>>
      /\ handling' = [handling EXCEPT ![c] = Idle] /\ buffer' = [buffer EXCEPT ![c] = <<>>]
    BY DEF OtherRestarts
<1>2. buffer' \in [Replicas -> Seq(Messages)]
  <2>1. <<>> \in Seq(Messages)
      OBVIOUS
  <2> QED BY <1>1, <2>1 DEF Inv, TypeOK
<1>3. /\ handling' \in [Replicas -> CallbackStates]
      /\ \A d \in Replicas : handling'[d].at # "idle" => handling'[d].msg \in Messages
      /\ WorkedMeansDone'
    BY <1>0, <1>1, IdleKeepsInv
<1>4. TypeOK'
    BY <1>1, <1>2, <1>3 DEF Inv, TypeOK, ProcessTypeOK, processVars, Payloads, Consumers
<1>5. StateTypeOK' /\ SettledMeansDone'
    BY <1>1, <1>3 DEF Inv, StateTypeOK, SettledMeansDone
<1> QED BY <1>3, <1>4, <1>5 DEF Inv

LEMMA NextInv ==
    ASSUME Inv, [Next]_vars
    PROVE  Inv'
<1> USE DeliveryAssumption
<1>1. CASE UNCHANGED vars
    BY <1>1 DEF vars, processVars, deliveryVars, Inv, TypeOK, ProcessTypeOK, StateTypeOK,
       SettledMeansDone, WorkedMeansDone, At, Payloads, Consumers
<1>2. ASSUME NEW m \in Messages, NEW p \in Payloads, Publish(m, p)
      PROVE  Inv'
    BY <1>2 DEF Publish, Inv, TypeOK, ProcessTypeOK, processVars, StateTypeOK, SettledMeansDone,
       WorkedMeansDone, At, Payloads, Consumers
<1>3. ASSUME NEW c \in Replicas, NEW m \in Messages, Deliver(c, m)
      PROVE  Inv'
  <2>1. buffer' \in [Replicas -> Seq(Messages)]
    <3>1. buffer' = [buffer EXCEPT ![c] = Append(buffer[c], m)] /\ buffer \in [Replicas -> Seq(Messages)]
        BY <1>3 DEF Deliver, Inv, TypeOK
    <3>2. Append(buffer[c], m) \in Seq(Messages)
        BY <3>1
    <3> QED BY <3>1, <3>2
  <2> QED BY <1>3, <2>1 DEF Deliver, Inv, TypeOK, ProcessTypeOK, processVars, StateTypeOK,
          SettledMeansDone, WorkedMeansDone, At, Payloads, Consumers
<1>4. ASSUME NEW m \in Messages, AckWaitEnds(m)
      PROVE  Inv'
    BY <1>4 DEF AckWaitEnds, Again, Inv, TypeOK, ProcessTypeOK, processVars, StateTypeOK,
       SettledMeansDone, WorkedMeansDone, At, Payloads, Consumers
<1>5. ASSUME NEW c \in Replicas, Callback(c)
      PROVE  Inv'
    BY <1>5, TakeKeepsInv, AnswersKeepInv, WorkKeepsInv DEF Callback, Answers
<1> QED BY <1>1, <1>2, <1>3, <1>4, <1>5, ProcessKeepsInv, RestartKeepsInv DEF Next

LEMMA InvHolds == Spec => []Inv
BY InitInv, NextInv, PTL DEF Spec

\* An acknowledged event is in the database, or carried a status nobody knows; only
\* what does not parse is terminated: for every service, over any number of crashes,
\* shutdowns with the stores closed first, lost acks and repeated deliveries.
THEOREM AcknowledgedMeansDone == Spec => []SettledMeansDone
<1>1. Inv => SettledMeansDone
    BY DEF Inv
<1> QED BY <1>1, InvHolds, PTL

\* Process, server and client keep their types; no message is delivered more often
\* than MaxDeliver says.
THEOREM ConsumerTypeOK == Spec => []TypeOK
<1>1. Inv => TypeOK
    BY DEF Inv
<1> QED BY <1>1, InvHolds, PTL

------------------------------------------------------------------------------
(* Deliveries and effects. A delivery is in the buffer of a replica, or its*)
(* callback has begun, or it has had the effect it may have.               *)

\* Where m is in hand: <<c, i>> is the place i of the buffer of replica c, <<c, 0>>
\* its callback.
Held(m) ==
    {h \in Replicas \X Nat :
        \/ h[2] \in 1..Len(buffer[h[1]]) /\ buffer[h[1]][h[2]] = m
        \/ h[2] = 0 /\ handling[h[1]].at = "began" /\ handling[h[1]].msg = m}

CountedOnce(m) == IsFiniteSet(Held(m)) /\ done[m] + Cardinality(Held(m)) <= tries[m]

CountInv == \A m \in Messages : CountedOnce(m)

LEMMA CountsAreNumbers ==
    ASSUME Inv, NEW m \in Messages
    PROVE  done[m] \in Nat /\ tries[m] \in Nat
BY DeliveryAssumption DEF Inv, StateTypeOK

\* Nothing new in hand, and no effect.
LEMMA LessInHand ==
    ASSUME Inv, NEW m \in Messages, CountedOnce(m), Held(m)' \subseteq Held(m), UNCHANGED <<done, tries>>
    PROVE  CountedOnce(m)'
<1>1. /\ IsFiniteSet(Held(m)') /\ Cardinality(Held(m)') <= Cardinality(Held(m))
      /\ Cardinality(Held(m)) \in Nat /\ Cardinality(Held(m)') \in Nat
    BY FS_Subset, FS_CardinalityType DEF CountedOnce
<1> QED BY <1>1, CountsAreNumbers DEF CountedOnce

LEMMA DeliverCounts ==
    ASSUME Inv, CountInv, NEW c \in Replicas, NEW n \in Messages, Deliver(c, n), NEW m \in Messages
    PROVE  CountedOnce(m)'
<1> DEFINE h == <<c, Len(buffer[c]) + 1>>
<1>1. /\ buffer \in [Replicas -> Seq(Messages)] /\ buffer[c] \in Seq(Messages)
      /\ tries \in [Messages -> 0..MaxDeliver]
    BY DEF Inv, TypeOK
<1>2. /\ buffer' = [buffer EXCEPT ![c] = Append(buffer[c], n)]
      /\ tries' = [tries EXCEPT ![n] = tries[n] + 1] /\ UNCHANGED <<done, handling>>
    BY DEF Deliver
<1>3. /\ Len(buffer[c]) \in Nat /\ Len(buffer'[c]) = Len(buffer[c]) + 1 /\ buffer'[c][Len(buffer[c]) + 1] = n
      /\ \A i \in 1..Len(buffer[c]) : buffer'[c][i] = buffer[c][i]
      /\ \A d \in Replicas \ {c} : buffer'[d] = buffer[d]
    BY <1>1, <1>2
<1>4. Held(m)' = IF m = n THEN Held(m) \cup {h} ELSE Held(m)
  <2>1. ASSUME NEW d \in Replicas, NEW i \in Nat
        PROVE  <<d, i>> \in Held(m)' <=> <<d, i>> \in Held(m) \/ (m = n /\ <<d, i>> = h)
    <3>1. CASE d = c
      <4>1. i \in 1..Len(buffer'[c]) <=> i \in 1..Len(buffer[c]) \/ i = Len(buffer[c]) + 1
          BY <1>3
      <4> QED BY <1>2, <1>3, <3>1, <4>1 DEF Held
    <3>2. CASE d # c
        BY <1>2, <1>3, <3>2 DEF Held
    <3> QED BY <3>1, <3>2
  <2>2. h \in Replicas \X Nat /\ Held(m)' \subseteq Replicas \X Nat /\ Held(m) \subseteq Replicas \X Nat
      BY <1>3 DEF Held
  <2> HIDE DEF h
  <2> QED BY <2>1, <2>2
<1>5. h \notin Held(m)
    BY <1>3 DEF Held
<1>6. IsFiniteSet(Held(m)) /\ Cardinality(Held(m)) \in Nat /\ done[m] + Cardinality(Held(m)) <= tries[m]
    BY FS_CardinalityType DEF CountInv, CountedOnce
<1>7. IsFiniteSet(Held(m)') /\ Cardinality(Held(m)') = Cardinality(Held(m)) + (IF m = n THEN 1 ELSE 0)
  <2> HIDE DEF h
  <2> QED BY <1>4, <1>5, <1>6, FS_AddElement
<1>8. tries'[m] = tries[m] + (IF m = n THEN 1 ELSE 0)
    BY <1>1, <1>2, CountsAreNumbers
<1> QED BY <1>2, <1>6, <1>7, <1>8, CountsAreNumbers DEF CountedOnce

LEMMA TakeCounts ==
    ASSUME Inv, CountInv, NEW c \in Replicas, Take(c), NEW m \in Messages
    PROVE  CountedOnce(m)'
<1> DEFINE f == [h \in Held(m)' |-> <<h[1], IF h[1] = c THEN h[2] + 1 ELSE h[2]>>]
<1>1. /\ buffer \in [Replicas -> Seq(Messages)] /\ handling \in [Replicas -> CallbackStates]
      /\ buffer[c] \in Seq(Messages)
    BY DEF Inv, TypeOK
<1>2. /\ handling[c].at = "idle" /\ buffer[c] # <<>> /\ UNCHANGED <<done, tries>>
      /\ handling' = [handling EXCEPT ![c] = [msg |-> Head(buffer[c]), at |-> "began"]]
      /\ buffer' = [buffer EXCEPT ![c] = Tail(buffer[c])]
    BY DEF Take, Idle
<1>3. /\ Len(buffer[c]) \in Nat \ {0} /\ Len(buffer'[c]) = Len(buffer[c]) - 1 /\ Head(buffer[c]) = buffer[c][1]
      /\ \A i \in 1..Len(buffer'[c]) : buffer'[c][i] = buffer[c][i + 1]
      /\ handling'[c].msg = Head(buffer[c]) /\ handling'[c].at = "began"
      /\ \A d \in Replicas \ {c} : buffer'[d] = buffer[d] /\ handling'[d] = handling[d]
    BY <1>1, <1>2
<1>4. \A h \in Held(m)' : h \in Replicas \X Nat /\ f[h] \in Held(m)
  <2>1. ASSUME NEW d \in Replicas, NEW i \in Nat, <<d, i>> \in Held(m)'
        PROVE  <<d, IF d = c THEN i + 1 ELSE i>> \in Held(m)
    <3>1. CASE d = c
      <4>1. i + 1 \in 1..Len(buffer[c]) /\ buffer[c][i + 1] = m
          BY <1>3, <2>1, <3>1 DEF Held
      <4> QED BY <3>1, <4>1 DEF Held
    <3>2. CASE d # c
        BY <1>3, <2>1, <3>2 DEF Held
    <3> QED BY <3>1, <3>2
  <2>2. Held(m)' \subseteq Replicas \X Nat
      BY DEF Held
  <2> QED BY <2>1, <2>2
<1>5. f \in Injection(Held(m)', Held(m))
  <2>1. f \in [Held(m)' -> Held(m)]
      BY <1>4
  <2>2. \A g, h \in Held(m)' : f[g] = f[h] => g = h
      BY <1>4
  <2> QED BY <2>1, <2>2 DEF Injection, IsInjective
<1>6. IsFiniteSet(Held(m)) /\ Cardinality(Held(m)) \in Nat /\ done[m] + Cardinality(Held(m)) <= tries[m]
    BY FS_CardinalityType DEF CountInv, CountedOnce
<1> HIDE DEF f
<1>7. /\ IsFiniteSet(Held(m)') /\ Cardinality(Held(m)') <= Cardinality(Held(m))
    BY <1>5, <1>6, FS_Injection
<1>8. Cardinality(Held(m)') \in Nat
    BY <1>7, FS_CardinalityType
<1> QED BY <1>2, <1>6, <1>7, <1>8, CountsAreNumbers DEF CountedOnce

LEMMA WorkCounts ==
    ASSUME Inv, CountInv, NEW c \in Replicas, NEW ok \in BOOLEAN, Work(c, ok), NEW m \in Messages
    PROVE  CountedOnce(m)'
<1> DEFINE n == handling[c].msg
           h == <<c, 0>>
<1>1. /\ handling[c].at = "began" /\ n \in Messages /\ UNCHANGED <<tries, buffer>>
      /\ \A d \in Replicas \ {c} : handling'[d] = handling[d]
      /\ handling'[c].at # "began"
    BY WorkIs
<1>2. done' = [done EXCEPT ![n] = done[n] + 1] \/ UNCHANGED done
    BY WorkIs
<1>3. Held(m)' = Held(m) \ {h}
  <2>1. ASSUME NEW d \in Replicas, NEW i \in Nat
        PROVE  <<d, i>> \in Held(m)' <=> <<d, i>> \in Held(m) /\ <<d, i>> # h
    <3>1. CASE d = c
      <4>1. i # 0 => (<<d, i>> \in Held(m)' <=> <<d, i>> \in Held(m))
          BY <1>1 DEF Held
      <4>2. <<c, 0>> \notin Held(m)'
          BY <1>1 DEF Held
      <4> QED BY <3>1, <4>1, <4>2
    <3>2. CASE d # c
        BY <1>1, <3>2 DEF Held
    <3> QED BY <3>1, <3>2
  <2>2. h \in Replicas \X Nat /\ Held(m)' \subseteq Replicas \X Nat /\ Held(m) \subseteq Replicas \X Nat
      BY DEF Held
  <2> HIDE DEF h
  <2> QED BY <2>1, <2>2
<1>4. h \in Held(m) <=> m = n
    BY <1>1 DEF Held
<1>5. IsFiniteSet(Held(m)) /\ Cardinality(Held(m)) \in Nat /\ done[m] + Cardinality(Held(m)) <= tries[m]
    BY FS_CardinalityType DEF CountInv, CountedOnce
<1> HIDE DEF h, n
<1>6. IsFiniteSet(Held(m)') /\ Cardinality(Held(m)') = Cardinality(Held(m)) - (IF m = n THEN 1 ELSE 0)
    BY <1>3, <1>4, <1>5, FS_RemoveElement
<1>7. done'[m] \in Nat /\ done'[m] <= done[m] + (IF m = n THEN 1 ELSE 0)
  <2>1. done \in [Messages -> Nat]
      BY DEF Inv, StateTypeOK
  <2> QED BY <1>1, <1>2, <2>1
<1>8. tries'[m] = tries[m] /\ tries[m] \in Nat /\ done[m] \in Nat
    BY <1>1, CountsAreNumbers
<1> QED BY <1>5, <1>6, <1>7, <1>8 DEF CountedOnce

\* A replica that lets go of what it had in hand, all of it or what its callback did.
LEMMA LettingGoCounts ==
    ASSUME Inv, CountInv, NEW c \in Replicas, UNCHANGED <<done, tries>>,
           buffer' = buffer \/ buffer' = [buffer EXCEPT ![c] = <<>>],
           handling' = handling \/ handling' = [handling EXCEPT ![c] = Idle],
           NEW m \in Messages
    PROVE  CountedOnce(m)'
<1>1. /\ buffer \in [Replicas -> Seq(Messages)] /\ handling \in [Replicas -> CallbackStates]
    BY DEF Inv, TypeOK
<1>2. /\ \A d \in Replicas : buffer'[d] = buffer[d] \/ buffer'[d] = <<>>
      /\ \A d \in Replicas : handling'[d] = handling[d] \/ handling'[d].at = "idle"
    BY <1>1 DEF Idle
<1>3. ASSUME NEW d \in Replicas, NEW i \in Nat, <<d, i>> \in Held(m)'
      PROVE  <<d, i>> \in Held(m)
    BY <1>2, <1>3 DEF Held
<1>4. Held(m)' \subseteq Replicas \X Nat
    BY DEF Held
<1>5. Held(m)' \subseteq Held(m)
    BY <1>3, <1>4
<1> QED BY <1>5, LessInHand DEF CountInv

LEMMA NextCountInv ==
    ASSUME Inv, CountInv, [Next]_vars
    PROVE  CountInv'
<1> SUFFICES ASSUME NEW m \in Messages PROVE CountedOnce(m)'
    BY DEF CountInv
<1>0. "here" \in Replicas /\ \A c \in Others : c \in Replicas
    BY DEF Replicas
<1>1. CASE UNCHANGED <<done, tries, buffer, handling>>
    BY <1>0, <1>1, LettingGoCounts
<1>2. CASE ProcessStep
  <2>1. /\ UNCHANGED <<done, tries>>
        /\ buffer' = buffer \/ buffer' = [buffer EXCEPT !["here"] = <<>>]
        /\ handling' = handling \/ handling' = [handling EXCEPT !["here"] = Idle]
      BY <1>2 DEF ProcessStep, ClientFollows, Inv, TypeOK
  <2> QED BY <1>0, <2>1, LettingGoCounts
<1>3. ASSUME NEW c \in Others, OtherRestarts(c)
      PROVE  CountedOnce(m)'
    BY <1>0, <1>3, LettingGoCounts DEF OtherRestarts
<1>4. ASSUME NEW c \in Replicas, NEW n \in Messages, Deliver(c, n)
      PROVE  CountedOnce(m)'
    BY <1>4, DeliverCounts
<1>5. ASSUME NEW n \in Messages, (\E p \in Payloads : Publish(n, p)) \/ AckWaitEnds(n)
      PROVE  CountedOnce(m)'
    BY <1>1, <1>5 DEF Publish, AckWaitEnds
<1>6. ASSUME NEW c \in Replicas, Answers(c)
      PROVE  CountedOnce(m)'
  <2>1. UNCHANGED <<done, tries, buffer>> /\ handling' = [handling EXCEPT ![c] = Idle]
      BY <1>6, AnswersAre
  <2> QED BY <2>1, LettingGoCounts
<1>7. ASSUME NEW c \in Replicas, Callback(c)
      PROVE  CountedOnce(m)'
    BY <1>6, <1>7, TakeCounts, WorkCounts DEF Callback, Answers
<1>8. CASE UNCHANGED vars
    BY <1>1, <1>8 DEF vars, deliveryVars
<1> QED BY <1>2, <1>3, <1>4, <1>5, <1>7, <1>8 DEF Next

\* For every number of messages, deliveries, replicas and stops: a handler's statement takes
\* effect at most once per delivery. Analytics, which inserts without a key of the
\* message, counts an event at most MaxDeliver times, and once if it is delivered once.
THEOREM AtMostOncePerDelivery == Spec => []CountedOncePerDelivery
<1>1. Init => CountInv
  <2> SUFFICES ASSUME Init, NEW m \in Messages PROVE CountedOnce(m)
      BY DEF CountInv
  <2>1. \A c \in Replicas : buffer[c] = <<>> /\ handling[c].at = "idle"
      BY DEF Init, Idle
  <2>2. Held(m) = {}
      BY <2>1 DEF Held
  <2>3. IsFiniteSet(Held(m)) /\ Cardinality(Held(m)) = 0
      BY <2>2, FS_EmptySet
  <2>4. done[m] = 0 /\ tries[m] = 0
      BY DEF Init
  <2> QED BY <2>3, <2>4 DEF CountedOnce
<1>2. Inv /\ CountInv => CountedOncePerDelivery
  <2> SUFFICES ASSUME Inv, CountInv, NEW m \in Messages PROVE done[m] <= tries[m]
      BY DEF CountedOncePerDelivery
  <2>1. Cardinality(Held(m)) \in Nat /\ done[m] + Cardinality(Held(m)) <= tries[m]
      BY FS_CardinalityType DEF CountInv, CountedOnce
  <2> QED BY <2>1, CountsAreNumbers
<1> QED BY <1>1, <1>2, InvHolds, NextCountInv, PTL DEF Spec

------------------------------------------------------------------------------
(* Shutdown. Only the reservation service has workers; they are started    *)
(* last and stopped first.                                                 *)

Needed == {"tasks", "stores", "clients"}

WorkerInv ==
    /\ ProcessTypeOK
    /\ svc = "reservation" /\ phase \in {"starting", "running"} =>
           open = {ReservationStartup[i] : i \in 1..opened}
    /\ phase = "exited" => open = {} /\ opened = 0
    /\ worker \in {"idle", "busy"} => "workers" \in open
    /\ "workers" \in open => Needed \subseteq open

LEMMA ReservationOrder ==
    /\ Startup["reservation"] = ReservationStartup /\ Len(ReservationStartup) = 7
    /\ HookOrder["reservation"] = ReservationHooks /\ Len(ReservationHooks) = 7
    /\ ReservationHooks[1] = "workers"
    /\ \A i \in 1..7 : ReservationStartup[i] = "workers" => i = 6
    /\ Needed \subseteq {ReservationStartup[i] : i \in 1..5}
BY DEF Startup, HookOrder, ReservationStartup, ReservationHooks, Needed

LEMMA OnlyReservationHasWorkers ==
    ASSUME NEW s \in DOMAIN Startup, NEW i \in 1..Len(Startup[s]), Startup[s][i] = "workers"
    PROVE  s = "reservation"
<1>1. DOMAIN Startup = {"reservation", "search", "analytics", "payment", "billing", "presence", "gateway"}
    BY DEF Startup
<1>2. s # "search"
  <2>1. Startup["search"] = <<"telemetry", "stores", "nats", "spotConsumer">>
      BY DEF Startup, SearchStartup
  <2>2. Len(<<"telemetry", "stores", "nats", "spotConsumer">>) = 4
      OBVIOUS
  <2>3. \A j \in 1..4 : <<"telemetry", "stores", "nats", "spotConsumer">>[j] # "workers"
      OBVIOUS
  <2> QED BY <2>1, <2>2, <2>3
<1>3. s # "analytics"
  <2>1. Startup["analytics"] = <<"telemetry", "stores", "nats", "eventConsumers">>
      BY DEF Startup, AnalyticsStartup
  <2>2. Len(<<"telemetry", "stores", "nats", "eventConsumers">>) = 4
      OBVIOUS
  <2>3. \A j \in 1..4 : <<"telemetry", "stores", "nats", "eventConsumers">>[j] # "workers"
      OBVIOUS
  <2> QED BY <2>1, <2>2, <2>3
<1>4. s # "payment"
  <2>1. Startup["payment"] = <<"telemetry", "stores", "nats">>
      BY DEF Startup, PaymentStartup
  <2>2. Len(<<"telemetry", "stores", "nats">>) = 3
      OBVIOUS
  <2>3. \A j \in 1..3 : <<"telemetry", "stores", "nats">>[j] # "workers"
      OBVIOUS
  <2> QED BY <2>1, <2>2, <2>3
<1>5. s # "billing"
  <2>1. Startup["billing"] = <<"telemetry", "stores">>
      BY DEF Startup, BillingStartup
  <2>2. Len(<<"telemetry", "stores">>) = 2
      OBVIOUS
  <2>3. \A j \in 1..2 : <<"telemetry", "stores">>[j] # "workers"
      OBVIOUS
  <2> QED BY <2>1, <2>2, <2>3
<1>6. s # "presence"
  <2>1. Startup["presence"] = <<"telemetry">>
      BY DEF Startup, PresenceStartup
  <2>2. Len(<<"telemetry">>) = 1
      OBVIOUS
  <2>3. \A j \in 1..1 : <<"telemetry">>[j] # "workers"
      OBVIOUS
  <2> QED BY <2>1, <2>2, <2>3
<1>7. s # "gateway"
  <2>1. Startup["gateway"] = <<"telemetry", "clients", "analytics", "presence", "stores">>
      BY DEF Startup, GatewayStartup
  <2>2. Len(<<"telemetry", "clients", "analytics", "presence", "stores">>) = 5
      OBVIOUS
  <2>3. \A j \in 1..5 : <<"telemetry", "clients", "analytics", "presence", "stores">>[j] # "workers"
      OBVIOUS
  <2> QED BY <2>1, <2>2, <2>3
<1> QED BY <1>1, <1>2, <1>3, <1>4, <1>5, <1>6, <1>7

LEMMA WorkersAreOfReservation ==
    ASSUME ProcessTypeOK, "workers" \in open
    PROVE  svc = "reservation"
<1>1. PICK i \in 1..opened : Startup[svc][i] = "workers"
    BY DEF ProcessTypeOK
<1>2. svc \in DOMAIN Startup /\ i \in 1..Len(Startup[svc])
    BY <1>1, StartupIsFinite DEF ProcessTypeOK
<1> QED BY <1>1, <1>2, OnlyReservationHasWorkers

LEMMA WorkerInvKept ==
    ASSUME WorkerInv, ProcessNext
    PROVE  WorkerInv'
<1>0. ProcessTypeOK' /\ svc' = svc
    BY ProcessTypeKept DEF WorkerInv
<1> DEFINE Opened(n) == {ReservationStartup[i] : i \in 1..n}
<1>1. CASE Exits
    BY <1>0, <1>1 DEF Exits, WorkerInv
<1>2. ASSUME NEW r, Open(r)
      PROVE  WorkerInv'
  <2>1. /\ phase = "starting" /\ phase' = phase /\ open' = open \cup {r}
        /\ opened' = opened + 1 /\ opened \in Nat
        /\ r = Startup[svc][opened + 1] /\ opened < Len(Startup[svc])
        /\ worker' = worker \/ worker' = "launched"
      BY <1>2, StartupIsFinite DEF Open, IsNext, WorkerInv, ProcessTypeOK
  <2>2. ASSUME svc = "reservation"
        PROVE  open' = Opened(opened')
    <3>1. open = Opened(opened) /\ r = ReservationStartup[opened + 1]
        BY <2>1, <2>2, ReservationOrder DEF WorkerInv
    <3>2. Opened(opened + 1) = Opened(opened) \cup {ReservationStartup[opened + 1]}
        BY <2>1
    <3> QED BY <2>1, <3>1, <3>2
  <2>3. ASSUME r = "workers"
        PROVE  Needed \subseteq open
    <3>1. svc = "reservation"
      <4>1. svc \in DOMAIN Startup /\ opened + 1 \in 1..Len(Startup[svc])
          BY <2>1, StartupIsFinite DEF WorkerInv, ProcessTypeOK
      <4> QED BY <2>1, <2>3, <4>1, OnlyReservationHasWorkers
    <3>2. opened = 5
      <4>1. Startup[svc] = ReservationStartup /\ Len(ReservationStartup) = 7
          BY <3>1, ReservationOrder
      <4>2. opened < 7 /\ ReservationStartup[opened + 1] = "workers"
          BY <2>1, <2>3, <4>1
      <4>3. opened + 1 \in 1..7
          BY <2>1, <4>2
      <4> QED BY <2>1, <4>2, <4>3, ReservationOrder
    <3> QED BY <2>1, <3>1, <3>2, ReservationOrder DEF WorkerInv
  <2> QED BY <1>0, <2>1, <2>2, <2>3 DEF WorkerInv
<1>3. ASSUME NEW r, GoOnWithout(r)
      PROVE  WorkerInv'
  <2>1. svc # "reservation" /\ phase = "starting" /\ UNCHANGED <<phase, open, worker>>
      BY <1>3 DEF GoOnWithout, IsNext, Optional
  <2> QED BY <1>0, <2>1 DEF WorkerInv
<1>4. ASSUME NEW r, RunHook(r)
      PROVE  WorkerInv'
  <2>1. /\ phase' = "stopping" /\ open' = open \ {r} /\ r \in open
        /\ r = "workers" => worker # "busy"
        /\ worker' = IF r = "workers" /\ worker = "idle" THEN "stopped" ELSE worker
      BY <1>4 DEF RunHook, IsNextHook
  <2>2. ASSUME "workers" \in open
        PROVE  r = "workers"
    <3>1. svc = "reservation"
        BY <2>2, WorkersAreOfReservation DEF WorkerInv
    <3>2. PICK i \in 1..7 : ReservationHooks[i] = r /\ \A j \in 1..(i - 1) : ReservationHooks[j] \notin open
        BY <1>4, <3>1, ReservationOrder DEF RunHook, IsNextHook
    <3> QED BY <2>2, <3>2, ReservationOrder
  <2> QED BY <1>0, <2>1, <2>2 DEF WorkerInv
<1>5. CASE Launch \/ StopBegins
    BY <1>0, <1>5 DEF Launch, StopBegins, WorkerInv
<1>6. CASE Restart
  <2>1. phase = "exited"
      BY <1>6 DEF Restart
  <2> QED BY <1>0, <1>6, <2>1 DEF Restart, WorkerInv
<1>7. CASE ServerGoesOn \/ ServerFails
    BY <1>0, <1>7 DEF ServerGoesOn, Listen, DrainEnds, ServerFails, WorkerInv
<1>8. CASE WorkerGoesOn \/ WorkerTakes
    BY <1>0, <1>8 DEF WorkerGoesOn, WorkerStarts, WorkerEnds, WorkerAbandoned, WorkerTakes, WorkerInv
<1>9. CASE Return \/ Deadline \/ (\E r \in Resources : CannotOpen(r)) \/ Crash
    BY <1>1, <1>9 DEF Return, Deadline, CannotOpen, Crash
<1>10. CASE Signal
  <2>1. CASE phase # "starting"
      BY <1>0, <1>10, <2>1 DEF Signal, WorkerInv
  <2> QED BY <1>1, <1>10, <2>1 DEF Signal
<1> QED BY <1>2, <1>3, <1>4, <1>5, <1>6, <1>7, <1>8, <1>9, <1>10 DEF ProcessNext, RunGoesOn

\* A task that a worker has begun keeps the database, the queue and the services its
\* handler calls, through every interleaving of startup, shutdown and crashes: the
\* asynq server is opened behind them and its hook is the first.
THEOREM BusyWorkersKeepResources == Spec => []WorkersKeepTheirResources
<1>1. Init => WorkerInv
  <2> SUFFICES ASSUME Init PROVE WorkerInv OBVIOUS
  <2>1. phase = "starting" /\ opened = 0 /\ open = {} /\ worker = "none"
      BY DEF Init, ProcessInit
  <2>2. ProcessTypeOK
      BY InitInv DEF Inv, TypeOK
  <2> QED BY <2>1, <2>2 DEF WorkerInv
<1>2. WorkerInv /\ [Next]_vars => WorkerInv'
  <2> SUFFICES ASSUME WorkerInv, [Next]_vars PROVE WorkerInv' OBVIOUS
  <2>1. CASE UNCHANGED processVars
      BY <2>1 DEF processVars, WorkerInv, ProcessTypeOK
  <2>2. CASE ProcessStep
      BY <2>2, WorkerInvKept DEF ProcessStep
  <2>3. CASE UNCHANGED vars
      BY <2>1, <2>3 DEF vars
  <2>4. ASSUME NEW m \in Messages,
               (\E p \in Payloads : Publish(m, p)) \/ (\E c \in Replicas : Deliver(c, m)) \/ AckWaitEnds(m)
        PROVE  WorkerInv'
      BY <2>1, <2>4 DEF Publish, Deliver, AckWaitEnds
  <2>5. ASSUME NEW c \in Replicas, Callback(c)
        PROVE  WorkerInv'
      BY <2>1, <2>5 DEF Callback, Take, HandlePoison, HandleUnknownStatus, HandlePaymentResult,
         Work, Answer, Returns
  <2>6. ASSUME NEW c \in Others, OtherRestarts(c)
        PROVE  WorkerInv'
      BY <2>1, <2>6 DEF OtherRestarts
  <2> QED BY <2>2, <2>3, <2>4, <2>5, <2>6 DEF Next
<1>3. WorkerInv => WorkersKeepTheirResources
    BY DEF WorkerInv, Needed, WorkersKeepTheirResources
<1> QED BY <1>1, <1>2, <1>3, PTL DEF Spec

------------------------------------------------------------------------------
(* The order of first deliveries                                           *)

\* The server delivers for the first time in the order of publication, or never.
BookInOrder ==
    /\ \A m \in Messages : tries[m] = 0 => state[m] \in {"unsent", "missed", "ready"}
    /\ \A m, n \in Messages : m < n /\ state[n] # "unsent" => state[m] # "unsent"
    /\ \A m, n \in Messages : m < n /\ tries[n] > 0 /\ tries[m] = 0 => state[m] = "missed"

\* What a replica holds, and what it wrote, has been delivered.
DeliveredTo(c) ==
    /\ wrote[c] # 0 => tries[wrote[c]] > 0
    /\ handling[c].at # "idle" => tries[handling[c].msg] > 0
    /\ \A j \in 1..Len(buffer[c]) : tries[buffer[c][j]] > 0

\* A first delivery comes behind everything older that the same replica has: what it
\* wrote last, what its callback has begun and what waits before it in the buffer.
FirstsInOrder(c) ==
    /\ \A j \in 1..Len(buffer[c]) : tries[buffer[c][j]] = 1 =>
           /\ wrote[c] < buffer[c][j]
           /\ At(c, "began") => handling[c].msg < buffer[c][j]
           /\ \A i \in 1..(j - 1) : buffer[c][i] < buffer[c][j]
    /\ At(c, "began") /\ tries[handling[c].msg] = 1 => wrote[c] < handling[c].msg

ReplicasInOrder == \A c \in Replicas : DeliveredTo(c) /\ FirstsInOrder(c)

OrderInv == BookInOrder /\ ReplicasInOrder

LEMMA InitOrderInv == Init => OrderInv
BY DEF Init, OrderInv, BookInOrder, ReplicasInOrder, DeliveredTo, FirstsInOrder, At, Idle

\* The book of the server, as far as its order goes.
LEMMA BookKept ==
    ASSUME Inv, BookInOrder, ReplicasInOrder, [Next]_vars
    PROVE  BookInOrder'
<1> USE DEF BookInOrder
<1>0. /\ \A m \in Messages : m \in Nat /\ tries[m] \in Nat
      /\ state \in [Messages -> {"unsent", "missed", "ready", "out", "acked", "termed", "dropped"}]
      /\ tries \in [Messages -> 0..MaxDeliver]
    BY DeliveryAssumption DEF Inv, StateTypeOK, Messages
<1>1. CASE UNCHANGED <<state, tries>>
    BY <1>1
<1>2. ASSUME NEW m \in Messages, NEW p \in Payloads, Publish(m, p)
      PROVE  BookInOrder'
  <2>1. /\ state[m] = "unsent" /\ tries[m] = 0 /\ UNCHANGED tries
        /\ \A n \in Messages : n < m => state[n] # "unsent"
        /\ state'[m] \in {"ready", "missed"} /\ \A n \in Messages \ {m} : state'[n] = state[n]
      BY <1>0, <1>2 DEF Publish, Inv, StateTypeOK, Messages
  <2> QED BY <1>0, <2>1
<1>3. ASSUME NEW c \in Replicas, NEW m \in Messages, Deliver(c, m)
      PROVE  BookInOrder'
  <2>1. /\ state[m] = "ready" /\ state'[m] = "out" /\ tries'[m] = tries[m] + 1
        /\ \A n \in Messages \ {m} : state'[n] = state[n] /\ tries'[n] = tries[n]
        /\ tries[m] = 0 => \A n \in Messages : n < m /\ state[n] = "ready" => tries[n] > 0
      BY <1>0, <1>3 DEF Deliver, Messages
  <2>2. \A n \in Messages : n < m /\ tries[n] = 0 /\ tries[m] = 0 => state[n] = "missed"
      BY <1>0, <2>1
  <2>3. \A n \in Messages : n < m /\ tries[n] = 0 => state[n] = "missed"
      BY <1>0, <2>2
  <2> QED BY <1>0, <2>1, <2>3
<1>4. ASSUME NEW m \in Messages, tries[m] > 0, state[m] # "unsent", state'[m] # "unsent", UNCHANGED tries,
             \A n \in Messages \ {m} : state'[n] = state[n]
      PROVE  BookInOrder'
    BY <1>0, <1>4
<1>5. ASSUME NEW m \in Messages, AckWaitEnds(m)
      PROVE  BookInOrder'
  <2>1. /\ tries[m] > 0 /\ state[m] # "unsent" /\ state'[m] # "unsent" /\ UNCHANGED tries
        /\ \A n \in Messages \ {m} : state'[n] = state[n]
      BY <1>0, <1>5 DEF AckWaitEnds, Again
  <2> QED BY <1>4, <2>1
<1>6. ASSUME NEW c \in Replicas, Answers(c)
      PROVE  BookInOrder'
  <2>1. PICK m \in Messages : m = handling[c].msg
      BY <1>6, AnswersAre
  <2>2. /\ Ack(c, m) \/ Term(c, m) \/ Nak(c, m)
        /\ UNCHANGED tries /\ handling[c].at # "idle"
      BY <1>6, <2>1, AnswersAre
  <2>3. tries[m] > 0
      BY <2>1, <2>2 DEF ReplicasInOrder, DeliveredTo
  <2>4. \/ state' = state
        \/ /\ state[m] # "unsent" /\ state'[m] # "unsent"
           /\ \A n \in Messages \ {m} : state'[n] = state[n]
      BY <1>0, <2>2 DEF Ack, Term, Nak, Again, Unsettled
  <2> QED BY <1>1, <1>4, <2>2, <2>3, <2>4
<1>7. ASSUME NEW c \in Replicas, Callback(c)
      PROVE  BookInOrder'
    BY <1>1, <1>6, <1>7 DEF Callback, Answers, Take, Work
<1> QED BY <1>1, <1>2, <1>3, <1>5, <1>7
        DEF Next, ProcessStep, ClientFollows, OtherRestarts, vars, deliveryVars

\* What order there is among what a replica has, as numbers.
LEMMA OrderTypes ==
    ASSUME Inv, NEW c \in Replicas
    PROVE  /\ \A m \in Messages : m \in Nat /\ m > 0 /\ tries[m] \in Nat
           /\ handling[c].at # "idle" => handling[c].msg \in Messages
           /\ handling \in [Replicas -> CallbackStates]
           /\ tries \in [Messages -> 0..MaxDeliver]
           /\ buffer \in [Replicas -> Seq(Messages)] /\ buffer[c] \in Seq(Messages)
           /\ wrote \in [Replicas -> {0} \cup Messages]
           /\ wrote[c] = 0 \/ wrote[c] \in Messages
<1>1. /\ handling[c].at # "idle" => handling[c].msg \in Messages
      /\ handling \in [Replicas -> CallbackStates]
      /\ tries \in [Messages -> 0..MaxDeliver]
    BY DEF Inv, StateTypeOK
<1>2. \A m \in Messages : m \in Nat /\ m > 0 /\ tries[m] \in Nat
    BY DeliveryAssumption, <1>1 DEF Messages
<1>3. /\ buffer \in [Replicas -> Seq(Messages)]
      /\ wrote \in [Replicas -> {0} \cup Messages]
    BY DEF Inv, TypeOK
<1>4. wrote[c] \in {0} \cup Messages
    BY <1>3
<1> QED BY <1>1, <1>2, <1>3, <1>4

\* A replica to which nothing happens, or that lets go of what it had in hand.
LEMMA RestingInOrder ==
    ASSUME ReplicasInOrder, NEW c \in Replicas, UNCHANGED tries, wrote'[c] = wrote[c],
           buffer'[c] = buffer[c] \/ buffer'[c] = <<>>,
           handling'[c] = handling[c] \/ handling'[c] = Idle
    PROVE  DeliveredTo(c)' /\ FirstsInOrder(c)'
BY DEF Idle, ReplicasInOrder, DeliveredTo, FirstsInOrder, At

\* A first delivery is newer than everything that has been delivered.
LEMMA FirstIsNewest ==
    ASSUME Inv, BookInOrder, NEW m \in Messages, state[m] = "ready", tries[m] = 0,
           NEW n \in Messages, tries[n] > 0
    PROVE  n < m
<1>1. m < n => state[m] = "missed"
    BY DEF BookInOrder
<1>2. m \in Nat /\ n \in Nat /\ m # n
    BY DeliveryAssumption DEF Messages
<1> QED BY <1>1, <1>2

LEMMA DeliverInOrder ==
    ASSUME Inv, OrderInv, NEW c \in Replicas, NEW m \in Messages, Deliver(c, m), NEW d \in Replicas
    PROVE  DeliveredTo(d)' /\ FirstsInOrder(d)'
<1>0. /\ DeliveredTo(d) /\ FirstsInOrder(d) /\ BookInOrder
      /\ \A n \in Messages : n \in Nat /\ tries[n] \in Nat
    BY OrderTypes DEF OrderInv, ReplicasInOrder
<1>1. /\ state[m] = "ready" /\ tries'[m] = tries[m] + 1
      /\ \A n \in Messages \ {m} : tries'[n] = tries[n]
      /\ UNCHANGED <<handling, wrote>>
    BY OrderTypes DEF Deliver
<1>2. \A n \in Messages : /\ tries[n] > 0 => tries'[n] > 0
                          /\ tries[n] > 0 /\ tries'[n] = 1 => n # m /\ tries[n] = 1
    BY <1>0, <1>1
<1>3. /\ buffer[d] \in Seq(Messages) /\ Len(buffer[d]) \in Nat
      /\ \A j \in 1..Len(buffer[d]) : buffer[d][j] \in Messages
    BY OrderTypes
<1>4. CASE d # c
  <2>1. buffer'[d] = buffer[d]
      BY <1>4, OrderTypes DEF Deliver
  <2>2. DeliveredTo(d)'
      BY <1>0, <1>1, <1>2, <1>3, <2>1, OrderTypes DEF DeliveredTo
  <2>3. FirstsInOrder(d)'
      BY <1>0, <1>1, <1>2, <1>3, <2>1, OrderTypes DEF DeliveredTo, FirstsInOrder, At
  <2> QED BY <2>2, <2>3
<1>5. CASE d = c
  <2>1. /\ Len(buffer'[d]) = Len(buffer[d]) + 1 /\ buffer'[d][Len(buffer[d]) + 1] = m
        /\ \A j \in 1..Len(buffer[d]) : buffer'[d][j] = buffer[d][j]
        /\ \A j \in 1..Len(buffer'[d]) : j = Len(buffer[d]) + 1 \/ j \in 1..Len(buffer[d])
    <3>1. buffer'[d] = Append(buffer[d], m)
        BY <1>5, OrderTypes DEF Deliver
    <3> QED BY <1>3, <3>1
  <2>2. DeliveredTo(d)'
    <3>1. tries'[m] > 0
        BY <1>0, <1>1
    <3>2. \A j \in 1..Len(buffer'[d]) : tries'[buffer'[d][j]] > 0
        BY <1>0, <1>2, <1>3, <2>1, <3>1 DEF DeliveredTo
    <3>3. /\ wrote'[d] # 0 => tries'[wrote'[d]] > 0
          /\ handling'[d].at # "idle" => tries'[handling'[d].msg] > 0
        BY <1>0, <1>1, <1>2, OrderTypes DEF DeliveredTo
    <3> QED BY <3>2, <3>3 DEF DeliveredTo
  <2>3. ASSUME NEW j \in 1..Len(buffer'[d]), tries'[buffer'[d][j]] = 1
        PROVE  /\ wrote'[d] < buffer'[d][j]
               /\ At(d, "began")' => handling'[d].msg < buffer'[d][j]
               /\ \A i \in 1..(j - 1) : buffer'[d][i] < buffer'[d][j]
    <3>1. CASE j = Len(buffer[d]) + 1
      <4>1. tries[m] = 0 /\ buffer'[d][j] = m
          BY <1>0, <1>1, <2>1, <2>3, <3>1
      <4>2. \A n \in Messages : tries[n] > 0 => n < m
          BY <1>0, <1>1, <4>1, FirstIsNewest
      <4>3. wrote[d] < m /\ (handling[d].at # "idle" => handling[d].msg < m)
          BY <1>0, <4>2, OrderTypes DEF DeliveredTo
      <4>4. \A i \in 1..Len(buffer[d]) : buffer'[d][i] < m
          BY <1>0, <1>3, <2>1, <4>2 DEF DeliveredTo
      <4> QED BY <1>1, <1>3, <3>1, <4>1, <4>3, <4>4 DEF At
    <3>2. CASE j \in 1..Len(buffer[d])
      <4>1. buffer'[d][j] = buffer[d][j] /\ tries[buffer[d][j]] = 1
          BY <1>0, <1>2, <1>3, <2>1, <2>3, <3>2 DEF DeliveredTo
      <4>2. \A i \in 1..(j - 1) : buffer'[d][i] < buffer[d][j]
        <5>1. \A i \in 1..(j - 1) : i \in 1..Len(buffer[d])
            BY <1>3, <3>2
        <5>2. \A i \in 1..(j - 1) : buffer[d][i] < buffer[d][j]
            BY <1>0, <3>2, <4>1 DEF FirstsInOrder
        <5>3. \A i \in 1..(j - 1) : buffer'[d][i] = buffer[d][i]
            BY <2>1, <5>1
        <5> QED BY <5>2, <5>3
      <4> QED BY <1>0, <1>1, <3>2, <4>1, <4>2 DEF FirstsInOrder, At
    <3> QED BY <2>1, <3>1, <3>2
  <2>4. At(d, "began")' /\ tries'[handling'[d].msg] = 1 => wrote'[d] < handling'[d].msg
    <3>1. SUFFICES ASSUME handling[d].at = "began", tries'[handling[d].msg] = 1
                   PROVE  wrote[d] < handling[d].msg
        BY <1>1 DEF At
    <3>2. tries[handling[d].msg] = 1
        BY <1>0, <1>2, <3>1, OrderTypes DEF DeliveredTo
    <3> QED BY <1>0, <3>1, <3>2 DEF FirstsInOrder, At
  <2> QED BY <2>2, <2>3, <2>4 DEF FirstsInOrder
<1> QED BY <1>4, <1>5

LEMMA TakeInOrder ==
    ASSUME Inv, OrderInv, NEW c \in Replicas, Take(c)
    PROVE  DeliveredTo(c)' /\ FirstsInOrder(c)'
<1>0. DeliveredTo(c) /\ FirstsInOrder(c)
    BY DEF OrderInv, ReplicasInOrder
<1>1. /\ handling'[c].msg = Head(buffer[c]) /\ handling'[c].at = "began" /\ UNCHANGED <<tries, wrote>>
      /\ buffer[c] # <<>> /\ buffer'[c] = Tail(buffer[c])
    BY OrderTypes DEF Take
<1>2. /\ Len(buffer[c]) \in Nat \ {0} /\ Len(buffer'[c]) = Len(buffer[c]) - 1 /\ Head(buffer[c]) = buffer[c][1]
      /\ \A j \in 1..Len(buffer'[c]) : buffer'[c][j] = buffer[c][j + 1] /\ j + 1 \in 1..Len(buffer[c])
  <2>1. buffer[c] \in Seq(Messages)
      BY OrderTypes
  <2> QED BY <1>1, <2>1
<1>3. DeliveredTo(c)'
    BY <1>0, <1>1, <1>2 DEF DeliveredTo
<1>4. ASSUME NEW j \in 1..Len(buffer'[c]), tries'[buffer'[c][j]] = 1
      PROVE  /\ wrote'[c] < buffer'[c][j] /\ handling'[c].msg < buffer'[c][j]
             /\ \A i \in 1..(j - 1) : buffer'[c][i] < buffer'[c][j]
  <2>1. /\ wrote[c] < buffer[c][j + 1]
        /\ \A i \in 1..j : buffer[c][i] < buffer[c][j + 1]
      BY <1>0, <1>1, <1>2, <1>4 DEF FirstsInOrder
  <2> QED BY <1>1, <1>2, <2>1
<1>5. tries'[handling'[c].msg] = 1 => wrote'[c] < handling'[c].msg
    BY <1>0, <1>1, <1>2 DEF FirstsInOrder
<1> QED BY <1>1, <1>3, <1>4, <1>5 DEF FirstsInOrder, At

LEMMA WorkInOrder ==
    ASSUME Inv, OrderInv, NEW c \in Replicas, NEW ok \in BOOLEAN, Work(c, ok)
    PROVE  DeliveredTo(c)' /\ FirstsInOrder(c)'
<1>0. DeliveredTo(c) /\ FirstsInOrder(c)
    BY DEF OrderInv, ReplicasInOrder
<1>1. /\ handling[c].at = "began" /\ handling[c].msg \in Messages /\ UNCHANGED <<tries, buffer>>
      /\ handling'[c].msg = handling[c].msg /\ handling'[c].at \in {"worked", "failed"}
      /\ wrote' = [wrote EXCEPT ![c] = handling[c].msg] \/ wrote' = wrote
    BY WorkIs
<1>2. wrote'[c] = handling[c].msg \/ wrote'[c] = wrote[c]
    BY <1>1, OrderTypes
<1> QED BY <1>0, <1>1, <1>2 DEF DeliveredTo, FirstsInOrder, At

LEMMA ReplicasKeptInOrder ==
    ASSUME Inv, OrderInv, [Next]_vars
    PROVE  ReplicasInOrder'
<1> SUFFICES ASSUME NEW d \in Replicas PROVE DeliveredTo(d)' /\ FirstsInOrder(d)'
    BY DEF ReplicasInOrder
<1>0. /\ "here" \in Replicas /\ ReplicasInOrder
      /\ buffer \in [Replicas -> Seq(Messages)] /\ handling \in [Replicas -> CallbackStates]
      /\ wrote \in [Replicas -> {0} \cup Messages]
    BY DEF Replicas, OrderInv, Inv, TypeOK
<1>1. CASE UNCHANGED <<tries, buffer, handling, wrote>>
    BY <1>0, <1>1, RestingInOrder
<1>2. CASE ProcessStep
  <2>1. /\ UNCHANGED <<tries, wrote>>
        /\ buffer'[d] = buffer[d] \/ buffer'[d] = <<>>
        /\ handling'[d] = handling[d] \/ handling'[d] = Idle
      BY <1>0, <1>2 DEF ProcessStep, ClientFollows
  <2> QED BY <1>0, <2>1, RestingInOrder
<1>3. ASSUME NEW c \in Others, OtherRestarts(c)
      PROVE  DeliveredTo(d)' /\ FirstsInOrder(d)'
  <2>1. /\ UNCHANGED <<tries, wrote>>
        /\ buffer'[d] = buffer[d] \/ buffer'[d] = <<>>
        /\ handling'[d] = handling[d] \/ handling'[d] = Idle
      BY <1>0, <1>3 DEF OtherRestarts
  <2> QED BY <1>0, <2>1, RestingInOrder
<1>4. ASSUME NEW c \in Replicas, NEW m \in Messages, Deliver(c, m)
      PROVE  DeliveredTo(d)' /\ FirstsInOrder(d)'
    BY <1>4, DeliverInOrder
<1>5. ASSUME NEW c \in Replicas, Answers(c)
      PROVE  DeliveredTo(d)' /\ FirstsInOrder(d)'
  <2>1. UNCHANGED <<tries, wrote, buffer>> /\ handling' = [handling EXCEPT ![c] = Idle]
      BY <1>5, AnswersAre
  <2>2. handling'[d] = handling[d] \/ handling'[d] = Idle
      BY <1>0, <2>1
  <2> QED BY <1>0, <2>1, <2>2, RestingInOrder
<1>6. ASSUME NEW c \in Replicas, Take(c)
      PROVE  DeliveredTo(d)' /\ FirstsInOrder(d)'
  <2>1. CASE d = c
      BY <1>6, <2>1, TakeInOrder
  <2>2. CASE d # c
    <3>1. buffer'[d] = buffer[d] /\ handling'[d] = handling[d] /\ UNCHANGED <<tries, wrote>>
        BY <1>0, <1>6, <2>2 DEF Take
    <3> QED BY <1>0, <3>1, RestingInOrder
  <2> QED BY <2>1, <2>2
<1>7. ASSUME NEW c \in Replicas, NEW ok \in BOOLEAN, Work(c, ok)
      PROVE  DeliveredTo(d)' /\ FirstsInOrder(d)'
  <2>1. CASE d = c
      BY <1>7, <2>1, WorkInOrder
  <2>2. CASE d # c
    <3>1. handling'[d] = handling[d] /\ UNCHANGED <<tries, buffer>>
        BY <1>7, <2>2, WorkIs
    <3>2. wrote'[d] = wrote[d]
        BY <1>0, <1>7, <2>2, WorkIs
    <3> QED BY <1>0, <3>1, <3>2, RestingInOrder
  <2> QED BY <2>1, <2>2
<1>8. ASSUME NEW c \in Replicas, Callback(c)
      PROVE  DeliveredTo(d)' /\ FirstsInOrder(d)'
    BY <1>5, <1>6, <1>7, <1>8 DEF Callback, Answers
<1> QED BY <1>1, <1>2, <1>3, <1>4, <1>8 DEF Next, Publish, AckWaitEnds, vars, deliveryVars

LEMMA OrderInvHolds == Spec => [](Inv /\ OrderInv)
<1>1. Inv /\ OrderInv /\ [Next]_vars => OrderInv'
    BY BookKept, ReplicasKeptInOrder DEF OrderInv
<1> QED BY <1>1, InitOrderInv, InvHolds, PTL DEF Spec

LEMMA GoingBackIsRedelivery ==
    ASSUME Inv, OrderInv, [Next]_vars, NEW c \in Replicas, wrote'[c] < wrote[c]
    PROVE  tries[wrote'[c]] > 1
<1>1. /\ wrote[c] \in Nat /\ \A m \in Messages : m \in Nat /\ tries[m] \in Nat
      /\ wrote \in [Replicas -> {0} \cup Messages]
    BY OrderTypes
<1>2. wrote'[c] # wrote[c]
    BY <1>1
<1>3. PICK d \in Replicas, ok \in BOOLEAN : Work(d, ok)
  <2>1. wrote' # wrote
      BY <1>2
  <2>2. \E d \in Replicas : Callback(d)
      BY <2>1 DEF Next, ProcessStep, ClientFollows, OtherRestarts, Publish, Deliver, AckWaitEnds, vars,
          deliveryVars
  <2>3. \A d \in Replicas : Take(d) \/ Answers(d) => wrote' = wrote
      BY AnswersAre DEF Take
  <2> QED BY <2>1, <2>2, <2>3 DEF Callback, Answers
<1>4. /\ handling[d].at = "began" /\ handling[d].msg \in Messages
      /\ wrote' = [wrote EXCEPT ![d] = handling[d].msg] \/ wrote' = wrote
    BY <1>3, WorkIs
<1>5. d = c /\ wrote'[c] = handling[c].msg
    BY <1>1, <1>2, <1>4
<1>6. DeliveredTo(c) /\ FirstsInOrder(c)
    BY DEF OrderInv, ReplicasInOrder
<1> QED BY <1>1, <1>4, <1>5, <1>6 DEF DeliveredTo, FirstsInOrder, At

\* No replica takes the snapshot of a spot back behind its own write but by a repeated
\* delivery: what a replica gets for the first time it writes in the order of publication,
\* over any number of restarts, lost buffers, lost acks and other replicas. The snapshot
\* goes back by a repeated delivery, or over what another replica wrote.
THEOREM ReplicasKeepTheirOrder == Spec => ReplicaKeepsItsOrder
<1>1. Inv /\ OrderInv /\ [Next]_vars
        => [\A c \in Replicas : wrote'[c] < wrote[c] => tries[wrote'[c]] > 1]_vars
    BY GoingBackIsRedelivery
<1> QED BY <1>1, OrderInvHolds, PTL DEF Spec, ReplicaKeepsItsOrder
=============================================================================
