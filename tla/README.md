# ParkirPintar: TLA+ models, model checking and proofs

ParkirPintar is a car-park reservation system: seven Go services that talk gRPC, a PostgreSQL database, Redis (locks,
caches, the asynq task queue) and NATS JetStream. This directory holds TLA+ modules translated from that code, the TLC
configurations that check them on small instances, and TLAPS proofs for every value of the constants.
`PROJECT.json` maps every definition to the lines it models and lists runs, mutants, hazards, findings and theorems.

Contents: 1 inventory, 2 plan, 3 modules, 4 runs, 5 fairness, 6 proofs, 7 disagreements between code and
documentation, 8 what is not modelled, 9 how to run.

## 1. Inventory

### 1.1 Reservation service (`internal/reservation`)

*State.* Tables `parking_spots` (a denormalised `status` column) and `reservations` with three unique indexes: one active
reservation per spot, one per driver, one row per idempotency key. One Redis key `spot:<id>` per spot lock, with a TTL.
Two delayed asynq tasks per reservation: expiry (`reservation-expiry:<id>`) and payment hold (`payment-hold:<id>`).

*Operations.* CreateReservation, ConfirmReservation, CancelReservation, CheckIn, CheckOut, CompleteCheckout,
ExpireReservation, FailReservation and two reads. All of `usecase.go`.

*Interactions.* Calls billing (StartBilling, CalculateFee, GenerateInvoice), payment (ProcessPayment, RefundPayment) and
presence over gRPC behind circuit breakers; publishes spot and analytics events after its transactions, best effort.

*Hard behaviours.* ConfirmReservation and CompleteCheckout hold no lock while they call billing and payment, and act on
what they read before. The spot lock can expire under its owner. Everything after a commit (billing, tasks, events) is
best effort or compensated by hand. Timeouts race with confirmations. Two replicas run, each with goroutines.

*Correct when* the spot column agrees with the reservations, nobody is given a spot twice, a driver has one active
reservation, a retried key finds its own row, rows follow the transition table, and an unpaid or unused reservation
gives its spot back.

### 1.2 Payment service (`internal/payment`)

*State.* Table `payments`, one row per idempotency key, with a status restricted by a CHECK; the gateway's own books.
*Operations.* ProcessPayment, ProcessQRIS (calls it), RefundPayment, and reads. No method opens a transaction: every
statement and every gateway attempt is a step of its own.
*Hard behaviours.* Two calls with one key; refunds that meet; gateway calls that are refused, cancelled or whose answer
is lost, under a retry loop; statements that fail after money moved.
*Correct when* a row never contradicts the gateway's books, one handler at a time works on a payment, a final status
stays, and no payment stays in an intermediate status for ever.

### 1.3 Billing service (`internal/billing`)

*State.* Table `billing_records`, one row per reservation, with a version column.
*Operations.* StartBilling, CalculateFee, GenerateInvoice, ApplyOvernightFee; the pricing functions are pure.
*Hard behaviours.* Read, compute, write back under an optimistic version check, with a retry loop in two methods and none
in GenerateInvoice; three callers of StartBilling with different fees and keys.
*Correct when* no update is lost, the record goes pending, calculated, invoiced and keeps its booking fee, and an invoiced
amount is not changed by a slow call.

### 1.4 The services together

Reservation calls the other two while its own rows are unlocked. The callee works in the caller's context: a caller that
gives up or dies may leave a handler that goes on, or cut it off between two of its statements. *Correct when* a
confirmed reservation has paid its booking fee and a completed one is invoiced and charged, or else the charge was cut
off by a caller that went; and the record bills the booking fee.

### 1.5 Search service (`internal/search`)

*State.* Table `spot_read_model`; Redis keys `availability:<type>` and `floormap:<floor>` with a TTL of 5 s; one
singleflight group per replica; the JetStream consumer `search-spot-consumer` (AckWait 30 s, MaxDeliver 5).
*Operations.* GetAvailability, GetFloorMap (read-through), GetSpotDetails (a plain read), HandleSpotUpdated (upsert, then
two deletions), and DeleteSpot, which nothing calls.
*Hard behaviours.* Publication after commit by goroutines that do not wait for each other; at-least-once delivery without
a version in the event; two replicas consuming; a fill overtaken by an invalidation; failing invalidations.
*Correct when* cached answers are behind the read model by a bounded time only, and the read model comes to agree with
the reservation service.

### 1.6 The process of a service (`cmd/*/main.go`, `pkg/server`, `pkg/nats`)

*State.* What `run()` has opened, the server goroutine, the asynq server, a signal; JetStream's book on a durable consumer
(deliveries, acknowledgements), the client's buffer, the callback that is at work.
*Operations.* Opening, listening, the signal, draining, the shutdown hooks and their deadline; publish, deliver, Ack, Nak,
Term, AckWait; the handlers of the payment result consumer and of analytics.
*Hard behaviours.* The replicas of a service share its durable consumer. A signal reaches the server and `run()` alike, so hooks close what the server and the callbacks still
use; a process may die between a statement and its ack; messages are delivered at least once and five times at most.
*Correct when* a process that is told to stop ends, what is acknowledged has been done, nothing is done more often than it
was delivered, and every event is settled in the end.

### 1.7 The path of a request (`internal/gateway`, `pkg/middleware`, `pkg/grpcmiddleware`, `pkg/ratelimit`, `pkg/circuitbreaker`)

*State.* One token bucket per client host in every limiter; one breaker per remote service; where each request is.
*Operations.* The REST routes, authentication and limits on every hop, the steps of each usecase as something that can
fail, the translation of an error into a gRPC code and of that into an HTTP status.
*Hard behaviours.* A hop may refuse (expired token, empty bucket, open breaker) after an earlier step has been committed.
*Correct when* a driver who is told "wrong, forbidden, not found or too many" can rely on that nothing was done, the
limiter gives nobody tokens, and a half-open breaker gets a verdict.

### 1.8 The rest

| Part | State | What is hard | Status |
|------|-------|--------------|--------|
| Pricing (`internal/billing/pricing`) | none | started hours, midnights in Jakarta | modelled: `Pricing`, `SessionBilling` |
| Event bus (`pkg/nats`) | streams, durable consumers | redelivery, MaxDeliver | in part: `SearchReadModel`, `EventConsumers` |
| Payment result consumer (`internal/reservation/handler/nats`) | none | events carry no reservation id | modelled: `EventConsumers` |
| Analytics (`internal/analytics`) | event log, spot snapshots | duplicates and overtakings | consumers: `EventConsumers`; queries are floating point |
| Presence (`internal/presence`) | none | - | in part: its answers in `RequestPath` |
| asynq client and server | Redis queues | delivery, retry, archive | in part: `Reservation`, `ServiceProcess` |
| Idempotency interceptor (`pkg/grpcmiddleware/idempotency.go`) | Redis sentinel | - | not modelled: no service chains it |
| Health checks (`pkg/health`) | none across calls | - | not modelled: pings, nothing waits for them |
| Clients, configuration, telemetry, generated code, frontend, deployment | none of the program's own | - | not modelled |

## 2. Plan

Done, in this order: `ReservationStatus`, `SpotInventory` (abstract car park), `Reservation` with its refinement and
proofs; `Payment` and `Billing` with proofs; `ParkirPintar`, their composition, with the proofs that it implements each
service and of its own safety; `SearchReadModel` with proofs; `Pricing` and `SessionBilling` with proofs;
`ServiceProcess` and `EventConsumers` with proofs; `RateLimiter`, `CircuitBreaker` and `RequestPath` with proofs.

Left:

1. `ExpiryTiming`: asynq's retry schedule with a clock, for the expiry that is scheduled from creation and may be archived
   before the reservation is confirmed.
2. Liveness of the composition: what happens to a reservation whose check-out committed before billing failed.

## 3. Modules

| Module | Models | Notes |
|--------|--------|-------|
| `ReservationStatus` | `constants/status.go`, `model/model.go` | statuses, transition table, the statuses that hold a spot |
| `SpotInventory` | - | abstract specification: spots are taken and given back, one holder at a time |
| `Reservation` | `usecase.go`, `repository.go`, `handler/asynq`, `pkg/redislock` | one action per transaction, remote call, enqueue, publish and release |
| `Payment` | `internal/payment` | one action per statement and gateway attempt; `charged` and `refunds` are the gateway's books |
| `Billing` | `internal/billing` | one action per statement; a failed UPDATE and the read that follows it are one |
| `ParkirPintar` | `gateway/grpc` clients, gRPC handlers | INSTANCEs of Billing and Payment serve the calls of Reservation |
| `SearchReadModel` | `internal/search`, `publishSpotUpdated`, JetStream | ticks stand for the TTL and the fill timeout |
| `Pricing` | `internal/billing/pricing` | functions of two instants; `Tariff` is the reference, counted instead of computed |
| `SessionBilling` | `CalculateFee` with its two instants | EXTENDS `Billing` and `Pricing`; a history variable notes the session a record was charged for |
| `ServiceProcess` | `cmd/*/main.go`, `pkg/server`, asynq's Server | a process from start to exit, seven services |
| `EventConsumers` | `pkg/nats`, `internal/analytics`, `internal/reservation/handler/nats` | EXTENDS `ServiceProcess`: the consumer runs inside the process |
| `RateLimiter` | `pkg/ratelimit` | token buckets in ticks and the cleanup of idle ones |
| `CircuitBreaker` | `pkg/circuitbreaker` over gobreaker | three states, generations, one probe |
| `RequestPath` | `internal/gateway`, `pkg/middleware`, `pkg/grpcmiddleware`, `pkg/apperror`, `grpcerror` | EXTENDS both: a request through all hops and back |
| `MC*` | - | model values, requests, symmetry, state constraints |
| `*_proofs` | - | theorems and lemmas |

**Reservation.** `status`, `spotOf`, `driverOf`, `keyOf` and `spot` are the columns of the two tables, `lock` the Redis
keys, `tasks` the scheduled tasks; `pc`, `req`, `target`, `res`, `note` the local variables of a goroutine. A transaction
is one step because it locks its row with SELECT ... FOR UPDATE before it reads. Remote answers are parameters (`ok`).
`Abandon` ends a method at any point: the process died or a transaction returned an error. Reads that return early
(a key already used, a transition that is refused) change nothing and are no actions. `Call` is what clients ask for,
`RunTask` what asynq delivers; a task stays in `tasks` until it is acknowledged or archived, so it may run twice.

**Payment.** `Faults` says what the environment may do: crash, failing statements, cancelled callers, refused gateway
calls and lost answers; the runs and the theorems name the ones they allow. `CheckStatus` is the CHECK of
`payments.status`: with the migration's, no refund gets past its first statement (section 7), so the runs about refunds
use the statuses the code and `docs/services/payment.md` expect.

**Billing.** `copy` is the record a handler has read; `UpdateBillingRecord` replaces the row if it still has that version.

**ParkirPintar.** The calls have no deadline of their own; the context of a call is that of the driver's request, from the
gateway (`gateway/handler/handler.go:49`) through both gRPC hops, so a caller that leaves ends the context of the service
goroutine. The model therefore has two instances of `Payment`: `Attended`, what a goroutine does while its context lives
(with the faults of the run), and `Pay`, what it does at all, with "cancel" among the faults. A step of `Pay` that is not
`InTime` is a `CutOff`, possible only when nobody waits for the goroutine any more; `cut` is history and notes the payments
to which this happened. A goroutine may also outrun the end of its context, so a leaving caller may cut off or not.

`calling[p]` says that the service has the request of `p`. `Send` lets a service method begin,
`SendAndAnswer` serves a call by one read, `ServeBilling` and `ServePayment` take a step of the service goroutine and, if
it was the last and somebody still waits, the answer; `NoAnswer` ends the wait of a caller, `Die` a caller. A goroutine of
a service may take further steps when its caller is gone; per caller and service there is one at a time, the bound on
goroutines.

**SearchReadModel.** Changes of a spot are numbered, which the program does not do, so that the model can tell an event
that was overtaken. `clean[s]`, `age` and `excused` are history: they decide no action. `UnderWay(m)` says where an
event can be between its commit and its upsert, `Views(k)` what an answer under a key may show.

**Pricing.** Instants are seconds from a midnight UTC. `StartedHours` and `Midnights` count the hours and the midnights
in Jakarta of a session one by one; `CalculateSessionFee` divides, as the code does.

**SessionBilling.** `Billing` takes the fee of a session as a parameter; here that parameter is what `Pricing` computes
from two instants. `billed[r]` is history: the session whose fee was written to `r`. Every step is one of `Billing`
(`SessionsAreCalls`), so its theorems hold here.

**ServiceProcess, EventConsumers.** `Startup` and `HookOrder` are the sequences of `run()` and of its
`RegisterShutdownHook` calls; `Open`, `CannotOpen`, `RunHook` take one element. `server` is the goroutine of `Start`,
`taken` the value `run()` has read from its error channel. `state[m]` and `tries[m]` are JetStream's, `buffer` and
`handling` the clients', `done[m]` counts the effects of the handler's statement. An exit loses all that is in memory,
never the durable state. Of analytics' two consumers the model follows either. All services run two replicas
(`deploy/production/kubernetes/services/*/deployment.yaml`, line 10), and the replicas of one share the durable consumer
(`cmd/analytics/main.go:131-155`): JetStream gives each message to one of them. The replica "here" is the process that
`ServiceProcess` follows; of each replica in `Others` the model has the buffer and the callback, which take the same steps,
and `OtherRestarts`, which is its stop, its death and its start at any moment. `wrote[c]` is the message replica `c` wrote
last.

**RateLimiter, CircuitBreaker, RequestPath.** A key without a bucket is a key with a full one, so `Cleanup` fills.
`ideal` is history: the bucket that is never deleted. `admitted` are the calls that the current generation of the
breaker has let through. `Steps` lists, per command, the transactions and remote calls of the usecase; a step may fail
in every way the code has, `changed[r]` says that something may have been done for the request, and `status[r]` what the
driver is told. What the steps do is in the other modules. `CallReturns` uses what each service may answer
(`AnswersOf`).

## 4. Runs

Passing runs:

| Run | Instance | What it shows | States, time |
|-----|----------|---------------|--------------|
| reservation_contended | 2 drivers, 1 spot, 2 rows, 2 handlers, 1 worker | spot column, lifecycle, the inductive invariant, refinement of SpotInventory | 1.05 M, 70 s |
| reservation_retry | 1 driver, 2 keys, 2 spots, 2 handlers, no worker | one active reservation per driver, one row per key | 0.45 M, 15 s |
| reservation_timeouts | 2 drivers, 1 spot, 1 handler, 1 worker | a scheduled timeout does its work | 72 k, 30 s |
| payment_safety | 2 payments, 3 handlers, 3 attempts, all faults but lost answers | books, exclusion, lifecycle | 7.1 k, 2 s |
| payment_settle | 2 payments, 2 handlers, refused and lost gateway calls | every payment leaves its intermediate status | 210 k, 40 s |
| billing_calls | 1 record, 3 handlers, booking fees 5000 and 0, the 16 sessions of four instants, all four methods | no lost update, lifecycle, invoices are final, a record charges the tariff of its own session | 419 k, 35 s |
| system | 1 reservation, 2 goroutines that serve clients and tasks, the migration's CHECK, a gateway that does not fail, callers that leave | a confirmed reservation has paid and a completed one is settled unless a leaving caller cut its payment off, the fee is billed, the inductive invariant | 0.75 M, 55 s |
| search_sync | 1 spot, 2 keys, 2 publishers, 2 replicas, 2 changes, every fault | bounded staleness, the newest event is under way, catching up | 0.5 M, 75 s |
| service_lifecycle | 7 services, 1 stop, 2 messages, 2 deliveries, 1 other replica | what is acknowledged is done, and counted once per delivery; a replica keeps its order; workers keep their resources; events settle; a signalled process ends | 0.93 M, 140 s |
| request_answers | 2 requests of every command, threshold 2, 2 tokens | refusals have changed nothing, honest buckets, half-open breakers get a verdict | 370 k, 70 s |

Runs whose violation is a finding: reservation_leak, booking_unpaid (section 7).

*Why the bounds suffice.* Two handlers on one row are what every check-then-act race of this code needs; the third
handler of payment and billing lets two contenders meet what a third has left. Two rows on one spot let a spot be given
back and taken again while a slow method still refers to the first. One reservation and two goroutines in `system` let
two confirmations, or a check-out and its completion, or a method and a timeout overlap; more reservations share nothing
but their spot, which `reservation_contended` covers. In SearchReadModel two changes make an overtaking, two replicas
make a redelivery concurrent with a newer message, one tick each for TTL and fill is enough to tell "expires" from
"stays". The bounds on data are `Reservations` (inserts), `MaxRefunds` (lost refunds), `MaxChanges`, `MaxDeliver` (5 in
the code, 2 here) and `Attempts` (3 as in the code, 1 in `system`, where the gateway fails only by a context that has ended). In
`service_lifecycle` one stop (a signal, a failing server, a crash, a step of `run()` that fails) and the restart that
follows suffice for a delivery to be repeated over the stop, two messages for one to overtake the other, two deliveries
to tell "again" from "given up". The other replica has at most one message in hand, in analytics and while every event
parses (`OthersHoldOne`, a state constraint): enough for it to overtake and be overtaken; the constraint cuts steps of the
other replica only, of which no fairness speaks. In `system` a goroutine whose caller has gone serves out its call before
the caller's goroutine begins a new method (`OneGoroutinePerCaller`, a state constraint; without it the run has 2.0 M
states, takes 150 s and finds no error either). In `request_answers` two requests let one meet the bucket, the open breaker or the
probe of the other; threshold 2 (5 in the code) separates the first failure from the one that trips, and `Burst`, `Rate`
and `Interval` keep the code's relation that an idle bucket has long been full (200 tokens, 100 a second, five minutes).

*Deadlock* is checked except in payment and billing, whose work ends when all is settled or invoiced, and in
`service_lifecycle`, where a process whose stop is used up rests when it has handled its messages.

*Symmetry* is used where only safety is checked. The run `reservation_retry` has a state constraint, too: without workers
nothing reads the tasks, so it explores the behaviours in which every enqueue fails; no step of the others has another
effect on rows.

*Mutants.* Next to the definition it changes, each module keeps operators commented `Mutant`: a plausible bug each. Every
property of every passing run is violated under at least one of them, so none holds for want of behaviour.

## 5. Fairness

- Reservation: a task that a worker has taken goes on, because asynq gives every task a timeout of its own, whose end ends
  the statements and calls of the handler, and asynq runs a due task. A method that a client has called may stand still for
  ever: its calls have no deadline (section 7). Calls, crashes and lock expiry have no fairness either. `ScheduledTimeoutsWork` needs weak fairness per reservation and kind of task
  over all workers: the worker that takes it may die, another will take it. asynq archives only what keeps failing;
  `ArchiveTask` therefore needs a refused transition. That the retries suffice for a database outage is assumed.
- Payment: a method that has begun goes on. With crashes allowed, nothing would settle: `payment_settle` has none.
- SearchReadModel: a publication happens or fails, JetStream delivers, callbacks and fills end (their contexts have
  deadlines), time passes. Nobody is made to read or to book.
- EventConsumers: `run()` goes on, the server and the worker do, JetStream delivers, AckWait ends, callbacks end (their
  statements have deadlines), all of them in the process that is followed: the other replicas may stand still. Signals, failures, crashes, the deadline of the hooks and publications have no fairness.
- RequestPath: a call to another service ends, with its answer or with the connection; nothing else has to happen. The
  calls have no deadline of their own, so this is an assumption about the service called (section 7).

## 6. Proofs

All theorems are checked by TLAPS to the last leaf, for any number of spots, drivers, handlers, workers, keys and retries.

**Reservation_proofs.** `IInv` joins the types, `RowsComplete` (an absent row has no columns), `MethodConsistent` (what
a goroutine knows at each label: that its row exists, and that after an insert it has its own key) and the three safety
properties. The properties are not inductive alone: that a commit frees the right spot needs to know that the row the
goroutine remembers exists and keeps its spot. `DatabaseStep` is the heart: the statements of any transaction, applied
to rows that satisfy the invariant, keep spots and rows in agreement; each action is then shown to be one of few kinds
of database step. From `Invariance` follow `TypesHold` (in Payment_proofs and Billing_proofs too), `SpotsAreTruthful`,
`DriversHaveOneReservation`, `CreationIsIdempotent`, `LifecycleIsFollowed`, and `ImplementsInventory`, the refinement of
`SpotInventory`.

**Payment_proofs.** `IInv` adds `HandlerKnows`: between two statements a handler knows the status of its row and what the
gateway has booked. `OneHandlerPerPayment` makes it stable: nobody else writes meanwhile. The theorems assume
`Answered`, that no answer of the gateway is lost; without it they are false (section 7).

**Billing_proofs.** `IInv` adds `CopyIsVersion`: a copy is the row or is older, and equal versions mean equal contents.
From it `NoWriteIsLost`, `LifecycleHolds` and `InvoicesAreFinal`.

`HandlerServes` (of both services) and `NothingIsLeftPending` (of Payment) say what callers may rely on: the first under
any fault, the second where nothing fails and no caller leaves. The composition cannot use the second, as its callers do
leave; `UncutIsWorkedOn` takes its place there.

**ParkirPintar_proofs.** `SystemImplementsReservation`, `SystemImplementsBilling` and `SystemImplementsPayment`: each step
of the composition is a step of each of the three services or leaves it alone. What is proved of a service therefore holds
of it in the system, whatever its callers do: die, give up, call twice. That a request is one the service describes needs
`IInv` of Reservation: a caller at a remote call has a reservation.

The safety of the system is in the same module. The proofs of Billing and Payment are instantiated at the constants and
variables of the system. `SystemInv` (which the run `system` checks) relates the tables of the three services: a
confirmed reservation has a record and a payment, a completed one an invoice, a charged session an invoice. It is
inductive with two more facts: what a goroutine has learnt from the answers it got (`LearntBilled`, `LearntInvoiced`,
`LearntPaid`), which stays true because rows are never deleted and invoices stay invoices, and `ServedAsAsked`, that an
answer is to the question the caller has asked. `StepsAreGood` reduces each kind of step to three kinds of effect
(`BillingMoves`, `PaymentMoves`, `CallersMove`), and `MovesPreserve` shows once that these keep the invariant.
`SystemInvariance` and `TheBookingFeeIsBilled` hold under any fault; `ConfirmedReservationsPaid` and
`CompletedReservationsSettled` assume `PaymentsReliable` (the payment service fails by nothing but the end of a context,
and the CHECK is the migration's), without which the first is false (section 7). Callers leave at any moment all the same.
The argument is `UncutIsWorkedOn`: a payment that no leaving caller has cut off, and whose row exists, is paid, or some
goroutine of the payment service is at a step from which it will be. A step in time keeps it, because nothing fails then
(`InTimeMoves`); a step out of time cuts the payment off and takes it out of the claim. With `LearntPaid`, that whoever
confirmed had a row for an answer, a payment nobody works on and nobody cut off is paid (`PaidWhenDone`). Assumed of the constants: fees are natural numbers, and
`None` is no value of a table.

The last part joins what is proved of the services: `SystemIsACarPark` (the composition implements `SpotInventory`),
`NobodyPaysTwice` (each fee of a reservation is charged once at most, under `Answered` of Payment) and
`InvoicesNeverChange`: nobody in the system is ever at ApplyOvernightFee, the one call that may change an invoice.

**SessionBilling_proofs.** `FeeIsTariff`: for sessions that begin and end at any second the division of the code charges
what counting charges. The quotient is characterised by its two inequalities, and the hours and midnights counted are
shown to be an interval. `FeeGrowsWithTime` and `SplittingNeverPays` rest on the same inequalities. `FeesAreTheTariff`
joins them to the service: `ChargedInv` says that a record that is not pending charges the fee of the session in
`billed`, but for the night ApplyOvernightFee may have added. It needs `IInv` of Billing: a write goes through only if
the copy is the row (`UpdateReplacesCopy`), so a calculation meets a pending record and an overnight fee one that has
been charged for the same session or for none yet; `OneCharges` says that one step charges one record. Assumed: the
instants are natural numbers and each session fee is that of two of them.

**SearchReadModel_proofs.** The types need what a callback has in hand: `todo[c]` holds keys of the spot of its message
only, and messages that wait have deliveries left. `AnswersStayRecent` adds that what an answer has left and its age
share the TTL and the time of a fill between them. For `StaleAnswersWillGo` each step is shown either to leave an answer
suspected (some callback or redelivery is about to delete it) or to excuse it. `NewestEventStaysUnderWay` needs
`EventsAreCommitted` (an event under way is of a change that was committed, and the event with the number of the last
change has its status) and that a row with the newest number has the newest status. `AnswersTellTheTruth` joins
the two: with the bus at rest an answer shows what was committed. All hold under any set of faults and for any number of
replicas, readers, publishers and keys.

**EventConsumers_proofs.** The invariant relates JetStream's book to the callback: a message is acknowledged by the
process only behind its statement, each statement belongs to a delivery (`tries`), and an exit empties what is in
memory. The process part needs that hooks close in the order of the sequence: that the asynq server is before what its
handlers use is read off `HookOrder`. `AtMostOncePerDelivery` counts, over all
replicas, the places at which a message is in hand (`Held`): handing a message from the buffer to the callback is an
injection between the two sets of places. `ReplicasKeepTheirOrder` shows that a replica takes a snapshot back behind its
own write only when an older message is delivered again: JetStream delivers for the first time in the order of publication,
whichever replica asks (`BookInOrder`), and what a replica holds or wrote was delivered (`DeliveredTo`), so a message at its
first delivery is newer than all the replica had before (`FirstsInOrder`). Between replicas there is no such order
(section 7).

**RequestPath_proofs.** `HonestInv` says of each bucket that it holds no more than the ideal one, and that the ideal one
is full or has got `Rate` tokens for every tick it was idle; `LimiterAssumption`, that two intervals fill a bucket, then
makes deletion harmless. `RequestInv` says at which places and steps a request cannot have changed anything yet, which
codes are left for a request that has, and that those are not among the statuses of `RefusalsChangeNothing`. `ProbeInv`
says that what a breaker has admitted in this generation is a call to its service under way, so a half-open breaker
waits for one call (`HalfOpenWaitsForOneCall`); that the call ends, and with it `HalfOpenIsLeft`, is fairness.

Every safety and action property of the runs that pass is stated by a theorem. Only model-checked are the liveness
properties, whose fairness and ENABLED are out of the prover's reach: `ScheduledTimeoutsWork`, `PaymentsSettle`,
`CachesCatchUp`, `CleanRowsCatchUp`, `EventsSettle`, `SignalledProcessEnds` and `HalfOpenIsLeft`.

Three of them say less than their names may suggest. `CleanRowsCatchUp`, like the safety property
`NewestEventStaysUnderWay`, is about rows whose newest event was not overtaken (`clean`). `EventsSettle` counts an event
given up after its last delivery as settled. `PaymentsSettle` is about a gateway that fails and answers that are lost:
after a failed write of the gateway's answer a payment does stay `pending`, and after a failed revert `refunding`.

## 7. Where code and documentation disagree

Two disagreements are runs with a counterexample:

- *reservation_leak.* Both timeouts are scheduled after the commit, best effort (`usecase.go:190,199`). If the process
  dies in between or Redis refuses, the spot stays reserved for ever; the polling fallback of `README.md:136` does not
  exist.
- *booking_unpaid.* ProcessPayment returns a failed payment without error and the caller looks at the id only, so a
  reservation is confirmed without its booking fee (`payment usecase.go:109`, `gateway/grpc/payment.go:52`).
  It needs no refused charge: a driver who leaves ends the context of the charge, whose payment becomes failed
  (`payment usecase.go:78-88`), or that of the write of its success, which leaves it pending (`:118`), and the next
  confirmation, or the next CompleteCheckout, gets that row without an error (`:38-40`). The properties of `system` except
  exactly these payments (`cut`); the session fee of a completed reservation can be left unpaid in the same way.

Others, met while modelling:

- RefundPayment writes `refunding`, which the CHECK of the migration (line 117) does not let in, so no refund succeeds.
- failReservationInternal frees a spot without an event; the read model keeps showing it as reserved.
- A charge is retried without a key of its own, so a lost answer charges twice (`payment usecase.go:68-76`).
- The success of a charge is written with the caller's context (`payment usecase.go:118`); if that has ended the row stays
  pending, against `payment.md:126`. A caller that gives up fails the reservation while the charge goes through.
- The loser of two confirmations refunds the payment both share (`usecase.go:272`); the refused refund hides it.
- CheckOut commits before it knows the fee; if billing fails then, CheckOut is refused and CompleteCheckout finds no
  invoice (`usecase.go:504`), against "checkout returns error but reservation stays intact"
  (`clarification-specs.md:250`).
- The total includes the booking fee that was paid at confirmation (`clarification-specs.md:104-114`).
- The expiry runs from creation, not from confirmation (`usecase.go:190`, `clarification-specs.md:75,80`).
- ApplyOvernightFee changes an invoiced record (`billing usecase.go:130`, `billing.md:88-89`), which `InvoiceIsFinal`
  allows; of two concurrent
  GenerateInvoice calls one fails (`billing.md:95`); `paid` is never written (`billing.md:87`).
- Payment events carry no reservation id (`payment usecase.go:99-102,123-126`), so their consumer can act on none.
- SKIP LOCKED and the advisory-lock fallback of `sequence-diagrams.md:82-96` are absent; a retry with the same key may get
  409 while the first call holds the lock.
- The idempotency interceptor is not wired and replays nothing (`clarification-specs.md:213`).
- Shutdown closes the database first (`cmd/search/main.go:105`), against `clarification-specs.md:251` and
  `docs/development/shared-packages.md:199`. An event that is delivered meanwhile is nacked without delay and may use up
  its deliveries; the reservation service closes its asynq client before PostgreSQL, so a creation in flight may lose
  its timeouts.
- `docs/adr/0003` (lines 25, 48) asks consumers to be idempotent; RecordEvent inserts again, and a redelivered older
  snapshot overwrites a newer one (`analytics/repository/repository.go:101`). Two replicas share the consumer, so it needs
  no redelivery: one takes the older event, the other takes and writes the newer one first, and the snapshot stays behind
  although both events were delivered once.
- Durable consumers start with DeliverNew: what was published before they were first created is never delivered. Search
  and analytics configure the stream RESERVATION_SEARCH differently; the one that starts last wins.
- The asynq server may be started after Shutdown has left it alone as new, and its workers are then stopped by nobody.
- The breaker counts every error as a failure, a NotFound or an expired token too; calls have no deadline (against
  `clarification-specs.md:248`), so a probe that hangs keeps the breaker half-open. Refunds go through the breaker of
  payments, all callers of one host share a bucket.
- `cfg.GRPC.Server.RequestTimeout` is passed to `grpcserver.New` as the timeout of the shutdown; requests have none.
- The errors `ErrConcurrentModification` of billing's repository and `ErrStatusMismatch` of payment's are not the ones
  `mapError` compares with (`billing/handler/grpc/errors.go:29`, `payment/handler/grpc/errors.go:25`): both become
  Internal.
- `docs/services/reservation.md:137` maps a refused transition to FailedPrecondition; the usecase makes it a BadRequest,
  which becomes InvalidArgument (`usecase.go:365`). The 422 of PredictResources becomes Internal.
- The default of GRPC_PRESENCE_TARGET in the reservation service is the port of analytics; that connection is never
  closed.
- A comment (`usecase.go:301`) says the hold handler skips a confirmed reservation; it fails and is retried.

## 8. Not modelled

- The idempotency interceptor: no service chains it, so no behaviour of the system has it.
- Health checks: concurrent pings under one deadline; no state outlives one and nothing waits for one.
- Analytics queries and the forecast: floating-point statistics over rows that do not change; as requests they are
  queries.
- The event bus: the deduplication window (message ids are published once or carry a time), MaxAge and limits of streams.
- Presence: the comparison of a sensor with the spot only sets a warning. CORS, security headers, tracing, recovery.
- Amounts in Payment (a row's amount never changes), timestamps, response bodies, the delays of retries.
- I/O wrappers of libraries, configuration, telemetry, generated code, frontend, deployment.

The database is serialisable where a transaction locks its row; PostgreSQL, Redis and JetStream do not lose what they
acknowledged.

## 9. Running

    tlc -workers 2 -config MCReservation_contended.cfg MCReservation
    tlapm Reservation_proofs.tla
