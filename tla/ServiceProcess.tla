--------------------------- MODULE ServiceProcess ---------------------------
(***************************************************************************)
(* The process of a service (cmd/*/main.go): run() opens resources one by  *)
(* one, launches the server goroutine, waits for a signal or for the       *)
(* server, runs the shutdown hooks in the order of their registration and  *)
(* returns. A signal reaches the server and run() alike, so the hooks close*)
(* what the server still drains; the process ends with run().              *)
(***************************************************************************)
EXTENDS Integers, Sequences, FiniteSets

CONSTANT MaxStops       \* bound on signals, failures and crashes of the process

ASSUME MaxStopsAssumption == MaxStops \in Nat

VARIABLES svc,          \* the service, one of DOMAIN Startup
          phase,        \* where run() is
          opened,       \* how many steps of Startup[svc] are done
          open,         \* the resources that are open
          server,       \* the goroutine of grpcserver.Start or GracefulServer.Start
          signalled,    \* SIGTERM or SIGINT has come
          taken,        \* run() has taken the value of the channel serverErr
          worker,       \* a worker of the asynq server
          stops         \* history: the stops so far

processVars == <<svc, phase, opened, open, server, signalled, taken, worker, stops>>

\* The order in which each run() opens things. "telemetry" stands for providers,
\* tracer and metrics, "clients" for the gRPC connections the service needs, "tasks"
\* is the asynq client, "workers" the goroutine that starts the asynq server. What
\* is opened, and closed, one after the other is one: "stores" are PostgreSQL and,
\* where a service has it, Redis; analytics has two consumers.
ReservationStartup ==
    <<"telemetry", "stores", "clients", "tasks", "nats", "workers", "paymentConsumer">>

SearchStartup == <<"telemetry", "stores", "nats", "spotConsumer">>

AnalyticsStartup == <<"telemetry", "stores", "nats", "eventConsumers">>

PaymentStartup == <<"telemetry", "stores", "nats">>

BillingStartup == <<"telemetry", "stores">>

PresenceStartup == <<"telemetry">>

GatewayStartup == <<"telemetry", "clients", "analytics", "presence", "stores">>

Startup ==
    [reservation |-> ReservationStartup, search |-> SearchStartup,
     analytics |-> AnalyticsStartup, payment |-> PaymentStartup,
     billing |-> BillingStartup, presence |-> PresenceStartup,
     gateway |-> GatewayStartup]

\* What run() does without; anything else that cannot be opened makes it return.
Optional(s) == IF s = "gateway" THEN {"telemetry", "analytics", "presence", "stores"} ELSE {}

\* asynq connects when it is used.
NeverFails == {"tasks", "workers"}

\* The order in which each run() registers its hooks.
ReservationHooks ==
    <<"workers", "tasks", "stores", "clients", "telemetry", "paymentConsumer", "nats">>

SearchHooks == <<"stores", "spotConsumer", "nats", "telemetry">>

AnalyticsHooks == <<"stores", "eventConsumers", "nats", "telemetry">>

PaymentHooks == <<"stores", "nats", "telemetry">>

BillingHooks == <<"stores", "telemetry">>

PresenceHooks == <<"telemetry">>

GatewayHooks == <<"clients", "analytics", "presence", "telemetry", "stores">>

HookOrder ==
    [reservation |-> ReservationHooks, search |-> SearchHooks,
     analytics |-> AnalyticsHooks, payment |-> PaymentHooks,
     billing |-> BillingHooks, presence |-> PresenceHooks, gateway |-> GatewayHooks]

\* Mutant: the hooks as the service opens things.
IsNextInStartup(r) ==
    \E i \in 1..Len(Startup[svc]) :
        /\ Startup[svc][i] = r /\ r \in open
        /\ \A j \in 1..(i - 1) : Startup[svc][j] \notin open

\* r is open, and what has an earlier hook is not. Whatever is opened has a hook.
IsNextHook(r) ==
    \E i \in 1..Len(HookOrder[svc]) :
        /\ HookOrder[svc][i] = r /\ r \in open
        /\ \A j \in 1..(i - 1) : HookOrder[svc][j] \notin open

ProcessTypeOK ==
    /\ svc \in DOMAIN Startup
    /\ phase \in {"starting", "running", "stopping", "exited"}
    /\ opened \in 0..Len(Startup[svc])
    /\ open \subseteq {Startup[svc][i] : i \in 1..opened}
    /\ server \in {"none", "launched", "listening", "draining", "stopped", "failed"}
    /\ signalled \in BOOLEAN /\ taken \in BOOLEAN
    /\ worker \in {"none", "launched", "idle", "busy", "left", "stopped", "stray"}
    /\ stops \in 0..MaxStops

ProcessInit ==
    /\ svc \in DOMAIN Startup
    /\ phase = "starting" /\ opened = 0 /\ open = {} /\ server = "none"
    /\ signalled = FALSE /\ taken = FALSE
    /\ worker = "none" /\ stops = 0

Stop == stops < MaxStops /\ stops' = stops + 1

\* The process is gone, and what it had in memory.
Exits ==
    /\ phase' = "exited" /\ opened' = 0 /\ open' = {} /\ server' = "none"
    /\ signalled' = FALSE /\ taken' = FALSE /\ worker' = "none"
    /\ UNCHANGED svc

------------------------------------------------------------------------------
(* run(): opening                                                          *)

IsNext(r) == /\ phase = "starting" /\ opened < Len(Startup[svc])
            /\ r = Startup[svc][opened + 1]

Open(r) ==
    /\ IsNext(r)
    /\ opened' = opened + 1
    /\ open' = open \cup {r}
    /\ worker' = IF r = "workers" THEN "launched" ELSE worker
    /\ UNCHANGED <<svc, phase, server, signalled, taken, stops>>

GoOnWithout(r) ==
    /\ IsNext(r) /\ r \in Optional(svc)
    /\ opened' = opened + 1
    /\ UNCHANGED <<svc, phase, open, server, signalled, taken, worker, stops>>

CannotOpen(r) ==
    /\ IsNext(r) /\ r \notin Optional(svc) \cup NeverFails
    /\ Stop
    /\ Exits

Launch ==
    /\ phase = "starting" /\ opened = Len(Startup[svc])
    /\ phase' = "running"
    /\ server' = "launched"
    /\ UNCHANGED <<svc, opened, open, signalled, taken, worker, stops>>

------------------------------------------------------------------------------
(* The server goroutine, the asynq server and signals                      *)

Listen ==
    /\ server = "launched"
    /\ server' = "listening"
    /\ UNCHANGED <<svc, phase, opened, open, signalled, taken, worker, stops>>

\* The port is taken, or Serve returns an error.
ServerFails ==
    /\ server \in {"launched", "listening"}
    /\ Stop
    /\ server' = "failed"
    /\ UNCHANGED <<svc, phase, opened, open, signalled, taken, worker>>

\* GracefulStop: done before the timer, or Stop and an error.
DrainEnds(how) ==
    /\ server = "draining"
    /\ server' = how
    /\ UNCHANGED <<svc, phase, opened, open, signalled, taken, worker, stops>>

\* Before signal.NotifyContext a signal ends the process. A server goroutine
\* that does not listen yet misses it: nothing will make it drain.
Signal ==
    /\ phase \in {"starting", "running"} /\ ~signalled
    /\ Stop
    /\ IF phase = "starting" THEN Exits
       ELSE /\ signalled' = TRUE
            /\ server' = IF server = "listening" THEN "draining" ELSE server
            /\ UNCHANGED <<svc, phase, opened, open, taken, worker>>

Crash == phase # "exited" /\ Stop /\ Exits

\* The goroutine may run only after Shutdown found a server that is new and
\* left it alone: then it starts workers nobody stops.
WorkerStarts ==
    /\ worker = "launched"
    /\ worker' = IF "workers" \in open THEN "idle" ELSE "stray"
    /\ UNCHANGED <<svc, phase, opened, open, server, signalled, taken, stops>>

\* Shutdown stops the fetching of tasks before it waits.
WorkerTakes ==
    /\ worker = "idle" /\ phase # "stopping"
    /\ worker' = "busy"
    /\ UNCHANGED <<svc, phase, opened, open, server, signalled, taken, stops>>

WorkerEnds ==
    /\ worker = "busy"
    /\ worker' = "idle"
    /\ UNCHANGED <<svc, phase, opened, open, server, signalled, taken, stops>>

------------------------------------------------------------------------------
(* run(): shutdown                                                         *)

StopBegins ==
    /\ phase = "running"
    /\ \/ signalled /\ taken' = taken
       \/ server \in {"stopped", "failed"} /\ taken' = TRUE
    /\ phase' = "stopping"
    /\ UNCHANGED <<svc, opened, open, server, signalled, worker, stops>>

\* A hook; that of the asynq server waits for a task that is being worked on.
RunHook(r) ==
    /\ phase = "stopping" /\ IsNextHook(r)
    /\ r = "workers" => worker # "busy"
    /\ open' = open \ {r}
    /\ worker' = IF r = "workers" /\ worker = "idle" THEN "stopped" ELSE worker
    /\ UNCHANGED <<svc, phase, opened, server, signalled, taken, stops>>

\* asynq has waited long enough: the task goes back to its queue.
WorkerAbandoned ==
    /\ phase = "stopping" /\ worker = "busy"
    /\ IsNextHook("workers")
    /\ worker' = "left"
    /\ UNCHANGED <<svc, phase, opened, open, server, signalled, taken, stops>>

\* The context of the shutdown ends before the next hook: the others are skipped.
Deadline == phase = "stopping" /\ open # {} /\ Exits /\ UNCHANGED stops

\* Mutant: run() receives from serverErr without a default.
ReturnAfterServer ==
    /\ phase = "stopping" /\ open = {}
    /\ server \in {"stopped", "failed"} /\ ~taken
    /\ Exits /\ UNCHANGED stops

\* run() looks whether the server has ended, but does not wait for it.
Return == phase = "stopping" /\ open = {} /\ Exits /\ UNCHANGED stops

\* The container runtime starts the process again.
Restart ==
    /\ phase = "exited"
    /\ phase' = "starting"
    /\ UNCHANGED <<svc, opened, open, server, signalled, taken, worker, stops>>

Resources == UNION {{Startup[s][i] : i \in 1..Len(Startup[s])} : s \in DOMAIN Startup}

RunGoesOn ==
    \/ \E r \in Resources : Open(r) \/ GoOnWithout(r)
    \/ \E r \in open : RunHook(r)
    \/ Launch \/ StopBegins \/ Return \/ Restart

ServerGoesOn == Listen \/ \E how \in {"stopped", "failed"} : DrainEnds(how)

WorkerGoesOn == WorkerStarts \/ WorkerEnds \/ WorkerAbandoned

ProcessNext ==
    \/ RunGoesOn \/ ServerGoesOn \/ WorkerGoesOn \/ WorkerTakes \/ Deadline
    \/ \E r \in Resources : CannotOpen(r)
    \/ ServerFails \/ Signal \/ Crash

------------------------------------------------------------------------------
\* A task that a worker has begun and that Shutdown still waits for does not
\* lose the database, the locks, the queue or the services its handler calls:
\* the asynq server is the first to be stopped.
WorkersKeepTheirResources ==
    worker = "busy" => {"tasks", "stores", "clients"} \subseteq open

\* A service that is told to stop ends, whatever its server does: whether the
\* server heard the signal, still drains, or has failed before and was reported. Only
\* the end of the process takes the signal away, so it must not stay for ever.
SignalledProcessEnds == []<>(signalled => phase = "exited")
=============================================================================
