---------------------------- MODULE SearchReadModel ----------------------------
(***************************************************************************)
(* How a change of a spot reaches the answers of the search service: the   *)
(* reservation service commits it and then publishes an event, JetStream   *)
(* delivers the event at least once, a consumer of the search service      *)
(* (internal/search) upserts its read model and deletes the cached answers *)
(* about the spot, and readers fill the Redis cache from the read model.   *)
(*                                                                         *)
(* Changes of a spot are numbered, so that an event says which change it   *)
(* is about; the program has no such number.  Time passes in ticks, as far *)
(* as the TTL of the cache and the timeout of a fill need it.              *)
(***************************************************************************)
EXTENDS ReservationStatus, Naturals, Sequences, SequencesExt

CONSTANTS
    Spots,
    Keys,         \* of the Redis cache: availability:<type> and floormap:<floor>
    KeysOf,       \* KeysOf[s]: the two keys of a spot, in the order of deletion
    Publishers,   \* goroutines of the reservation service
    Replicas,     \* of the search service, each with one consumer callback
    Readers,      \* those that serve read calls
    CacheTTL,     \* cacheTTL, in ticks
    FillTime,     \* singleflightTimeout, in ticks
    MaxDeliver,   \* deliveries of a message JetStream attempts
    Faults,       \* what may go wrong
    MaxChanges,   \* bound on the changes of a spot
    None

\* publish: an event is not published; database: an upsert fails; redis: a
\* command fails; ack: an ack is lost or late; crash: a replica dies.
Fault == {"publish", "database", "redis", "ack", "crash"}

ASSUME KeysOfAssumption == KeysOf \in [Spots -> Keys \X Keys]
ASSUME ReadersAssumption == Readers \subseteq Replicas
ASSUME TimeAssumption == CacheTTL \in Nat \ {0} /\ FillTime \in Nat \ {0}
ASSUME BoundsAssumption == MaxDeliver \in Nat \ {0} /\ MaxChanges \in Nat
ASSUME FaultsAssumption == Faults \subseteq Fault

VARIABLES
    truth,    \* truth[s]: the committed status of a spot and its change number
    pub,      \* pub[p]: the event p is about to publish
    stream,   \* messages not delivered yet
    again,    \* messages to be delivered again
    hand,     \* hand[c]: the message the callback of replica c works on
    todo,     \* todo[c]: cache keys it has still to delete
    stage,    \* stage[c]: the statement it is at
    rows,     \* rows[s]: the row of the read model
    cache,    \* cache[k]: the cached answer
    fill,     \* fill[c][k]: the singleflight of replica c for key k
    clean     \* clean[s]: no event of s was lost or overtaken (auxiliary)

busVars   == <<pub, stream, again, clean>>
callVars  == <<hand, todo, stage>>
vars      == <<truth, busVars, callVars, rows, cache, fill>>

Change  == [status : SpotStatus, n : 0..MaxChanges]
Message == [spot : Spots, status : SpotStatus, n : 0..MaxChanges, times : 0..MaxDeliver]

ASSUME NoneAssumption == None \notin Message

About(k)    == {s \in Spots : k \in {KeysOf[s][1], KeysOf[s][2]}}
Snapshot(k) == [s \in About(k) |-> rows[s].status]

Init ==
    /\ truth  = [s \in Spots |-> [status |-> "available", n |-> 0]]
    /\ rows   = truth
    /\ pub    = [p \in Publishers |-> None]
    /\ stream = <<>>
    /\ again  = {}
    /\ hand   = [c \in Replicas |-> None]
    /\ todo   = [c \in Replicas |-> <<>>]
    /\ stage  = [c \in Replicas |-> "idle"]
    /\ cache  = [k \in Keys |-> None]
    /\ fill   = [c \in Readers |-> [k \in Keys |-> None]]
    /\ clean  = [s \in Spots |-> TRUE]

Soil(s) == clean' = [clean EXCEPT ![s] = FALSE]

------------------------------------------------------------------------------
(* The reservation service                                                 *)

\* The statuses one transaction of Reservation takes a spot to.
MovesTo(st) == CASE st = "available" -> {"reserved"}
                 [] st = "reserved"  -> {"occupied", "available"}
                 [] st = "occupied"  -> {"available"}

Commit(s, st) ==
    /\ truth[s].n < MaxChanges
    /\ st \in MovesTo(truth[s].status)
    /\ truth' = [truth EXCEPT ![s] = [status |-> st, n |-> @.n + 1]]

\* A method commits; it will publish the status it has written.
CommitChange(p, s, st) ==
    /\ pub[p] = None
    /\ Commit(s, st)
    /\ pub' = [pub EXCEPT ![p] = [spot |-> s, status |-> st,
                                  n |-> truth[s].n + 1, times |-> 0]]
    /\ UNCHANGED <<stream, again, clean, callVars, rows, cache, fill>>

\* failReservationInternal frees the spot and publishes nothing.
FailInternal(s) ==
    /\ truth[s].status = "reserved"
    /\ Commit(s, "available")
    /\ Soil(s)
    /\ UNCHANGED <<pub, stream, again, callVars, rows, cache, fill>>

PublishSpotUpdated(p) ==
    /\ pub[p] # None
    /\ \/ stream' = Append(stream, pub[p]) /\ UNCHANGED clean
       \/ "publish" \in Faults /\ Soil(pub[p].spot) /\ UNCHANGED stream
    /\ pub' = [pub EXCEPT ![p] = None]
    /\ UNCHANGED <<truth, again, callVars, rows, cache, fill>>

------------------------------------------------------------------------------
(* JetStream and the consumer callback                                     *)

\* An answer that no pending deletion will remove any more.
Excuse(ks) == cache' = [k \in Keys |-> IF k \in ks /\ cache[k] # None
                                       THEN [cache[k] EXCEPT !.excused = TRUE]
                                       ELSE cache[k]]

\* Mutant: a message is delivered for as long as it is not acked.
RedeliverForever(c) == again' = again \cup {hand[c]} /\ UNCHANGED <<clean, cache>>

\* The message in hand will be delivered again, or is given up with what the
\* callback has not done yet.
Redeliver(c) ==
    IF hand[c].times < MaxDeliver
    THEN again' = again \cup {hand[c]} /\ UNCHANGED <<clean, cache>>
    ELSE /\ IF stage[c] = "upsert"
            THEN Soil(hand[c].spot) /\ Excuse(ToSet(KeysOf[hand[c].spot]))
            ELSE UNCHANGED clean /\ Excuse(ToSet(todo[c]))
         /\ UNCHANGED again

Free(c) == /\ hand'  = [hand EXCEPT ![c] = None]
           /\ todo'  = [todo EXCEPT ![c] = <<>>]
           /\ stage' = [stage EXCEPT ![c] = "idle"]

Take(c, m) == /\ stage[c] = "idle"
              /\ hand'  = [hand EXCEPT ![c] = [m EXCEPT !.times = @ + 1]]
              /\ stage' = [stage EXCEPT ![c] = "upsert"]
              /\ UNCHANGED <<truth, pub, clean, todo, rows, cache, fill>>

Deliver(c) ==
    \/ /\ stream # <<>>
       /\ Take(c, Head(stream))
       /\ stream' = Tail(stream)
       /\ UNCHANGED again
    \/ \E m \in again : Take(c, m) /\ again' = again \ {m} /\ UNCHANGED stream

\* Mutant: the floor map is forgotten.
UpsertSpotHalf(c) ==
    LET m == hand[c] IN
    /\ stage[c] = "upsert"
    /\ rows'  = [rows EXCEPT ![m.spot] = [status |-> m.status, n |-> m.n]]
    /\ clean' = [clean EXCEPT ![m.spot] = @ /\ rows[m.spot].n <= m.n]
    /\ todo'  = [todo EXCEPT ![c] = <<KeysOf[m.spot][1]>>]
    /\ stage' = [stage EXCEPT ![c] = "delete"]
    /\ UNCHANGED <<truth, pub, stream, again, hand, cache, fill>>

\* UpsertSpot: the row gets the status of the event, whichever is newer.
UpsertSpot(c) ==
    LET m == hand[c] IN
    /\ stage[c] = "upsert"
    /\ rows'  = [rows EXCEPT ![m.spot] = [status |-> m.status, n |-> m.n]]
    /\ clean' = [clean EXCEPT ![m.spot] = @ /\ rows[m.spot].n <= m.n]
    /\ todo'  = [todo EXCEPT ![c] = KeysOf[m.spot]]
    /\ stage' = [stage EXCEPT ![c] = "delete"]
    /\ UNCHANGED <<truth, pub, stream, again, hand, cache, fill>>

\* Mutant: the message is acked although the upsert failed.
UpsertFailsAcked(c) ==
    /\ stage[c] = "upsert"
    /\ "database" \in Faults
    /\ Free(c)
    /\ UNCHANGED <<truth, busVars, rows, cache, fill>>

\* The upsert fails and the message is nacked.
UpsertFails(c) ==
    /\ stage[c] = "upsert"
    /\ "database" \in Faults
    /\ Redeliver(c)
    /\ Free(c)
    /\ UNCHANGED <<truth, pub, stream, rows, fill>>

\* A key is deleted; a failure is logged only.
DeleteKey(c) ==
    /\ stage[c] = "delete"
    /\ todo[c] # <<>>
    /\ \/ cache' = [cache EXCEPT ![Head(todo[c])] = None]
       \/ "redis" \in Faults /\ Excuse({Head(todo[c])})
    /\ todo' = [todo EXCEPT ![c] = Tail(@)]
    /\ UNCHANGED <<truth, busVars, hand, stage, rows, fill>>

\* The ack, which may be lost or come after AckWait.
Ack(c) ==
    /\ stage[c] = "delete"
    /\ todo[c] = <<>>
    /\ \/ UNCHANGED <<again, clean, cache>>
       \/ "ack" \in Faults /\ Redeliver(c)
    /\ Free(c)
    /\ UNCHANGED <<truth, pub, stream, rows, fill>>

\* A replica dies with the message it works on and its fills.
Crash(c) ==
    /\ "crash" \in Faults
    /\ IF stage[c] = "idle" THEN UNCHANGED <<again, clean, cache>> ELSE Redeliver(c)
    /\ Free(c)
    /\ fill' = [d \in Readers |-> IF d = c THEN [k \in Keys |-> None] ELSE fill[d]]
    /\ UNCHANGED <<truth, pub, stream, rows>>

------------------------------------------------------------------------------
(* Readers                                                                 *)

\* The key is not cached, or Redis fails: the first caller of the replica
\* queries the read model; the others wait for it.  A caller who finds a cached
\* answer changes nothing.
BeginFill(c, k) ==
    /\ fill[c][k] = None
    /\ cache[k] = None \/ "redis" \in Faults
    /\ fill' = [fill EXCEPT ![c][k] = [shows |-> Snapshot(k), left |-> FillTime, age |-> 0]]
    /\ UNCHANGED <<truth, busVars, callVars, rows, cache>>

\* Mutant: the answer is cached without an expiration.
CacheAnswerForever(c, k) ==
    cache' = [cache EXCEPT ![k] = [shows |-> fill[c][k].shows, left |-> 0,
                                   age |-> fill[c][k].age,
                                   excused |-> fill[c][k].shows # Snapshot(k)]]

\* redis.Set of an answer that may have been overtaken by an event.
CacheAnswer(c, k) ==
    cache' = [cache EXCEPT ![k] = [shows |-> fill[c][k].shows, left |-> CacheTTL,
                                   age |-> fill[c][k].age,
                                   excused |-> fill[c][k].shows # Snapshot(k)]]

\* The fill ends; Redis or the query may have failed.
EndFill(c, k) ==
    /\ fill[c][k] # None
    /\ CacheAnswer(c, k) \/ ("redis" \in Faults /\ UNCHANGED cache)
    /\ fill' = [fill EXCEPT ![c][k] = None]
    /\ UNCHANGED <<truth, busVars, callVars, rows>>

MaxAge == FillTime + CacheTTL   \* ages are not counted beyond it

Older(x, k) == [x EXCEPT !.left = IF @ = 0 THEN 0 ELSE @ - 1,
                         !.age  = IF x.shows = Snapshot(k) THEN 0
                                  ELSE IF @ = MaxAge THEN @ ELSE @ + 1]

\* Time passes: no fill outlives its timeout, and Redis drops a key after its
\* TTL (a key without one stays).
Tick ==
    /\ \A c \in Readers, k \in Keys : fill[c][k] # None => fill[c][k].left > 0
    /\ fill' = [c \in Readers |-> [k \in Keys |->
                   IF fill[c][k] = None THEN None ELSE Older(fill[c][k], k)]]
    /\ cache' = [k \in Keys |->
                   IF cache[k] = None \/ cache[k].left = 1 THEN None ELSE Older(cache[k], k)]
    /\ UNCHANGED <<truth, busVars, callVars, rows>>

------------------------------------------------------------------------------
Handle(c) == UpsertSpot(c) \/ UpsertFails(c) \/ DeleteKey(c) \/ Ack(c)

Next ==
    \/ \E s \in Spots : \/ \E p \in Publishers, st \in SpotStatus : CommitChange(p, s, st)
                        \/ FailInternal(s)
    \/ \E p \in Publishers : PublishSpotUpdated(p)
    \/ \E c \in Replicas : Deliver(c) \/ Handle(c) \/ Crash(c)
    \/ \E c \in Readers, k \in Keys : BeginFill(c, k) \/ EndFill(c, k)
    \/ Tick

Spec == Init /\ [][Next]_vars

\* A method publishes, the bus delivers, callbacks and fills end (their contexts
\* have deadlines) and time passes.  Nothing makes anybody read or book.
Fairness ==
    /\ \A p \in Publishers : WF_vars(PublishSpotUpdated(p))
    /\ \A c \in Replicas : WF_vars(Deliver(c) \/ Handle(c))
    /\ \A c \in Readers, k \in Keys : WF_vars(EndFill(c, k))
    /\ WF_vars(Tick)

FairSpec == Spec /\ Fairness

------------------------------------------------------------------------------
(* Properties                                                              *)

Fresh(x, k) == x.shows = Snapshot(k)

\* What an answer under key k may show.
Views(k) == [About(k) -> SpotStatus]

TypeOK ==
    /\ truth  \in [Spots -> Change]
    /\ rows   \in [Spots -> Change]
    /\ pub    \in [Publishers -> Message \cup {None}]
    /\ stream \in Seq(Message)
    /\ again  \subseteq Message
    /\ hand   \in [Replicas -> Message \cup {None}]
    /\ todo   \in [Replicas -> Seq(Keys)]
    /\ stage  \in [Replicas -> {"idle", "upsert", "delete"}]
    /\ DOMAIN cache = Keys
    /\ \A k \in Keys : cache[k] # None =>
           cache[k] \in [shows : Views(k), left : 0..CacheTTL, age : 0..MaxAge, excused : BOOLEAN]
    /\ DOMAIN fill = Readers
    /\ \A c \in Readers : DOMAIN fill[c] = Keys
    /\ \A c \in Readers, k \in Keys : fill[c][k] # None =>
           fill[c][k] \in [shows : Views(k), left : 0..FillTime, age : 0..MaxAge]
    /\ clean  \in [Spots -> BOOLEAN]

\* An answer from the cache is behind the read model by less than the time a
\* fill may take and the TTL together, whatever fails: deletions that Redis
\* refuses, callbacks that die, fills that store what an event has overtaken.
AnswersAreRecent ==
    \A k \in Keys : cache[k] # None => cache[k].age < MaxAge

\* An answer that was cached in time becomes stale only while a consumer is
\* about to delete it, or will be after a redelivery.
StaleAnswersAreDoomed ==
    \A k \in Keys :
        cache[k] # None /\ ~Fresh(cache[k], k) /\ ~cache[k].excused =>
            \/ \E c \in Replicas : k \in ToSet(todo[c])
            \/ \E c \in Replicas : stage[c] = "upsert" /\ hand[c].spot \in About(k)
            \/ \E m \in again : m.spot \in About(k)

\* The event m has still to be applied.
UnderWay(m) ==
    \/ \E p \in Publishers : pub[p] = m
    \/ m \in ToSet(stream)
    \/ m \in again
    \/ \E c \in Replicas : stage[c] = "upsert" /\ hand[c] = m

\* m is the event of the newest change of s.
IsNewest(m, s) == m.spot = s /\ m.status = truth[s].status /\ m.n = truth[s].n

\* The row of a spot none of whose events was lost or overtaken shows what has been
\* committed, or the event of the very last commit is still to be applied: when the
\* bus has nothing left for the spot, its row is right.
NewestEventIsUnderWay ==
    \A s \in Spots : clean[s] /\ rows[s] # truth[s] =>
        \E m \in Message : UnderWay(m) /\ IsNewest(m, s)

\* When the changes end the cache comes to agree with the read model, whatever
\* failed before.
CachesCatchUp ==
    <>[](\A k \in Keys : cache[k] = None \/ Fresh(cache[k], k))

\* When the changes end the read model comes to show what the reservation
\* service has committed, unless an event was never published, was given up
\* after MaxDeliver deliveries, or was applied after a newer one.
CleanRowsCatchUp ==
    <>[](\A s \in Spots : clean[s] => rows[s] = truth[s])

=============================================================================
