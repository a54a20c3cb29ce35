------------------------ MODULE SearchReadModel_proofs ------------------------
(***************************************************************************)
(* What SearchReadModel promises for any spots, keys, publishers, replicas *)
(* and readers, whatever fails.                                            *)
(***************************************************************************)
EXTENDS SearchReadModel, TLAPS

------------------------------------------------------------------------------
(* Sequences of keys                                                       *)

LEMMA FirstAndRest ==
    ASSUME NEW S, NEW q \in Seq(S), q # <<>>
    PROVE  /\ Head(q) \in S /\ Tail(q) \in Seq(S)
           /\ ToSet(q) = {Head(q)} \cup ToSet(Tail(q))
<1>1. Len(q) \in Nat \ {0} /\ DOMAIN q = 1..Len(q) /\ Head(q) = q[1]
    OBVIOUS
<1>2. /\ DOMAIN Tail(q) = 1..(Len(q) - 1)
      /\ \A i \in 1..(Len(q) - 1) : Tail(q)[i] = q[i + 1]
    OBVIOUS
<1>3. ToSet(q) \subseteq {Head(q)} \cup ToSet(Tail(q))
  <2> SUFFICES ASSUME NEW i \in 1..Len(q), i # 1
               PROVE  q[i] \in ToSet(Tail(q))
      BY <1>1 DEF ToSet
  <2>1. i - 1 \in DOMAIN Tail(q) /\ Tail(q)[i - 1] = q[i]
      BY <1>1, <1>2
  <2> QED BY <2>1 DEF ToSet
<1>4. {Head(q)} \cup ToSet(Tail(q)) \subseteq ToSet(q)
    BY <1>1, <1>2 DEF ToSet
<1>5. Head(q) \in S /\ Tail(q) \in Seq(S)
    OBVIOUS
<1> QED BY <1>3, <1>4, <1>5

LEMMA AppendedIsLast ==
    ASSUME NEW S, NEW q \in Seq(S), NEW m \in S
    PROVE  Append(q, m) \in Seq(S) /\ ToSet(Append(q, m)) = ToSet(q) \cup {m}
<1>1. /\ Append(q, m) \in Seq(S) /\ Len(q) \in Nat
      /\ DOMAIN q = 1..Len(q) /\ DOMAIN Append(q, m) = 1..(Len(q) + 1)
      /\ Append(q, m)[Len(q) + 1] = m /\ \A i \in 1..Len(q) : Append(q, m)[i] = q[i]
    OBVIOUS
<1> QED BY <1>1 DEF ToSet

LEMMA NothingLeft == ToSet(<<>>) = {}
BY DEF ToSet

\* The keys of a spot are those its answers are under.
LEMMA KeysOfSpot ==
    ASSUME NEW s \in Spots
    PROVE  /\ KeysOf[s] \in Seq(Keys)
           /\ ToSet(KeysOf[s]) = {k \in Keys : s \in About(k)}
<1>1. PICK a \in Keys, b \in Keys : KeysOf[s] = <<a, b>>
    BY KeysOfAssumption
<1>2. <<a, b>> \in Seq(Keys) /\ DOMAIN <<a, b>> = 1..2 /\ <<a, b>>[1] = a /\ <<a, b>>[2] = b
    OBVIOUS
<1>3. ToSet(<<a, b>>) = {a, b}
    BY <1>2 DEF ToSet
<1>4. \A k \in Keys : s \in About(k) <=> k \in {a, b}
    BY <1>1, <1>2 DEF About
<1> QED BY <1>1, <1>2, <1>3, <1>4

------------------------------------------------------------------------------
(* Types, the messages that wait, and what a callback has in hand          *)

Waiting == {m \in Message : m.times < MaxDeliver}

CallOK(c) ==
    /\ stage[c] # "idle" => hand[c] \in Message
    /\ stage[c] # "delete" => todo[c] = <<>>
    /\ stage[c] = "delete" => ToSet(todo[c]) \subseteq ToSet(KeysOf[hand[c].spot])

RowTypeOK == truth \in [Spots -> Change] /\ rows \in [Spots -> Change]

BusTypeOK ==
    /\ pub \in [Publishers -> Waiting \cup {None}]
    /\ stream \in Seq(Waiting) /\ again \subseteq Waiting
    /\ clean \in [Spots -> BOOLEAN]

CallTypeOK ==
    /\ hand \in [Replicas -> Message \cup {None}]
    /\ todo \in [Replicas -> Seq(Keys)]
    /\ stage \in [Replicas -> {"idle", "upsert", "delete"}]
    /\ \A c \in Replicas : CallOK(c)

CachedAnswer(k) == [shows : Views(k), left : 0..CacheTTL, age : 0..MaxAge, excused : BOOLEAN]

CacheTypeOK ==
    /\ DOMAIN cache = Keys
    /\ \A k \in Keys : cache[k] # None => cache[k] \in CachedAnswer(k)

Filling(k) == [shows : Views(k), left : 0..FillTime, age : 0..MaxAge]

FillTypeOK ==
    /\ DOMAIN fill = Readers
    /\ \A c \in Readers : DOMAIN fill[c] = Keys
    /\ \A c \in Readers, k \in Keys : fill[c][k] # None => fill[c][k] \in Filling(k)

LEMMA AnswerTypesAreConstant ==
    \A k : CachedAnswer(k)' = CachedAnswer(k) /\ Filling(k)' = Filling(k)
BY DEF CachedAnswer, Filling, Views, About, MaxAge

Types == RowTypeOK /\ BusTypeOK /\ CallTypeOK /\ CacheTypeOK /\ FillTypeOK

LEMMA TypesImplyTypeOK == Types => TypeOK
<1> SUFFICES ASSUME Types PROVE TypeOK OBVIOUS
<1>1. Waiting \subseteq Message /\ pub \in [Publishers -> Message \cup {None}] /\ again \subseteq Message
    BY DEF Types, BusTypeOK, Waiting
<1>2. stream \in Seq(Message)
    BY <1>1 DEF Types, BusTypeOK
<1> QED BY <1>1, <1>2 DEF Types, RowTypeOK, BusTypeOK, CallTypeOK, CacheTypeOK, FillTypeOK, TypeOK,
        CachedAnswer, Filling

LEMMA SnapshotIsView ==
    ASSUME RowTypeOK, NEW k \in Keys
    PROVE  Snapshot(k) \in Views(k)
BY DEF RowTypeOK, Snapshot, Views, About, Change

------------------------------------------------------------------------------
(* What the parts of the handlers do                                       *)

\* An answer that a step leaves in the cache is the one that was there, which may
\* have been excused.
AnswersKept ==
    /\ CacheTypeOK'
    /\ \A k \in Keys : cache'[k] # None =>
           /\ cache[k] # None
           /\ cache'[k].shows = cache[k].shows
           /\ cache'[k].left = cache[k].left /\ cache'[k].age = cache[k].age
           /\ cache[k].excused => cache'[k].excused

LEMMA SameCache ==
    ASSUME CacheTypeOK, UNCHANGED cache
    PROVE  AnswersKept
BY AnswerTypesAreConstant DEF CacheTypeOK, AnswersKept

LEMMA ExcuseKeeps ==
    ASSUME CacheTypeOK, NEW ks, Excuse(ks)
    PROVE  AnswersKept /\ \A k \in Keys : k \in ks /\ cache'[k] # None => cache'[k].excused
<1>1. ASSUME NEW k \in Keys, cache'[k] # None
      PROVE  /\ cache[k] # None /\ cache'[k] \in CachedAnswer(k)
             /\ cache'[k].shows = cache[k].shows
             /\ cache'[k].left = cache[k].left /\ cache'[k].age = cache[k].age
             /\ cache[k].excused => cache'[k].excused
             /\ k \in ks => cache'[k].excused
  <2>1. CASE k \in ks /\ cache[k] # None
    <3>1. cache'[k] = [cache[k] EXCEPT !.excused = TRUE]
        BY <2>1 DEF Excuse
    <3>2. cache[k] \in CachedAnswer(k)
        BY <2>1 DEF CacheTypeOK
    <3> QED BY <2>1, <3>1, <3>2 DEF CachedAnswer
  <2>2. CASE ~(k \in ks /\ cache[k] # None)
    <3>1. cache'[k] = cache[k]
        BY <2>2 DEF Excuse
    <3> QED BY <1>1, <2>2, <3>1 DEF CacheTypeOK
  <2> QED BY <2>1, <2>2
<1>2. DOMAIN cache' = Keys
    BY DEF Excuse
<1>3. CacheTypeOK'
    BY <1>1, <1>2, AnswerTypesAreConstant DEF CacheTypeOK
<1> QED BY <1>1, <1>3 DEF AnswersKept

LEMMA RedeliverKeeps ==
    ASSUME Types, NEW c \in Replicas, stage[c] # "idle", Redeliver(c)
    PROVE  /\ again' \subseteq Waiting /\ again \subseteq again'
           /\ \A m \in again' : m \in again \/ m = hand[c]
           /\ clean' \in [Spots -> BOOLEAN] /\ \A s \in Spots : clean'[s] => clean[s]
           /\ AnswersKept
           /\ \/ hand[c] \in again'
              \/ /\ stage[c] = "upsert" => ~clean'[hand[c].spot]
                 /\ \A k \in Keys : /\ \/ stage[c] = "upsert" /\ k \in ToSet(KeysOf[hand[c].spot])
                                       \/ k \in ToSet(todo[c])
                                    /\ cache'[k] # None
                                    => cache'[k].excused
<1>1. hand[c] \in Message /\ hand[c].spot \in Spots /\ hand[c].times \in 0..MaxDeliver
    BY DEF Types, CallTypeOK, CallOK, Message
<1>2. again \subseteq Waiting /\ clean \in [Spots -> BOOLEAN] /\ CacheTypeOK
    BY DEF Types, BusTypeOK
<1>3. CASE hand[c].times < MaxDeliver
  <2>1. again' = again \cup {hand[c]} /\ UNCHANGED <<clean, cache>>
      BY <1>3 DEF Redeliver
  <2>2. hand[c] \in Waiting
      BY <1>1, <1>3 DEF Waiting
  <2> QED BY <1>2, <2>1, <2>2, SameCache
<1>4. CASE ~(hand[c].times < MaxDeliver) /\ stage[c] = "upsert"
  <2>1. UNCHANGED again /\ Soil(hand[c].spot) /\ Excuse(ToSet(KeysOf[hand[c].spot]))
      BY <1>4 DEF Redeliver
  <2>2. todo[c] = <<>>
      BY <1>4 DEF Types, CallTypeOK, CallOK
  <2>3. clean' \in [Spots -> BOOLEAN] /\ ~clean'[hand[c].spot] /\ \A s \in Spots : clean'[s] => clean[s]
      BY <1>1, <1>2, <2>1 DEF Soil
  <2> QED BY <1>2, <2>1, <2>2, <2>3, ExcuseKeeps, NothingLeft
<1>5. CASE ~(hand[c].times < MaxDeliver) /\ stage[c] # "upsert"
  <2>1. UNCHANGED <<again, clean>> /\ Excuse(ToSet(todo[c]))
      BY <1>5 DEF Redeliver
  <2> QED BY <1>2, <1>5, <2>1, ExcuseKeeps
<1> QED BY <1>3, <1>4, <1>5

LEMMA FreeKeeps ==
    ASSUME CallTypeOK, NEW c \in Replicas, Free(c)
    PROVE  /\ CallTypeOK' /\ stage'[c] = "idle" /\ todo'[c] = <<>>
           /\ \A d \in Replicas \ {c} :
                 stage'[d] = stage[d] /\ todo'[d] = todo[d] /\ hand'[d] = hand[d]
<1>1. /\ hand' \in [Replicas -> Message \cup {None}]
      /\ todo' \in [Replicas -> Seq(Keys)]
      /\ stage' \in [Replicas -> {"idle", "upsert", "delete"}]
      /\ stage'[c] = "idle" /\ todo'[c] = <<>>
      /\ \A d \in Replicas \ {c} :
            stage'[d] = stage[d] /\ todo'[d] = todo[d] /\ hand'[d] = hand[d]
    BY DEF Free, CallTypeOK
<1>2. \A d \in Replicas : CallOK(d)'
    BY <1>1 DEF CallTypeOK, CallOK
<1> QED BY <1>1, <1>2 DEF CallTypeOK

------------------------------------------------------------------------------
(* Types                                                                   *)

LEMMA UntouchedTypes ==
    ASSUME Types
    PROVE  /\ UNCHANGED <<truth, rows>> => RowTypeOK'
           /\ UNCHANGED busVars => BusTypeOK'
           /\ UNCHANGED callVars => CallTypeOK'
           /\ UNCHANGED cache => CacheTypeOK'
           /\ UNCHANGED fill => FillTypeOK'
<1>1. UNCHANGED <<truth, rows>> => RowTypeOK'
    BY DEF Types, RowTypeOK
<1>2. UNCHANGED busVars => BusTypeOK'
    BY DEF Types, BusTypeOK, busVars
<1>3. UNCHANGED callVars => CallTypeOK'
    BY DEF Types, CallTypeOK, CallOK, callVars
<1>4. UNCHANGED cache => CacheTypeOK'
    BY SameCache DEF Types, AnswersKept
<1>5. UNCHANGED fill => FillTypeOK'
    BY AnswerTypesAreConstant DEF Types, FillTypeOK
<1> QED BY <1>1, <1>2, <1>3, <1>4, <1>5

LEMMA CommitKeepsRows ==
    ASSUME RowTypeOK, NEW s \in Spots, NEW st \in SpotStatus, Commit(s, st), UNCHANGED rows
    PROVE  /\ RowTypeOK'
           /\ truth[s].n + 1 \in 0..MaxChanges
           /\ truth' = [truth EXCEPT ![s] = [status |-> st, n |-> truth[s].n + 1]]
<1>1. truth[s].n \in 0..MaxChanges /\ truth[s].n < MaxChanges /\ MaxChanges \in Nat
    BY BoundsAssumption DEF RowTypeOK, Commit, Change
<1>2. truth' = [truth EXCEPT ![s] = [status |-> st, n |-> truth[s].n + 1]]
    BY DEF Commit
<1>3. [status |-> st, n |-> truth[s].n + 1] \in Change
    BY <1>1 DEF Change
<1> QED BY <1>1, <1>2, <1>3 DEF RowTypeOK

\* The event of a commit, and the commit it is about.
LEMMA CommitMakesEvent ==
    ASSUME Types, NEW p \in Publishers, NEW s \in Spots, NEW st \in SpotStatus, CommitChange(p, s, st)
    PROVE  /\ pub' \in [Publishers -> Waiting \cup {None}] /\ pub[p] = None
           /\ pub'[p] \in Waiting
           /\ pub'[p].spot = s /\ pub'[p].status = st /\ pub'[p].n = truth[s].n + 1
           /\ \A q \in Publishers \ {p} : pub'[q] = pub[q]
<1> DEFINE m == [spot |-> s, status |-> st, n |-> truth[s].n + 1, times |-> 0]
<1>1. truth[s].n + 1 \in 0..MaxChanges
    BY CommitKeepsRows DEF CommitChange, Types
<1>2. m \in Waiting
    BY <1>1, BoundsAssumption DEF Message, Waiting
<1>3. m.spot = s /\ m.status = st /\ m.n = truth[s].n + 1
    OBVIOUS
<1>4. pub' = [pub EXCEPT ![p] = m] /\ pub[p] = None
    BY DEF CommitChange
<1> HIDE DEF m
<1>5. /\ pub' \in [Publishers -> Waiting \cup {None}] /\ pub'[p] = m
      /\ \A q \in Publishers \ {p} : pub'[q] = pub[q]
    BY <1>2, <1>4 DEF Types, BusTypeOK
<1> QED BY <1>2, <1>3, <1>4, <1>5

\* A message comes into the hands of a callback with one delivery more.
LEMMA TakeKeeps ==
    ASSUME Types, NEW c \in Replicas, NEW m \in Waiting, Take(c, m)
    PROVE  /\ CallTypeOK' /\ stage'[c] = "upsert" /\ todo'[c] = <<>>
           /\ hand'[c] \in Message
           /\ hand'[c].spot = m.spot /\ hand'[c].status = m.status /\ hand'[c].n = m.n
           /\ stage[c] = "idle" /\ todo[c] = <<>>
           /\ \A d \in Replicas \ {c} :
                 stage'[d] = stage[d] /\ todo'[d] = todo[d] /\ hand'[d] = hand[d]
<1> DEFINE n == [m EXCEPT !.times = m.times + 1]
<1>1. n \in Message /\ n.spot = m.spot /\ n.status = m.status /\ n.n = m.n
    BY BoundsAssumption DEF Waiting, Message
<1>2. /\ hand' = [hand EXCEPT ![c] = n] /\ stage' = [stage EXCEPT ![c] = "upsert"] /\ UNCHANGED todo
      /\ stage[c] = "idle"
    BY DEF Take
<1> HIDE DEF n
<1>3. todo[c] = <<>>
    BY <1>2 DEF Types, CallTypeOK, CallOK
<1>4. /\ hand' \in [Replicas -> Message \cup {None}]
      /\ stage' \in [Replicas -> {"idle", "upsert", "delete"}]
      /\ todo' \in [Replicas -> Seq(Keys)]
      /\ hand'[c] = n /\ stage'[c] = "upsert"
      /\ \A d \in Replicas \ {c} : stage'[d] = stage[d] /\ hand'[d] = hand[d]
    BY <1>1, <1>2 DEF Types, CallTypeOK
<1>5. \A d \in Replicas : CallOK(d)'
    BY <1>1, <1>2, <1>3, <1>4 DEF Types, CallTypeOK, CallOK
<1> QED BY <1>1, <1>2, <1>3, <1>4, <1>5 DEF CallTypeOK

\* Where a delivered message comes from.
LEMMA DeliverTakes ==
    ASSUME Types, NEW c \in Replicas, Deliver(c)
    PROVE  \E m \in Waiting :
              /\ Take(c, m) /\ m \in ToSet(stream) \cup again
              /\ stream' \in Seq(Waiting) /\ again' \subseteq again
              /\ ToSet(stream) \subseteq ToSet(stream') \cup {m}
              /\ ToSet(stream') \subseteq ToSet(stream)
              /\ again \subseteq again' \cup {m}
<1>1. stream \in Seq(Waiting) /\ again \subseteq Waiting
    BY DEF Types, BusTypeOK
<1>2. CASE stream # <<>> /\ Take(c, Head(stream)) /\ stream' = Tail(stream) /\ UNCHANGED again
    BY <1>1, <1>2, FirstAndRest
<1>3. CASE \E m \in again : Take(c, m) /\ again' = again \ {m} /\ UNCHANGED stream
    BY <1>1, <1>3
<1> QED BY <1>2, <1>3 DEF Deliver

LEMMA UpsertKeeps ==
    ASSUME Types, NEW c \in Replicas, UpsertSpot(c)
    PROVE  /\ hand[c] \in Message /\ hand[c].spot \in Spots
           /\ RowTypeOK' /\ clean' \in [Spots -> BOOLEAN] /\ CallTypeOK'
           /\ rows' = [rows EXCEPT ![hand[c].spot] = [status |-> hand[c].status, n |-> hand[c].n]]
           /\ \A s \in Spots : clean'[s] => clean[s] /\ (s = hand[c].spot => rows[s].n <= hand[c].n)
           /\ stage[c] = "upsert" /\ stage'[c] = "delete" /\ todo'[c] = KeysOf[hand[c].spot]
           /\ \A d \in Replicas \ {c} : stage'[d] = stage[d] /\ todo'[d] = todo[d]
           /\ UNCHANGED <<truth, pub, stream, again, hand, cache, fill>>
<1> DEFINE m == hand[c]
<1>1. stage[c] = "upsert" /\ m \in Message /\ m.spot \in Spots /\ [status |-> m.status, n |-> m.n] \in Change
    BY DEF UpsertSpot, Types, CallTypeOK, CallOK, Message, Change
<1>2. /\ rows' = [rows EXCEPT ![m.spot] = [status |-> m.status, n |-> m.n]]
      /\ clean' = [clean EXCEPT ![m.spot] = clean[m.spot] /\ rows[m.spot].n <= m.n]
      /\ todo' = [todo EXCEPT ![c] = KeysOf[m.spot]]
      /\ stage' = [stage EXCEPT ![c] = "delete"]
      /\ UNCHANGED <<truth, pub, stream, again, hand, cache, fill>>
    BY DEF UpsertSpot
<1> HIDE DEF m
<1>3. RowTypeOK'
    BY <1>1, <1>2 DEF Types, RowTypeOK
<1>4. clean \in [Spots -> BOOLEAN]
    BY DEF Types, BusTypeOK
<1>5. \A s \in Spots : clean'[s] = IF s = m.spot THEN clean[s] /\ rows[s].n <= m.n ELSE clean[s]
    BY <1>1, <1>2, <1>4, Zenon
<1>6. clean' \in [Spots -> BOOLEAN]
  <2>1. (clean[m.spot] /\ rows[m.spot].n <= m.n) \in BOOLEAN
      OBVIOUS
  <2> QED BY <1>2, <1>4, <2>1, Zenon
<1>7. KeysOf[m.spot] \in Seq(Keys)
    BY <1>1, KeysOfSpot
<1>8. /\ todo' \in [Replicas -> Seq(Keys)] /\ stage' \in [Replicas -> {"idle", "upsert", "delete"}]
      /\ todo'[c] = KeysOf[m.spot] /\ stage'[c] = "delete"
      /\ \A d \in Replicas \ {c} : stage'[d] = stage[d] /\ todo'[d] = todo[d]
    BY <1>2, <1>7 DEF Types, CallTypeOK
<1>9. \A d \in Replicas : CallOK(d)'
    BY <1>1, <1>2, <1>8 DEF Types, CallTypeOK, CallOK, m
<1>10. CallTypeOK'
    BY <1>2, <1>8, <1>9 DEF Types, CallTypeOK
<1> QED BY <1>1, <1>2, <1>3, <1>5, <1>6, <1>8, <1>10 DEF m

LEMMA DeleteKeyKeeps ==
    ASSUME Types, NEW c \in Replicas, DeleteKey(c)
    PROVE  /\ CallTypeOK' /\ AnswersKept /\ stage[c] = "delete" /\ stage'[c] = "delete"
           /\ Head(todo[c]) \in Keys /\ ToSet(todo[c]) = {Head(todo[c])} \cup ToSet(todo'[c])
           /\ \A d \in Replicas \ {c} : todo'[d] = todo[d]
           /\ cache'[Head(todo[c])] # None => cache'[Head(todo[c])].excused
           /\ UNCHANGED <<truth, busVars, hand, stage, rows, fill>>
<1>1. /\ stage[c] = "delete" /\ todo[c] # <<>> /\ todo' = [todo EXCEPT ![c] = Tail(todo[c])]
      /\ UNCHANGED <<truth, busVars, hand, stage, rows, fill>>
    BY DEF DeleteKey
<1>2. /\ Head(todo[c]) \in Keys /\ Tail(todo[c]) \in Seq(Keys)
      /\ ToSet(todo[c]) = {Head(todo[c])} \cup ToSet(Tail(todo[c]))
    BY <1>1, FirstAndRest DEF Types, CallTypeOK
<1>3. /\ todo' \in [Replicas -> Seq(Keys)] /\ todo'[c] = Tail(todo[c])
      /\ \A d \in Replicas \ {c} : todo'[d] = todo[d]
    BY <1>1, <1>2 DEF Types, CallTypeOK
<1>4. \A d \in Replicas : CallOK(d)'
    BY <1>1, <1>2, <1>3 DEF Types, CallTypeOK, CallOK
<1>5. CallTypeOK'
    BY <1>1, <1>3, <1>4 DEF Types, CallTypeOK
<1>6. AnswersKept /\ (cache'[Head(todo[c])] # None => cache'[Head(todo[c])].excused)
  <2>1. CASE cache' = [cache EXCEPT ![Head(todo[c])] = None]
    <3>1. cache'[Head(todo[c])] = None /\ \A k \in Keys \ {Head(todo[c])} : cache'[k] = cache[k]
        BY <1>2, <2>1 DEF Types, CacheTypeOK
    <3>2. CacheTypeOK'
        BY <2>1, <3>1, AnswerTypesAreConstant DEF Types, CacheTypeOK
    <3> QED BY <3>1, <3>2 DEF AnswersKept
  <2>2. CASE Excuse({Head(todo[c])})
      BY <1>2, <2>2, ExcuseKeeps DEF Types
  <2> QED BY <2>1, <2>2 DEF DeleteKey
<1> QED BY <1>1, <1>2, <1>3, <1>5, <1>6

LEMMA BeginFillKeeps ==
    ASSUME Types, NEW c \in Readers, NEW k \in Keys, BeginFill(c, k)
    PROVE  /\ FillTypeOK' /\ fill'[c][k].left = FillTime /\ fill'[c][k].age = 0
           /\ \A d \in Readers, l \in Keys : d # c \/ l # k => fill'[d][l] = fill[d][l]
<1> DEFINE x == [shows |-> Snapshot(k), left |-> FillTime, age |-> 0]
<1>1. x \in Filling(k)
    BY SnapshotIsView, TimeAssumption DEF Filling, MaxAge, Types
<1>2. fill' = [fill EXCEPT ![c][k] = x]
    BY DEF BeginFill
<1>3. x.left = FillTime /\ x.age = 0
    OBVIOUS
<1> HIDE DEF x
<1>4. /\ DOMAIN fill' = Readers /\ \A d \in Readers : DOMAIN fill'[d] = Keys
      /\ fill'[c][k] = x
      /\ \A d \in Readers, l \in Keys : d # c \/ l # k => fill'[d][l] = fill[d][l]
    BY <1>2 DEF Types, FillTypeOK
<1>5. FillTypeOK'
    BY <1>1, <1>4, AnswerTypesAreConstant DEF Types, FillTypeOK
<1> QED BY <1>3, <1>4, <1>5

LEMMA EndFillKeeps ==
    ASSUME Types, NEW c \in Readers, NEW k \in Keys, EndFill(c, k)
    PROVE  /\ FillTypeOK' /\ fill'[c][k] = None
           /\ \A d \in Readers, l \in Keys : d # c \/ l # k => fill'[d][l] = fill[d][l]
<1>1. fill' = [fill EXCEPT ![c][k] = None]
    BY DEF EndFill
<1>2. /\ DOMAIN fill' = Readers /\ \A d \in Readers : DOMAIN fill'[d] = Keys
      /\ fill'[c][k] = None
      /\ \A d \in Readers, l \in Keys : d # c \/ l # k => fill'[d][l] = fill[d][l]
    BY <1>1 DEF Types, FillTypeOK
<1>3. FillTypeOK'
    BY <1>2, AnswerTypesAreConstant DEF Types, FillTypeOK
<1> QED BY <1>2, <1>3

LEMMA CacheAnswerKeeps ==
    ASSUME Types, NEW c \in Readers, NEW k \in Keys, fill[c][k] # None, CacheAnswer(c, k)
    PROVE  /\ CacheTypeOK' /\ fill[c][k] \in Filling(k)
           /\ cache'[k].shows = fill[c][k].shows /\ cache'[k].left = CacheTTL
           /\ cache'[k].age = fill[c][k].age
           /\ cache'[k].excused = (fill[c][k].shows # Snapshot(k))
           /\ \A l \in Keys \ {k} : cache'[l] = cache[l]
<1> DEFINE x == [shows |-> fill[c][k].shows, left |-> CacheTTL, age |-> fill[c][k].age,
                 excused |-> fill[c][k].shows # Snapshot(k)]
<1>1. fill[c][k] \in Filling(k)
    BY DEF Types, FillTypeOK
<1>2. /\ x \in CachedAnswer(k)
      /\ x.shows = fill[c][k].shows /\ x.left = CacheTTL /\ x.age = fill[c][k].age
      /\ x.excused = (fill[c][k].shows # Snapshot(k))
    BY <1>1, TimeAssumption DEF Filling, CachedAnswer
<1>3. cache' = [cache EXCEPT ![k] = x]
    BY DEF CacheAnswer
<1> HIDE DEF x
<1>4. DOMAIN cache' = Keys /\ cache'[k] = x /\ \A l \in Keys \ {k} : cache'[l] = cache[l]
    BY <1>3 DEF Types, CacheTypeOK
<1>5. CacheTypeOK'
    BY <1>2, <1>4, AnswerTypesAreConstant DEF Types, CacheTypeOK
<1> QED BY <1>1, <1>2, <1>4, <1>5

\* What Tick makes of an answer or of a fill.
Aged(x, y) ==
    /\ x # None /\ y.shows = x.shows
    /\ y.left = x.left - 1
    /\ y.age \in 0..MaxAge /\ y.age <= x.age + 1

LEMMA OlderIsAged ==
    ASSUME NEW k \in Keys, NEW x, x # None, x \in CachedAnswer(k) \/ x \in Filling(k), x.left > 0
    PROVE  /\ x \in CachedAnswer(k) => Older(x, k) \in CachedAnswer(k) /\ Older(x, k).excused = x.excused
           /\ x \in Filling(k) => Older(x, k) \in Filling(k)
           /\ Aged(x, Older(x, k))
<1> DEFINE left == IF x.left = 0 THEN 0 ELSE x.left - 1
           age == IF x.shows = Snapshot(k) THEN 0 ELSE IF x.age = MaxAge THEN x.age ELSE x.age + 1
<1>1. Older(x, k) = [x EXCEPT !.left = left, !.age = age]
    BY DEF Older
<1>2. CacheTTL \in Nat /\ FillTime \in Nat /\ MaxAge \in Nat
    BY TimeAssumption DEF MaxAge
<1>3. x.left \in Nat /\ x.age \in 0..MaxAge
    BY <1>2 DEF CachedAnswer, Filling
<1>4. left = x.left - 1 /\ age \in 0..MaxAge /\ age <= x.age + 1
    BY <1>2, <1>3
<1> HIDE DEF left, age
<1>5. CASE x \in CachedAnswer(k)
  <2>1. DOMAIN x = {"shows", "left", "age", "excused"} /\ left \in 0..CacheTTL
      BY <1>2, <1>4, <1>5 DEF CachedAnswer
  <2>2. Older(x, k) = [shows |-> x.shows, left |-> left, age |-> age, excused |-> x.excused]
      BY <1>1, <1>5 DEF CachedAnswer
  <2> QED BY <1>3, <1>4, <1>5, <2>1, <2>2 DEF CachedAnswer, Filling, Aged
<1>6. CASE x \in Filling(k)
  <2>1. DOMAIN x = {"shows", "left", "age"} /\ left \in 0..FillTime
      BY <1>2, <1>4, <1>6 DEF Filling
  <2>2. Older(x, k) = [shows |-> x.shows, left |-> left, age |-> age]
      BY <1>1, <1>6 DEF Filling
  <2> QED BY <1>3, <1>4, <1>6, <2>1, <2>2 DEF CachedAnswer, Filling, Aged
<1> QED BY <1>5, <1>6

LEMMA TickAges ==
    ASSUME Types, Tick,
           \A k \in Keys : cache[k] # None => cache[k].left > 0
    PROVE  /\ CacheTypeOK' /\ FillTypeOK'
           /\ \A k \in Keys : cache'[k] # None =>
                  /\ Aged(cache[k], cache'[k]) /\ cache[k].left # 1
                  /\ cache'[k].excused = cache[k].excused
           /\ \A c \in Readers, k \in Keys : fill'[c][k] # None =>
                  Aged(fill[c][k], fill'[c][k]) /\ fill[c][k].left > 0
<1>2. ASSUME NEW k \in Keys, cache'[k] # None
      PROVE  /\ cache'[k] \in CachedAnswer(k) /\ Aged(cache[k], cache'[k])
             /\ cache[k].left # 1 /\ cache'[k].excused = cache[k].excused
  <2>1. cache[k] # None /\ cache[k].left # 1 /\ cache'[k] = Older(cache[k], k)
      BY <1>2 DEF Tick
  <2>2. cache[k] \in CachedAnswer(k) /\ cache[k].left > 0
      BY <2>1 DEF Types, CacheTypeOK
  <2> QED BY <2>1, <2>2, OlderIsAged
<1>3. ASSUME NEW c \in Readers, NEW k \in Keys, fill'[c][k] # None
      PROVE  fill'[c][k] \in Filling(k) /\ Aged(fill[c][k], fill'[c][k]) /\ fill[c][k].left > 0
  <2>1. fill[c][k] # None /\ fill[c][k].left > 0 /\ fill'[c][k] = Older(fill[c][k], k)
      BY <1>3 DEF Tick
  <2>2. fill[c][k] \in Filling(k)
      BY <2>1 DEF Types, FillTypeOK
  <2> QED BY <2>1, <2>2, OlderIsAged
<1>4. DOMAIN cache' = Keys /\ DOMAIN fill' = Readers /\ \A c \in Readers : DOMAIN fill'[c] = Keys
    BY DEF Tick
<1>5. CacheTypeOK'
    BY <1>2, <1>4, AnswerTypesAreConstant DEF CacheTypeOK
<1>6. FillTypeOK'
    BY <1>3, <1>4, AnswerTypesAreConstant DEF FillTypeOK
<1> QED BY <1>2, <1>3, <1>5, <1>6

\* The handlers of a replica that end its call.
CallEnds(c) == UpsertFails(c) \/ Ack(c) \/ (Crash(c) /\ stage[c] # "idle")

LEMMA CallEndsKeeps ==
    ASSUME Types, NEW c \in Replicas, CallEnds(c)
    PROVE  /\ Free(c) /\ UNCHANGED <<truth, pub, stream, rows>> /\ stage[c] # "idle"
           /\ \/ Redeliver(c)
              \/ stage[c] = "delete" /\ todo[c] = <<>> /\ UNCHANGED <<again, clean, cache>>
           /\ FillTypeOK'
           /\ \A d \in Readers, k \in Keys : fill'[d][k] # None => fill'[d][k] = fill[d][k]
<1>1. CASE UpsertFails(c) \/ Ack(c)
  <2>1. UNCHANGED fill
      BY <1>1 DEF UpsertFails, Ack
  <2> QED BY <1>1, <2>1, UntouchedTypes DEF UpsertFails, Ack
<1>2. CASE Crash(c) /\ stage[c] # "idle"
  <2>1. fill' = [d \in Readers |-> IF d = c THEN [k \in Keys |-> None] ELSE fill[d]]
      BY <1>2 DEF Crash
  <2>2. /\ DOMAIN fill' = Readers /\ \A d \in Readers : DOMAIN fill'[d] = Keys
        /\ \A d \in Readers, k \in Keys : fill'[d][k] # None => fill'[d][k] = fill[d][k]
      BY <2>1 DEF Types, FillTypeOK
  <2>3. FillTypeOK'
      BY <2>2, AnswerTypesAreConstant DEF Types, FillTypeOK
  <2> QED BY <1>2, <2>2, <2>3 DEF Crash
<1> QED BY <1>1, <1>2 DEF CallEnds

LEMMA CallEndsTypes ==
    ASSUME Types, NEW c \in Replicas, CallEnds(c)
    PROVE  Types' /\ AnswersKept
<1>1. /\ Free(c) /\ UNCHANGED <<truth, pub, stream, rows>> /\ FillTypeOK'
      /\ RowTypeOK' /\ CallTypeOK'
    BY CallEndsKeeps, FreeKeeps, UntouchedTypes DEF Types
<1>2. again' \subseteq Waiting /\ clean' \in [Spots -> BOOLEAN] /\ AnswersKept
  <2>1. CASE Redeliver(c)
      BY <2>1, CallEndsKeeps, RedeliverKeeps
  <2>2. CASE UNCHANGED <<again, clean, cache>>
      BY <2>2, SameCache DEF Types, BusTypeOK
  <2> QED BY <2>1, <2>2, CallEndsKeeps
<1>3. BusTypeOK'
    BY <1>1, <1>2 DEF Types, BusTypeOK, Waiting, Message
<1> QED BY <1>1, <1>2, <1>3 DEF Types, AnswersKept

\* A replica that crashes while it handles nothing loses its fills.
LEMMA IdleCrashKeeps ==
    ASSUME Types, NEW c \in Replicas, Crash(c), stage[c] = "idle"
    PROVE  /\ Types' /\ UNCHANGED <<truth, rows, pub, stream, again, clean, cache>>
           /\ \A d \in Replicas : todo'[d] = todo[d] /\ stage'[d] = stage[d]
           /\ \A d \in Replicas : stage[d] # "idle" => hand'[d] = hand[d]
           /\ \A d \in Readers, k \in Keys : fill'[d][k] # None => fill'[d][k] = fill[d][k]
<1>1. /\ UNCHANGED <<truth, rows, pub, stream, again, clean, cache>> /\ Free(c)
      /\ fill' = [d \in Readers |-> IF d = c THEN [k \in Keys |-> None] ELSE fill[d]]
    BY DEF Crash
<1>2. /\ DOMAIN fill' = Readers /\ \A d \in Readers : DOMAIN fill'[d] = Keys
      /\ \A d \in Readers, k \in Keys : fill'[d][k] # None => fill'[d][k] = fill[d][k]
    BY <1>1 DEF Types, FillTypeOK
<1>3. FillTypeOK'
    BY <1>2, AnswerTypesAreConstant DEF Types, FillTypeOK
<1>4. /\ CallTypeOK' /\ stage'[c] = "idle" /\ todo'[c] = <<>>
      /\ \A d \in Replicas \ {c} :
            stage'[d] = stage[d] /\ todo'[d] = todo[d] /\ hand'[d] = hand[d]
    BY <1>1, FreeKeeps DEF Types
<1>5. todo[c] = <<>>
    BY DEF Types, CallTypeOK, CallOK
<1>6. RowTypeOK' /\ BusTypeOK' /\ CacheTypeOK'
    BY <1>1, UntouchedTypes DEF busVars
<1> QED BY <1>1, <1>2, <1>3, <1>4, <1>5, <1>6 DEF Types

LEMMA InitTypes == Init => Types
<1> SUFFICES ASSUME Init PROVE Types OBVIOUS
<1>1. RowTypeOK
    BY BoundsAssumption DEF Init, RowTypeOK, Change, SpotStatus
<1>2. BusTypeOK
    BY DEF Init, BusTypeOK
<1>3. CallTypeOK
    BY DEF Init, CallTypeOK, CallOK
<1>4. CacheTypeOK /\ FillTypeOK
    BY DEF Init, CacheTypeOK, FillTypeOK
<1> QED BY <1>1, <1>2, <1>3, <1>4 DEF Types

\* Redis answers live until their TTL, so that time leaves none with nothing left.
Living == \A k \in Keys : cache[k] # None => cache[k].left > 0

LEMMA TypesKept ==
    ASSUME Types, Living, [Next]_vars
    PROVE  Types'
<1> USE UntouchedTypes
<1>1. CASE UNCHANGED vars
    BY <1>1 DEF vars, Types, busVars, callVars
<1>2. ASSUME NEW p \in Publishers, NEW s \in Spots, NEW st \in SpotStatus, CommitChange(p, s, st)
      PROVE  Types'
  <2>1. RowTypeOK'
      BY <1>2, CommitKeepsRows DEF CommitChange, Types
  <2>2. /\ pub' \in [Publishers -> Waiting \cup {None}]
        /\ UNCHANGED <<stream, again, clean, callVars, cache, fill>>
      BY <1>2, CommitMakesEvent DEF CommitChange, Types, BusTypeOK
  <2>3. BusTypeOK'
      BY <2>2 DEF Types, BusTypeOK
  <2> QED BY <2>1, <2>2, <2>3 DEF Types
<1>3. ASSUME NEW s \in Spots, FailInternal(s)
      PROVE  Types'
  <2>1. RowTypeOK'
      BY <1>3, CommitKeepsRows DEF FailInternal, Types, SpotStatus
  <2>2. BusTypeOK' /\ UNCHANGED <<callVars, cache, fill>>
      BY <1>3 DEF FailInternal, Soil, Types, BusTypeOK
  <2> QED BY <2>1, <2>2 DEF Types
<1>4. ASSUME NEW p \in Publishers, PublishSpotUpdated(p)
      PROVE  Types'
  <2>1. pub[p] \in Waiting /\ pub' \in [Publishers -> Waiting \cup {None}]
        /\ UNCHANGED <<truth, again, callVars, rows, cache, fill>>
      BY <1>4 DEF PublishSpotUpdated, Types, BusTypeOK
  <2>2. stream \in Seq(Waiting) /\ clean \in [Spots -> BOOLEAN]
      BY DEF Types, BusTypeOK
  <2>3. Append(stream, pub[p]) \in Seq(Waiting) /\ (Soil(pub[p].spot) => clean' \in [Spots -> BOOLEAN])
      BY <2>1, <2>2, AppendedIsLast DEF Soil
  <2>4. stream' \in Seq(Waiting) /\ clean' \in [Spots -> BOOLEAN]
      BY <1>4, <2>2, <2>3 DEF PublishSpotUpdated
  <2>5. BusTypeOK'
      BY <2>1, <2>4 DEF Types, BusTypeOK
  <2> QED BY <2>1, <2>5 DEF Types
<1>5. ASSUME NEW c \in Replicas, Deliver(c)
      PROVE  Types'
  <2>1. PICK m \in Waiting : Take(c, m) /\ stream' \in Seq(Waiting) /\ again' \subseteq again
      BY <1>5, DeliverTakes
  <2>2. CallTypeOK' /\ UNCHANGED <<truth, pub, clean, rows, cache, fill>>
      BY <2>1, TakeKeeps DEF Take
  <2>3. BusTypeOK'
      BY <2>1, <2>2 DEF Types, BusTypeOK
  <2> QED BY <2>2, <2>3 DEF Types
<1>6. ASSUME NEW c \in Replicas, UpsertSpot(c)
      PROVE  Types'
  <2>1. /\ RowTypeOK' /\ clean' \in [Spots -> BOOLEAN] /\ CallTypeOK'
        /\ UNCHANGED <<pub, stream, again, cache, fill>>
      BY <1>6, UpsertKeeps
  <2>2. BusTypeOK'
      BY <2>1 DEF Types, BusTypeOK
  <2> QED BY <2>1, <2>2 DEF Types
<1>7. ASSUME NEW c \in Replicas, DeleteKey(c)
      PROVE  Types'
    BY <1>7, DeleteKeyKeeps DEF Types, AnswersKept
<1>8. ASSUME NEW c \in Replicas, CallEnds(c)
      PROVE  Types'
    BY <1>8, CallEndsTypes
<1>9. ASSUME NEW c \in Replicas, Crash(c)
      PROVE  Types'
    BY <1>8, <1>9, IdleCrashKeeps DEF CallEnds
<1>10. ASSUME NEW c \in Readers, NEW k \in Keys, BeginFill(c, k)
       PROVE  Types'
    BY <1>10, BeginFillKeeps DEF BeginFill, Types
<1>11. ASSUME NEW c \in Readers, NEW k \in Keys, EndFill(c, k)
       PROVE  Types'
  <2>1. CacheTypeOK'
      BY <1>11, CacheAnswerKeeps DEF EndFill
  <2> QED BY <1>11, <2>1, EndFillKeeps DEF EndFill, Types
<1>12. CASE Tick
    BY <1>12, TickAges DEF Tick, Types, Living
<1> QED BY <1>1, <1>2, <1>3, <1>4, <1>5, <1>6, <1>7, <1>8, <1>9, <1>10, <1>11, <1>12
        DEF Next, Handle, CallEnds

------------------------------------------------------------------------------
(* Ages: an answer has not been stale for longer than its fill and its     *)
(* stay in the cache have lasted                                           *)

AgesOK ==
    /\ \A c \in Readers, k \in Keys : fill[c][k] # None =>
           fill[c][k].age + fill[c][k].left <= FillTime
    /\ \A k \in Keys : cache[k] # None =>
           cache[k].left > 0 /\ cache[k].age + cache[k].left <= MaxAge

LEMMA AgesOfKept ==
    ASSUME Types, AgesOK, AnswersKept,
           \A c \in Readers, k \in Keys : fill'[c][k] # None => fill'[c][k] = fill[c][k]
    PROVE  AgesOK'
BY DEF AgesOK, AnswersKept, MaxAge

LEMMA AgesKept ==
    ASSUME Types, AgesOK, [Next]_vars
    PROVE  AgesOK'
<1>0. CacheTTL \in Nat \ {0} /\ FillTime \in Nat \ {0} /\ MaxAge = FillTime + CacheTTL
    BY TimeAssumption DEF MaxAge
<1>1. CASE UNCHANGED <<cache, fill>>
    BY <1>1, SameCache, AgesOfKept DEF Types
<1>2. ASSUME NEW c \in Replicas, DeleteKey(c)
      PROVE  AgesOK'
    BY <1>2, DeleteKeyKeeps, AgesOfKept
<1>3. ASSUME NEW c \in Replicas, CallEnds(c)
      PROVE  AgesOK'
    BY <1>3, CallEndsKeeps, CallEndsTypes, AgesOfKept
<1>4. ASSUME NEW c \in Replicas, Crash(c)
      PROVE  AgesOK'
  <2>1. CASE stage[c] = "idle"
      BY <1>4, <2>1, IdleCrashKeeps, SameCache, AgesOfKept DEF Types
  <2> QED BY <1>3, <1>4, <2>1 DEF CallEnds
<1>5. ASSUME NEW c \in Readers, NEW k \in Keys, BeginFill(c, k)
      PROVE  AgesOK'
  <2>1. UNCHANGED cache
      BY <1>5 DEF BeginFill
  <2>2. /\ fill'[c][k].age = 0 /\ fill'[c][k].left = FillTime
        /\ \A d \in Readers, l \in Keys : d # c \/ l # k => fill'[d][l] = fill[d][l]
      BY <1>5, BeginFillKeeps
  <2> QED BY <1>0, <2>1, <2>2 DEF AgesOK, MaxAge
<1>6. ASSUME NEW c \in Readers, NEW k \in Keys, EndFill(c, k)
      PROVE  AgesOK'
  <2>1. \A d \in Readers, l \in Keys : fill'[d][l] # None => fill'[d][l] = fill[d][l]
      BY <1>6, EndFillKeeps
  <2>2. CASE CacheAnswer(c, k)
    <3>1. /\ fill[c][k] \in Filling(k) /\ fill[c][k].age + fill[c][k].left <= FillTime
          /\ cache'[k].left = CacheTTL /\ cache'[k].age = fill[c][k].age
          /\ \A l \in Keys \ {k} : cache'[l] = cache[l]
        BY <1>6, <2>2, CacheAnswerKeeps DEF EndFill, AgesOK
    <3>2. fill[c][k].age \in Nat /\ fill[c][k].left \in Nat
        BY <1>0, <3>1 DEF Filling
    <3>3. cache'[k].left > 0 /\ cache'[k].age + cache'[k].left <= MaxAge
        BY <1>0, <3>1, <3>2
    <3> QED BY <2>1, <3>1, <3>3 DEF AgesOK, MaxAge
  <2>3. CASE UNCHANGED cache
      BY <2>1, <2>3, SameCache, AgesOfKept DEF Types
  <2> QED BY <1>6, <2>2, <2>3 DEF EndFill
<1>7. CASE Tick
  <2>1. /\ \A k \in Keys : cache'[k] # None => Aged(cache[k], cache'[k]) /\ cache[k].left # 1
        /\ \A c \in Readers, k \in Keys : fill'[c][k] # None =>
               Aged(fill[c][k], fill'[c][k]) /\ fill[c][k].left > 0
      BY <1>7, TickAges DEF AgesOK
  <2>2. ASSUME NEW k \in Keys, cache'[k] # None
        PROVE  cache'[k].left > 0 /\ cache'[k].age + cache'[k].left <= MaxAge
    <3>1. cache[k] \in CachedAnswer(k) /\ Aged(cache[k], cache'[k]) /\ cache[k].left # 1
        BY <2>1, <2>2 DEF Types, CacheTypeOK, Aged
    <3>2. cache[k].left \in Nat /\ cache[k].age \in Nat
        BY <1>0, <3>1 DEF CachedAnswer
    <3> QED BY <1>0, <3>1, <3>2 DEF Aged, AgesOK
  <2>3. ASSUME NEW c \in Readers, NEW k \in Keys, fill'[c][k] # None
        PROVE  fill'[c][k].age + fill'[c][k].left <= FillTime
    <3>1. fill[c][k] \in Filling(k) /\ Aged(fill[c][k], fill'[c][k])
        BY <2>1, <2>3 DEF Types, FillTypeOK, Aged
    <3>2. fill[c][k].left \in Nat /\ fill[c][k].age \in Nat
        BY <1>0, <3>1 DEF Filling
    <3> QED BY <1>0, <3>1, <3>2 DEF Aged, AgesOK
  <2> QED BY <2>2, <2>3 DEF AgesOK, MaxAge
<1>8. ASSUME NEW c \in Replicas, Deliver(c)
      PROVE  AgesOK'
    BY <1>1, <1>8 DEF Deliver, Take
<1> QED BY <1>1, <1>2, <1>3, <1>4, <1>5, <1>6, <1>7, <1>8
        DEF Next, Handle, CallEnds, vars, CommitChange, FailInternal, PublishSpotUpdated, UpsertSpot

LEMMA TypesAndAges == Spec => [](Types /\ AgesOK)
<1>1. Init => AgesOK
    BY DEF Init, AgesOK
<1>2. AgesOK => Living
    BY DEF AgesOK, Living
<1> QED BY <1>1, <1>2, InitTypes, TypesKept, AgesKept, PTL DEF Spec

\* Messages, rows and answers keep their types: no message is delivered more often
\* than MaxDeliver, no answer stays longer than its TTL, no fill outlives its timeout.
THEOREM SearchTypeOK == Spec => []TypeOK
BY TypesAndAges, TypesImplyTypeOK, PTL

\* Nothing the search service answers from the cache has been behind its read model
\* for as long as a fill and the TTL together, whatever fails and however often.
THEOREM AnswersStayRecent == Spec => []AnswersAreRecent
<1>1. Types /\ AgesOK => AnswersAreRecent
  <2> SUFFICES ASSUME Types, AgesOK, NEW k \in Keys, cache[k] # None
               PROVE  cache[k].age < MaxAge
      BY DEF AnswersAreRecent
  <2>1. cache[k] \in CachedAnswer(k) /\ CacheTTL \in Nat /\ MaxAge \in Nat
      BY TimeAssumption DEF Types, CacheTypeOK, MaxAge
  <2>2. cache[k].age \in Nat /\ cache[k].left \in Nat
      BY <2>1 DEF CachedAnswer
  <2> QED BY <2>1, <2>2 DEF AgesOK
<1> QED BY <1>1, TypesAndAges, PTL

------------------------------------------------------------------------------
(* Stale answers                                                           *)

Suspect(k) == cache[k] # None /\ ~Fresh(cache[k], k) /\ ~cache[k].excused

Doomed(k) ==
    \/ \E c \in Replicas : k \in ToSet(todo[c])
    \/ \E c \in Replicas : stage[c] = "upsert" /\ hand[c].spot \in About(k)
    \/ \E m \in again : m.spot \in About(k)

LEMMA StaleAnswersAre == StaleAnswersAreDoomed <=> \A k \in Keys : Suspect(k) => Doomed(k)
BY DEF StaleAnswersAreDoomed, Suspect, Doomed

LEMMA SuspectsWereSuspect ==
    ASSUME AnswersKept, UNCHANGED rows, NEW k \in Keys, Suspect(k)'
    PROVE  Suspect(k)
<1>1. Snapshot(k)' = Snapshot(k)
    BY DEF Snapshot, About
<1> QED BY <1>1 DEF AnswersKept, Suspect, Fresh

\* What dooms an answer stays, or gets into the hands of a callback.
LEMMA DoomMoves ==
    ASSUME Types, NEW c \in Replicas, NEW k \in Keys, Deliver(c), Doomed(k)
    PROVE  Doomed(k)'
<1>1. PICK m \in Waiting : Take(c, m) /\ again \subseteq again' \cup {m}
    BY DeliverTakes
<1>2. /\ stage'[c] = "upsert" /\ hand'[c].spot = m.spot /\ stage[c] = "idle" /\ todo[c] = <<>>
      /\ \A d \in Replicas \ {c} :
            stage'[d] = stage[d] /\ todo'[d] = todo[d] /\ hand'[d] = hand[d]
    BY <1>1, TakeKeeps
<1>3. CASE \E d \in Replicas : k \in ToSet(todo[d])
    BY <1>2, <1>3, NothingLeft DEF Doomed
<1>4. CASE \E d \in Replicas : stage[d] = "upsert" /\ hand[d].spot \in About(k)
    BY <1>2, <1>4 DEF Doomed, About
<1>5. CASE \E n \in again : n.spot \in About(k)
    BY <1>1, <1>2, <1>5 DEF Doomed, About
<1> QED BY <1>3, <1>4, <1>5 DEF Doomed

\* A call that ends leaves a message that is due again, or excuses the answers it
\* has not deleted.
LEMMA DoomSurvivesCall ==
    ASSUME Types, NEW c \in Replicas, NEW k \in Keys, CallEnds(c), Suspect(k)', Doomed(k)
    PROVE  Doomed(k)'
<1>1. /\ Free(c) /\ UNCHANGED rows /\ stage[c] # "idle" /\ AnswersKept
      /\ \A d \in Replicas \ {c} :
            stage'[d] = stage[d] /\ todo'[d] = todo[d] /\ hand'[d] = hand[d]
    BY CallEndsKeeps, CallEndsTypes, FreeKeeps DEF Types
<1>2. hand[c] \in Message /\ hand[c].spot \in Spots
    BY <1>1 DEF Types, CallTypeOK, CallOK, Message
<1>3. ToSet(KeysOf[hand[c].spot]) = {l \in Keys : hand[c].spot \in About(l)}
    BY <1>2, KeysOfSpot
<1>4. cache'[k] # None /\ ~cache'[k].excused
    BY DEF Suspect
<1>5. CASE Redeliver(c)
  <2>1. /\ again \subseteq again'
        /\ \/ hand[c] \in again'
           \/ /\ ~(stage[c] = "upsert" /\ k \in ToSet(KeysOf[hand[c].spot]))
              /\ k \notin ToSet(todo[c])
      BY <1>1, <1>4, <1>5, RedeliverKeeps
  <2>2. k \in ToSet(todo[c]) => hand[c].spot \in About(k)
      BY <1>1, <1>3, NothingLeft DEF Types, CallTypeOK, CallOK
  <2>3. CASE \E d \in Replicas : k \in ToSet(todo[d])
      BY <1>1, <2>1, <2>2, <2>3 DEF Doomed, About
  <2>4. CASE \E d \in Replicas : stage[d] = "upsert" /\ hand[d].spot \in About(k)
      BY <1>1, <1>3, <2>1, <2>4 DEF Doomed, About
  <2>5. CASE \E m \in again : m.spot \in About(k)
      BY <2>1, <2>5 DEF Doomed, About
  <2> QED BY <2>3, <2>4, <2>5 DEF Doomed
<1>6. CASE stage[c] = "delete" /\ todo[c] = <<>> /\ UNCHANGED again
    BY <1>1, <1>6, NothingLeft DEF Doomed, About
<1> QED BY <1>5, <1>6, CallEndsKeeps

LEMMA StaleKept ==
    ASSUME Types, AgesOK, StaleAnswersAreDoomed, [Next]_vars
    PROVE  StaleAnswersAreDoomed'
<1> SUFFICES ASSUME NEW k \in Keys, Suspect(k)' PROVE Doomed(k)'
    BY StaleAnswersAre DEF StaleAnswersAreDoomed, Suspect, Doomed
<1>1. Suspect(k) => Doomed(k)
    BY StaleAnswersAre
<1>2. CASE UNCHANGED <<callVars, again, rows, cache>>
    BY <1>1, <1>2, SameCache, SuspectsWereSuspect DEF Doomed, callVars, Types, About
<1>3. ASSUME NEW c \in Replicas, Deliver(c)
      PROVE  Doomed(k)'
  <2>1. Suspect(k)
      BY <1>3, SameCache, SuspectsWereSuspect DEF Deliver, Take, Types
  <2> QED BY <1>1, <1>3, <2>1, DoomMoves
<1>4. ASSUME NEW c \in Replicas, UpsertSpot(c)
      PROVE  Doomed(k)'
  <2>1. /\ hand[c].spot \in Spots /\ stage[c] = "upsert"
        /\ rows' = [rows EXCEPT ![hand[c].spot] = [status |-> hand[c].status, n |-> hand[c].n]]
        /\ todo'[c] = KeysOf[hand[c].spot] /\ UNCHANGED <<again, hand, cache>>
        /\ \A d \in Replicas \ {c} : stage'[d] = stage[d] /\ todo'[d] = todo[d]
      BY <1>4, UpsertKeeps
  <2>2. CASE hand[c].spot \in About(k)
      BY <2>1, <2>2, KeysOfSpot DEF Doomed
  <2>3. CASE hand[c].spot \notin About(k)
    <3>1. \A s \in About(k) : rows'[s] = rows[s]
        BY <2>1, <2>3 DEF Types, RowTypeOK, About
    <3>2. Snapshot(k)' = Snapshot(k)
        BY <3>1 DEF Snapshot, About
    <3>3. Doomed(k)
        BY <1>1, <2>1, <3>2 DEF Suspect, Fresh
    <3>4. todo[c] = <<>>
        BY <2>1 DEF Types, CallTypeOK, CallOK
    <3> QED BY <2>1, <2>3, <3>3, <3>4, NothingLeft DEF Doomed, About
  <2> QED BY <2>2, <2>3
<1>5. ASSUME NEW c \in Replicas, DeleteKey(c)
      PROVE  Doomed(k)'
  <2>1. /\ AnswersKept /\ UNCHANGED <<rows, again, hand, stage>>
        /\ ToSet(todo[c]) = {Head(todo[c])} \cup ToSet(todo'[c])
        /\ \A d \in Replicas \ {c} : todo'[d] = todo[d]
        /\ cache'[Head(todo[c])] # None => cache'[Head(todo[c])].excused
      BY <1>5, DeleteKeyKeeps DEF busVars
  <2>2. Doomed(k) /\ k # Head(todo[c])
      BY <1>1, <2>1, SuspectsWereSuspect DEF Suspect
  <2> QED BY <2>1, <2>2 DEF Doomed, About
<1>6. ASSUME NEW c \in Replicas, CallEnds(c)
      PROVE  Doomed(k)'
  <2>1. Suspect(k)
      BY <1>6, CallEndsKeeps, CallEndsTypes, SuspectsWereSuspect
  <2> QED BY <1>1, <1>6, <2>1, DoomSurvivesCall
<1>7. ASSUME NEW c \in Replicas, Crash(c)
      PROVE  Doomed(k)'
  <2>1. CASE stage[c] = "idle"
    <3>1. /\ UNCHANGED <<rows, again, cache>>
          /\ \A d \in Replicas : todo'[d] = todo[d] /\ stage'[d] = stage[d]
          /\ \A d \in Replicas : stage[d] # "idle" => hand'[d] = hand[d]
        BY <1>7, <2>1, IdleCrashKeeps
    <3>2. Doomed(k)
        BY <1>1, <3>1, SameCache, SuspectsWereSuspect DEF Types
    <3> QED BY <3>1, <3>2 DEF Doomed, About
  <2> QED BY <1>6, <1>7, <2>1 DEF CallEnds
<1>8. ASSUME NEW c \in Readers, NEW l \in Keys, EndFill(c, l)
      PROVE  Doomed(k)'
  <2>1. UNCHANGED <<callVars, again, rows>>
      BY <1>8 DEF EndFill, busVars
  <2>2. CASE CacheAnswer(c, l)
    <3>1. /\ cache'[l].shows = fill[c][l].shows
          /\ cache'[l].excused = (fill[c][l].shows # Snapshot(l))
          /\ \A j \in Keys \ {l} : cache'[j] = cache[j]
        BY <1>8, <2>2, CacheAnswerKeeps DEF EndFill
    <3>2. Snapshot(k)' = Snapshot(k)
        BY <2>1 DEF Snapshot, About
    <3>3. k # l
        BY <3>1, <3>2 DEF Suspect, Fresh
    <3>4. Suspect(k)
        BY <3>1, <3>2, <3>3 DEF Suspect, Fresh
    <3> QED BY <1>1, <2>1, <3>4 DEF Doomed, callVars, About
  <2> QED BY <1>2, <1>8, <2>1, <2>2 DEF EndFill
<1>9. CASE Tick
  <2>1. UNCHANGED <<callVars, again, rows>> /\ cache'[k] # None /\ cache[k] # None
        /\ cache'[k].shows = cache[k].shows /\ cache'[k].excused = cache[k].excused
      BY <1>9, TickAges DEF Tick, busVars, Suspect, AgesOK, Aged
  <2>2. Snapshot(k)' = Snapshot(k)
      BY <2>1 DEF Snapshot, About
  <2> QED BY <1>1, <2>1, <2>2 DEF Suspect, Fresh, Doomed, callVars, About
<1> QED BY <1>2, <1>3, <1>4, <1>5, <1>6, <1>7, <1>8, <1>9
        DEF Next, Handle, CallEnds, vars, busVars, CommitChange, FailInternal, PublishSpotUpdated, BeginFill

\* An answer that was cached in time and no longer agrees with the read model is going
\* to be deleted: the callback that changed the row has the key still before it, or the
\* event is due again. Over lost acks, failed upserts and crashes in between.
THEOREM StaleAnswersWillGo == Spec => []StaleAnswersAreDoomed
<1>1. Init => StaleAnswersAreDoomed
    BY DEF Init, StaleAnswersAreDoomed
<1> QED BY <1>1, TypesAndAges, StaleKept, PTL DEF Spec

------------------------------------------------------------------------------
(* Events: what is on its way is about a change that has been committed,   *)
(* and the newest change is on its way or applied                          *)

\* A change of s that has been committed.
Committed(s, st, n) == n <= truth[s].n /\ (n = truth[s].n => st = truth[s].status)

InHand(m) == \E c \in Replicas : stage[c] # "idle" /\ hand[c] = m

\* Events under way, applied or not.
Around(m) == UnderWay(m) \/ InHand(m)

EventsAreCommitted ==
    /\ \A m \in Message : Around(m) => Committed(m.spot, m.status, m.n)
    /\ \A s \in Spots : Committed(s, rows[s].status, rows[s].n)

\* Apart from the new event of a commit, a step brings no event about that was not
\* there, whatever the number of its deliveries; and what was to be applied is, unless
\* the step soils the spot or is the upsert of that event.
SameEvent(m, n) == m.spot = n.spot /\ m.status = n.status /\ m.n = n.n

NoNewEvents == \A m \in Message : Around(m)' => \E n \in Message : Around(n) /\ SameEvent(m, n)

EventsStay(s) ==
    clean'[s] => /\ clean[s]
                 /\ \A m \in Message : UnderWay(m) /\ m.spot = s =>
                        \E n \in Message : UnderWay(n)' /\ SameEvent(m, n)

LEMMA SameEvents ==
    ASSUME UNCHANGED <<pub, stream, again, hand, stage, clean>>
    PROVE  NoNewEvents /\ \A s \in Spots : EventsStay(s)
BY DEF NoNewEvents, EventsStay, Around, UnderWay, InHand, SameEvent

LEMMA PublishMovesEvent ==
    ASSUME Types, NEW p \in Publishers, PublishSpotUpdated(p)
    PROVE  NoNewEvents /\ \A s \in Spots : EventsStay(s)
<1>1. /\ pub[p] \in Message /\ pub[p].spot \in Spots /\ stream \in Seq(Waiting) /\ pub[p] \in Waiting
      /\ pub' = [pub EXCEPT ![p] = None] /\ UNCHANGED <<again, hand, stage>>
      /\ pub \in [Publishers -> Waiting \cup {None}] /\ clean \in [Spots -> BOOLEAN]
    BY DEF PublishSpotUpdated, Types, BusTypeOK, Waiting, Message, callVars
<1>2. pub'[p] = None /\ \A q \in Publishers \ {p} : pub'[q] = pub[q]
    BY <1>1
<1>3. CASE stream' = Append(stream, pub[p]) /\ UNCHANGED clean
  <2>1. ToSet(stream') = ToSet(stream) \cup {pub[p]}
      BY <1>1, <1>3, AppendedIsLast
  <2>2. \A m \in Message : UnderWay(m)' <=> UnderWay(m)
      BY <1>1, <1>2, <2>1, NoneAssumption DEF UnderWay
  <2> QED BY <1>1, <1>3, <2>2 DEF NoNewEvents, EventsStay, Around, InHand, SameEvent
<1>4. CASE Soil(pub[p].spot) /\ UNCHANGED stream
  <2>1. \A s \in Spots : clean'[s] => clean[s] /\ s # pub[p].spot
      BY <1>1, <1>4 DEF Soil
  <2>2. \A m \in Message : UnderWay(m)' => UnderWay(m)
      BY <1>1, <1>2, <1>4, NoneAssumption DEF UnderWay
  <2>3. \A m \in Message : UnderWay(m) /\ m # pub[p] => UnderWay(m)'
      BY <1>1, <1>2, <1>4 DEF UnderWay
  <2> QED BY <1>1, <2>1, <2>2, <2>3 DEF NoNewEvents, EventsStay, Around, InHand, SameEvent
<1> QED BY <1>3, <1>4 DEF PublishSpotUpdated

LEMMA DeliverMovesEvent ==
    ASSUME Types, NEW c \in Replicas, Deliver(c)
    PROVE  NoNewEvents /\ \A s \in Spots : EventsStay(s)
<1>1. PICK m \in Waiting :
          /\ Take(c, m) /\ m \in ToSet(stream) \cup again
          /\ again' \subseteq again /\ again \subseteq again' \cup {m}
          /\ ToSet(stream) \subseteq ToSet(stream') \cup {m} /\ ToSet(stream') \subseteq ToSet(stream)
    BY DeliverTakes
<1>2. /\ UNCHANGED <<pub, clean>> /\ m \in Message
      /\ stage[c] = "idle" /\ stage'[c] = "upsert" /\ hand'[c] \in Message /\ SameEvent(hand'[c], m)
      /\ \A d \in Replicas \ {c} : stage'[d] = stage[d] /\ hand'[d] = hand[d]
    BY <1>1, TakeKeeps DEF Take, SameEvent, Waiting
<1>3. PICK taken \in Message : taken = hand'[c]
    BY <1>2
<1>4. UnderWay(m) /\ UnderWay(taken)' /\ SameEvent(taken, m)
    BY <1>1, <1>2, <1>3 DEF UnderWay
<1>5. \A n \in Message : Around(n)' => Around(n) \/ n = taken
    BY <1>1, <1>2, <1>3 DEF Around, UnderWay, InHand
<1>6. NoNewEvents
    BY <1>2, <1>4, <1>5 DEF NoNewEvents, Around, SameEvent
<1>7. \A n \in Message : UnderWay(n) /\ n # m => UnderWay(n)'
    BY <1>1, <1>2 DEF UnderWay
<1>8. \A s \in Spots : EventsStay(s)
    BY <1>2, <1>4, <1>7 DEF EventsStay, SameEvent
<1> QED BY <1>6, <1>8

LEMMA CallEndsMovesEvent ==
    ASSUME Types, NEW c \in Replicas, CallEnds(c)
    PROVE  NoNewEvents /\ \A s \in Spots : EventsStay(s)
<1>1. /\ UNCHANGED <<pub, stream>> /\ stage[c] # "idle" /\ stage'[c] = "idle"
      /\ \A d \in Replicas \ {c} : stage'[d] = stage[d] /\ hand'[d] = hand[d]
      /\ hand[c] \in Message /\ hand[c].spot \in Spots /\ clean \in [Spots -> BOOLEAN]
    BY CallEndsKeeps, FreeKeeps DEF Types, BusTypeOK, CallTypeOK, CallOK, Message
<1>2. /\ again \subseteq again' /\ \A m \in again' : m \in again \/ m = hand[c]
      /\ \A s \in Spots : clean'[s] => clean[s]
      /\ hand[c] \in again' \/ (stage[c] = "upsert" => ~clean'[hand[c].spot])
  <2>1. CASE Redeliver(c)
      BY <1>1, <2>1, RedeliverKeeps
  <2>2. CASE stage[c] = "delete" /\ UNCHANGED <<again, clean>>
      BY <2>2
  <2> QED BY <2>1, <2>2, CallEndsKeeps
<1>3. \A m \in Message : Around(m)' => Around(m)
    BY <1>1, <1>2 DEF Around, UnderWay, InHand
<1>4. \A m \in Message : UnderWay(m) => UnderWay(m)' \/ (stage[c] = "upsert" /\ m = hand[c])
    BY <1>1, <1>2 DEF UnderWay
<1>5. \A m \in Message : m \in again' => UnderWay(m)'
    BY DEF UnderWay
<1>6. NoNewEvents
    BY <1>3 DEF NoNewEvents, SameEvent
<1>7. \A s \in Spots : EventsStay(s)
    BY <1>1, <1>2, <1>4, <1>5 DEF EventsStay, SameEvent
<1> QED BY <1>6, <1>7

\* The steps that commit nothing and change no row.
LEMMA EventsMove ==
    ASSUME Types, [Next]_vars
    PROVE  \/ UNCHANGED <<truth, rows>> /\ NoNewEvents /\ \A s \in Spots : EventsStay(s)
           \/ \E p \in Publishers, s \in Spots, st \in SpotStatus : CommitChange(p, s, st)
           \/ \E s \in Spots : FailInternal(s)
           \/ \E c \in Replicas : UpsertSpot(c)
<1>1. CASE UNCHANGED <<pub, stream, again, hand, stage, clean>> /\ UNCHANGED <<truth, rows>>
    BY <1>1, SameEvents
<1>2. ASSUME NEW c \in Replicas, Crash(c)
      PROVE  UNCHANGED <<truth, rows>> /\ NoNewEvents /\ \A s \in Spots : EventsStay(s)
  <2>1. CASE stage[c] = "idle"
    <3>1. /\ UNCHANGED <<truth, rows, pub, stream, again, clean>>
          /\ \A d \in Replicas : stage'[d] = stage[d]
          /\ \A d \in Replicas : stage[d] # "idle" => hand'[d] = hand[d]
        BY <1>2, <2>1, IdleCrashKeeps DEF Crash
    <3>2. \A m \in Message : (Around(m)' <=> Around(m)) /\ (UnderWay(m)' <=> UnderWay(m))
        BY <3>1 DEF Around, UnderWay, InHand
    <3> QED BY <3>1, <3>2 DEF NoNewEvents, EventsStay, SameEvent
  <2> QED BY <1>2, <2>1, CallEndsMovesEvent DEF CallEnds, Crash
<1>3. ASSUME NEW p \in Publishers, PublishSpotUpdated(p)
      PROVE  UNCHANGED <<truth, rows>> /\ NoNewEvents /\ \A s \in Spots : EventsStay(s)
    BY <1>3, PublishMovesEvent DEF PublishSpotUpdated
<1>4. ASSUME NEW c \in Replicas, Deliver(c)
      PROVE  UNCHANGED <<truth, rows>> /\ NoNewEvents /\ \A s \in Spots : EventsStay(s)
    BY <1>4, DeliverMovesEvent DEF Deliver, Take
<1>5. ASSUME NEW c \in Replicas, UpsertFails(c) \/ Ack(c)
      PROVE  UNCHANGED <<truth, rows>> /\ NoNewEvents /\ \A s \in Spots : EventsStay(s)
    BY <1>5, CallEndsMovesEvent DEF CallEnds, UpsertFails, Ack
<1>6. CASE \/ \E c \in Replicas : DeleteKey(c)
           \/ \E c \in Readers, k \in Keys : BeginFill(c, k) \/ EndFill(c, k)
           \/ Tick \/ UNCHANGED vars
    BY <1>1, <1>6 DEF DeleteKey, BeginFill, EndFill, Tick, vars, busVars, callVars
<1> QED BY <1>2, <1>3, <1>4, <1>5, <1>6 DEF Next, Handle

\* What a commit does to the events and to what the others may show.
LEMMA CommitKeepsEvents ==
    ASSUME Types, NEW p \in Publishers, NEW s \in Spots, NEW st \in SpotStatus, CommitChange(p, s, st)
    PROVE  /\ UNCHANGED <<rows, clean>>
           /\ \A m \in Message : UnderWay(m) => UnderWay(m)'
           /\ \A m \in Message : Around(m)' => Around(m) \/ m = pub'[p]
<1>1. UNCHANGED <<rows, clean, stream, again, hand, stage>>
    BY DEF CommitChange, callVars
<1>2. pub[p] = None /\ \A q \in Publishers \ {p} : pub'[q] = pub[q]
    BY CommitMakesEvent
<1>3. \A m \in Message : UnderWay(m) => UnderWay(m)'
    BY <1>1, <1>2, NoneAssumption DEF UnderWay
<1>4. \A m \in Message : Around(m)' => Around(m) \/ m = pub'[p]
    BY <1>1, <1>2 DEF Around, UnderWay, InHand
<1> QED BY <1>1, <1>3, <1>4

\* A change that has been committed stays so when the next one is.
LEMMA CommittedStays ==
    ASSUME Types, NEW s \in Spots, NEW st \in SpotStatus, Commit(s, st), UNCHANGED rows
    PROVE  /\ truth'[s].status = st /\ truth'[s].n = truth[s].n + 1
           /\ \A r \in Spots \ {s} : truth'[r] = truth[r]
           /\ \A r \in Spots, any \in SpotStatus, n \in 0..MaxChanges :
                  Committed(r, any, n) => Committed(r, any, n)'
<1>1. truth' = [truth EXCEPT ![s] = [status |-> st, n |-> truth[s].n + 1]]
      /\ truth \in [Spots -> Change] /\ truth[s].n \in 0..MaxChanges /\ truth[s].n \in Nat
    BY CommitKeepsRows, BoundsAssumption DEF Types, RowTypeOK, Change
<1>2. /\ truth'[s].status = st /\ truth'[s].n = truth[s].n + 1
      /\ \A r \in Spots \ {s} : truth'[r] = truth[r]
    BY <1>1
<1>3. ASSUME NEW r \in Spots, NEW any \in SpotStatus, NEW n \in 0..MaxChanges, Committed(r, any, n)
      PROVE  Committed(r, any, n)'
    BY <1>1, <1>2, <1>3, BoundsAssumption DEF Committed
<1> QED BY <1>2, <1>3

LEMMA EventsStayCommitted ==
    ASSUME Types, EventsAreCommitted, [Next]_vars
    PROVE  EventsAreCommitted'
<1>1. /\ \A m \in Message : m.spot \in Spots /\ m.status \in SpotStatus /\ m.n \in 0..MaxChanges
      /\ \A s \in Spots : rows[s].status \in SpotStatus /\ rows[s].n \in 0..MaxChanges
    BY DEF Message, Types, RowTypeOK, Change
<1>2. CASE UNCHANGED <<truth, rows>> /\ NoNewEvents
  <2>1. \A m \in Message : Committed(m.spot, m.status, m.n)' <=> Committed(m.spot, m.status, m.n)
      BY <1>2 DEF Committed
  <2>2. \A m \in Message : Around(m)' => Committed(m.spot, m.status, m.n)
      BY <1>2 DEF NoNewEvents, SameEvent, EventsAreCommitted
  <2>3. \A s \in Spots : Committed(s, rows[s].status, rows[s].n)'
      BY <1>2 DEF Committed, EventsAreCommitted
  <2> QED BY <2>1, <2>2, <2>3 DEF EventsAreCommitted
<1>3. ASSUME NEW p \in Publishers, NEW s \in Spots, NEW st \in SpotStatus, CommitChange(p, s, st)
      PROVE  EventsAreCommitted'
  <2>1. Commit(s, st) /\ UNCHANGED rows
      BY <1>3 DEF CommitChange
  <2>2. PICK e \in Message : e = pub'[p] /\ e.spot = s /\ e.status = st /\ e.n = truth[s].n + 1
      BY <1>3, CommitMakesEvent DEF Waiting
  <2>3. Committed(e.spot, e.status, e.n)'
      BY <1>1, <2>1, <2>2, CommittedStays, BoundsAssumption DEF Committed
  <2>4. \A m \in Message : Around(m)' => Committed(m.spot, m.status, m.n)'
      BY <1>1, <1>3, <2>1, <2>2, <2>3, CommitKeepsEvents, CommittedStays DEF EventsAreCommitted
  <2>5. \A r \in Spots : Committed(r, rows[r].status, rows[r].n)'
      BY <1>1, <2>1, CommittedStays DEF EventsAreCommitted, Committed
  <2> QED BY <2>4, <2>5 DEF EventsAreCommitted
<1>4. ASSUME NEW s \in Spots, FailInternal(s)
      PROVE  EventsAreCommitted'
  <2>1. Commit(s, "available") /\ UNCHANGED rows /\ "available" \in SpotStatus
        /\ UNCHANGED <<pub, stream, again, hand, stage>>
      BY <1>4 DEF FailInternal, SpotStatus, callVars
  <2>2. \A m \in Message : Around(m)' <=> Around(m)
      BY <2>1 DEF Around, UnderWay, InHand
  <2>3. \A m \in Message : Around(m)' => Committed(m.spot, m.status, m.n)'
      BY <1>1, <2>1, <2>2, CommittedStays DEF EventsAreCommitted
  <2>4. \A r \in Spots : Committed(r, rows[r].status, rows[r].n)'
      BY <1>1, <2>1, CommittedStays DEF EventsAreCommitted, Committed
  <2> QED BY <2>3, <2>4 DEF EventsAreCommitted
<1>5. ASSUME NEW c \in Replicas, UpsertSpot(c)
      PROVE  EventsAreCommitted'
  <2>1. PICK m \in Message : m = hand[c]
      BY <1>5, UpsertKeeps
  <2>2. /\ m.spot \in Spots /\ UNCHANGED <<truth, pub, stream, again, hand>>
        /\ rows' = [rows EXCEPT ![m.spot] = [status |-> m.status, n |-> m.n]]
        /\ stage[c] = "upsert" /\ stage'[c] = "delete"
        /\ \A d \in Replicas \ {c} : stage'[d] = stage[d]
      BY <1>5, <2>1, UpsertKeeps
  <2>3. \A n \in Message : Around(n)' => Around(n)
      BY <2>2 DEF Around, UnderWay, InHand
  <2>4. Around(m)
      BY <2>1, <2>2 DEF Around, InHand
  <2>5. \A n \in Message : Around(n)' => Committed(n.spot, n.status, n.n)'
      BY <2>2, <2>3 DEF EventsAreCommitted, Committed
  <2>6. /\ rows'[m.spot].status = m.status /\ rows'[m.spot].n = m.n
        /\ \A r \in Spots \ {m.spot} : rows'[r] = rows[r]
      BY <2>2 DEF Types, RowTypeOK
  <2>7. \A r \in Spots : Committed(r, rows[r].status, rows[r].n)'
      BY <2>1, <2>2, <2>4, <2>6 DEF EventsAreCommitted, Committed
  <2> QED BY <2>5, <2>7 DEF EventsAreCommitted
<1> QED BY <1>2, <1>3, <1>4, <1>5, EventsMove

LEMMA NewestEventStays ==
    ASSUME Types, EventsAreCommitted, NewestEventIsUnderWay, [Next]_vars
    PROVE  NewestEventIsUnderWay'
<1>1. CASE UNCHANGED <<truth, rows>> /\ \A s \in Spots : EventsStay(s)
  <2> SUFFICES ASSUME NEW s \in Spots, clean'[s], rows'[s] # truth'[s]
               PROVE  \E m \in Message : UnderWay(m)' /\ IsNewest(m, s)'
      BY DEF NewestEventIsUnderWay
  <2>1. PICK m \in Message : UnderWay(m) /\ IsNewest(m, s)
      BY <1>1 DEF NewestEventIsUnderWay, EventsStay
  <2>2. PICK n \in Message : UnderWay(n)' /\ SameEvent(m, n)
      BY <1>1, <2>1 DEF EventsStay, IsNewest
  <2> QED BY <1>1, <2>1, <2>2 DEF IsNewest, SameEvent
<1>2. ASSUME NEW p \in Publishers, NEW s \in Spots, NEW st \in SpotStatus, CommitChange(p, s, st)
      PROVE  NewestEventIsUnderWay'
  <2>1. Commit(s, st) /\ UNCHANGED rows
      BY <1>2 DEF CommitChange
  <2>2. PICK e \in Message : e = pub'[p] /\ e.spot = s /\ e.status = st /\ e.n = truth[s].n + 1
      BY <1>2, CommitMakesEvent DEF Waiting
  <2>3. UnderWay(e)' /\ IsNewest(e, s)'
      BY <2>1, <2>2, CommittedStays DEF UnderWay, IsNewest
  <2>4. ASSUME NEW r \in Spots \ {s}, clean'[r], rows'[r] # truth'[r]
        PROVE  \E m \in Message : UnderWay(m)' /\ IsNewest(m, r)'
    <3>1. truth'[r] = truth[r] /\ clean[r] /\ rows[r] # truth[r]
        BY <1>2, <2>1, <2>4, CommittedStays, CommitKeepsEvents
    <3>2. PICK m \in Message : UnderWay(m) /\ IsNewest(m, r)
        BY <3>1 DEF NewestEventIsUnderWay
    <3> QED BY <1>2, <3>1, <3>2, CommitKeepsEvents DEF IsNewest
  <2> QED BY <2>3, <2>4 DEF NewestEventIsUnderWay
<1>3. ASSUME NEW s \in Spots, FailInternal(s)
      PROVE  NewestEventIsUnderWay'
  <2>1. Commit(s, "available") /\ UNCHANGED rows /\ "available" \in SpotStatus
        /\ UNCHANGED <<pub, stream, again, hand, stage>>
        /\ clean' = [clean EXCEPT ![s] = FALSE] /\ clean \in [Spots -> BOOLEAN]
      BY <1>3 DEF FailInternal, SpotStatus, callVars, Soil, Types, BusTypeOK
  <2>2. ASSUME NEW r \in Spots, clean'[r], rows'[r] # truth'[r]
        PROVE  \E m \in Message : UnderWay(m)' /\ IsNewest(m, r)'
    <3>1. r # s /\ clean[r] /\ truth'[r] = truth[r] /\ rows[r] # truth[r]
        BY <2>1, <2>2, CommittedStays
    <3>2. PICK m \in Message : UnderWay(m) /\ IsNewest(m, r)
        BY <3>1 DEF NewestEventIsUnderWay
    <3> QED BY <2>1, <3>1, <3>2 DEF UnderWay, IsNewest
  <2> QED BY <2>2 DEF NewestEventIsUnderWay
<1>4. ASSUME NEW c \in Replicas, UpsertSpot(c)
      PROVE  NewestEventIsUnderWay'
  <2>1. PICK m \in Message : m = hand[c]
      BY <1>4, UpsertKeeps
  <2>2. /\ m.spot \in Spots /\ UNCHANGED <<truth, pub, stream, again, hand>>
        /\ rows' = [rows EXCEPT ![m.spot] = [status |-> m.status, n |-> m.n]]
        /\ \A s \in Spots : clean'[s] => clean[s] /\ (s = m.spot => rows[s].n <= m.n)
        /\ stage[c] = "upsert" /\ stage'[c] = "delete"
        /\ \A d \in Replicas \ {c} : stage'[d] = stage[d]
      BY <1>4, <2>1, UpsertKeeps
  <2>3. \A n \in Message : UnderWay(n) /\ n # m => UnderWay(n)'
      BY <2>1, <2>2 DEF UnderWay
  <2>4. Committed(m.spot, m.status, m.n)
      BY <2>1, <2>2 DEF EventsAreCommitted, Around, InHand
  <2>5. ASSUME NEW s \in Spots, clean'[s], rows'[s] # truth'[s]
        PROVE  \E n \in Message : UnderWay(n)' /\ IsNewest(n, s)'
    <3>1. clean[s] /\ truth'[s] = truth[s]
        BY <2>2, <2>5
    <3>2. rows[s] # truth[s] /\ (s = m.spot => truth[s].n # m.n)
      <4>1. CASE s = m.spot
        <5>1. rows'[s] = [status |-> m.status, n |-> m.n]
            BY <2>2, <4>1 DEF Types, RowTypeOK
        <5>2. truth[s].n # m.n
            BY <2>4, <2>5, <3>1, <4>1, <5>1 DEF Committed, Types, RowTypeOK, Change
        <5>3. truth[s].n \in Nat /\ m.n \in Nat /\ rows[s].n \in Nat
            BY BoundsAssumption DEF Types, RowTypeOK, Change, Message
        <5>4. rows[s].n <= m.n /\ m.n <= truth[s].n
            BY <2>2, <2>4, <2>5, <4>1 DEF Committed
        <5> QED BY <5>2, <5>3, <5>4
      <4>2. CASE s # m.spot
          BY <2>2, <2>5, <3>1, <4>2 DEF Types, RowTypeOK
      <4> QED BY <4>1, <4>2
    <3>3. PICK n \in Message : UnderWay(n) /\ IsNewest(n, s)
        BY <3>1, <3>2 DEF NewestEventIsUnderWay
    <3>4. n # m
        BY <3>2, <3>3 DEF IsNewest
    <3> QED BY <2>3, <3>1, <3>3, <3>4 DEF IsNewest
  <2> QED BY <2>5 DEF NewestEventIsUnderWay
<1> QED BY <1>1, <1>2, <1>3, <1>4, EventsMove

LEMMA NewestEventAtFirst == Init => EventsAreCommitted /\ NewestEventIsUnderWay
<1> SUFFICES ASSUME Init PROVE EventsAreCommitted /\ NewestEventIsUnderWay
    OBVIOUS
<1>1. \A m \in Message : ~Around(m)
    BY NoneAssumption, NothingLeft DEF Init, Around, UnderWay, InHand
<1>2. \A s \in Spots : Committed(s, rows[s].status, rows[s].n) /\ rows[s] = truth[s]
    BY DEF Init, Committed
<1> QED BY <1>1, <1>2 DEF EventsAreCommitted, NewestEventIsUnderWay

\* A row that is behind what the reservation service has committed, of a spot none of
\* whose events was lost or overtaken, has the event of the newest change still to come:
\* a consumer that is down, a failed upsert or a lost ack only delays it.
THEOREM NewestEventStaysUnderWay == Spec => []NewestEventIsUnderWay
<1>1. Init => EventsAreCommitted /\ NewestEventIsUnderWay
    BY NewestEventAtFirst
<1>2. Types /\ EventsAreCommitted /\ NewestEventIsUnderWay /\ [Next]_vars
          => EventsAreCommitted' /\ NewestEventIsUnderWay'
    BY EventsStayCommitted, NewestEventStays
<1> QED BY <1>1, <1>2, TypesAndAges, PTL DEF Spec

------------------------------------------------------------------------------
(* From the commit to the answer                                           *)

\* No event is on its way and no callback is at work.
Quiet ==
    /\ \A p \in Publishers : pub[p] = None
    /\ stream = <<>> /\ again = {}
    /\ \A c \in Replicas : stage[c] = "idle"

\* When the bus has come to rest a cached answer shows what the reservation service
\* has committed, if no event about it was lost or overtaken and the answer was not
\* excused (cached too late, or its deletion failed).
QuietAnswersAreTrue ==
    Quiet => \A k \in Keys :
        cache[k] # None /\ ~cache[k].excused /\ (\A s \in About(k) : clean[s]) =>
            cache[k].shows = [s \in About(k) |-> truth[s].status]

\* From the commit over the event, the read model and the cache to the answer, for any
\* number of spots, replicas, readers and publishers and whatever fails.
THEOREM AnswersTellTheTruth == Spec => []QuietAnswersAreTrue
<1>1. ASSUME Types, NewestEventIsUnderWay, StaleAnswersAreDoomed
      PROVE  QuietAnswersAreTrue
  <2> SUFFICES ASSUME Quiet, NEW k \in Keys, cache[k] # None, ~cache[k].excused,
                      \A s \in About(k) : clean[s]
               PROVE  cache[k].shows = [s \in About(k) |-> truth[s].status]
      BY DEF QuietAnswersAreTrue
  <2>1. \A m \in Message : ~UnderWay(m)
      BY NoneAssumption, NothingLeft DEF Quiet, UnderWay
  <2>2. \A s \in About(k) : rows[s] = truth[s]
      BY <1>1, <2>1 DEF NewestEventIsUnderWay, About
  <2>3. \A c \in Replicas : ToSet(todo[c]) = {}
      BY <1>1, NothingLeft DEF Quiet, Types, CallTypeOK, CallOK
  <2>4. cache[k].shows = Snapshot(k)
      BY <1>1, <2>3 DEF Quiet, StaleAnswersAreDoomed, Fresh
  <2> QED BY <2>2, <2>4 DEF Snapshot
<1> QED BY <1>1, TypesAndAges, NewestEventStaysUnderWay, StaleAnswersWillGo, PTL
=============================================================================
