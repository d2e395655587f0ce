-------------------------- MODULE RequestQueueProofs --------------------------
(* Theorems about RequestQueue, for every number of threads, every capacity  *)
(* and every number of requests.                                             *)
EXTENDS RequestQueue, FiniteSetTheorems, SequenceTheorems, TLAPS

---------------------------------------------------------------------------
\* What the three ways of changing one phase do to the sets of waiting threads.

OneMoreWoken(f, g) ==
    /\ Cardinality(Waiting(f, "woken")) \in Nat
    /\ Cardinality(Waiting(g, "woken")) = Cardinality(Waiting(f, "woken")) + 1
    /\ Waiting(g, "parked") \subseteq Waiting(f, "parked")

OneLessWaiting(f, g, t) ==
    /\ Cardinality(Waiting(f, "woken")) \in Nat
    /\ Cardinality(Waiting(g, "woken")) \in Nat
    /\ Cardinality(Waiting(g, "woken")) + 1 >= Cardinality(Waiting(f, "woken"))
    /\ f[t] # "woken" => Waiting(g, "woken") = Waiting(f, "woken")
    /\ Waiting(g, "parked") \subseteq Waiting(f, "parked")

\* A parked thread is woken: one more is woken.
LEMMA WakeOne ==
    ASSUME NEW S, IsFiniteSet(S), NEW f \in [S -> ThreadPhases], NEW t \in S,
           NEW g, g = [f EXCEPT ![t] = "woken"], f[t] # "woken"
    PROVE  g \in [S -> ThreadPhases] /\ OneMoreWoken(f, g)
  <1>1. g \in [S -> ThreadPhases]
    BY DEF ThreadPhases
  <1>2. Waiting(f, "woken") \in SUBSET S
    BY DEF Waiting
  <1>3. IsFiniteSet(Waiting(f, "woken"))
    BY <1>2, FS_Subset
  <1>4. Waiting(g, "woken") = Waiting(f, "woken") \cup {t}
    BY <1>1 DEF Waiting
  <1>5. t \notin Waiting(f, "woken")
    BY DEF Waiting
  <1>6. Waiting(g, "parked") \subseteq Waiting(f, "parked")
    BY <1>1 DEF Waiting
  <1> QED
    BY <1>1, <1>3, <1>4, <1>5, <1>6, FS_AddElement, FS_CardinalityType DEF OneMoreWoken

\* A thread goes somewhere else than to the waiting ones: at most one fewer is
\* woken, and none fewer if this one was not.
LEMMA GoOn ==
    ASSUME NEW S, IsFiniteSet(S), NEW f \in [S -> ThreadPhases], NEW t \in S,
           NEW v \in ThreadPhases \ {"woken", "parked"}, NEW g, g = [f EXCEPT ![t] = v]
    PROVE  g \in [S -> ThreadPhases] /\ OneLessWaiting(f, g, t)
  <1>1. /\ g \in [S -> ThreadPhases] /\ DOMAIN f = S /\ DOMAIN g = S
        /\ \A u \in S : g[u] = IF u = t THEN v ELSE f[u]
    OBVIOUS
  <1>2. Waiting(f, "woken") \in SUBSET S
    BY DEF Waiting
  <1>3. IsFiniteSet(Waiting(f, "woken"))
    BY <1>2, FS_Subset
  <1>4. Waiting(g, "woken") = Waiting(f, "woken") \ {t}
    BY <1>1 DEF Waiting
  <1>5. f[t] # "woken" => Waiting(g, "woken") = Waiting(f, "woken")
    <2>1. f[t] # "woken" => t \notin Waiting(f, "woken")
      BY DEF Waiting
    <2> QED
      BY <1>4, <2>1
  <1>6. Waiting(g, "parked") \subseteq Waiting(f, "parked")
    BY <1>1 DEF Waiting
  <1>7. /\ IsFiniteSet(Waiting(g, "woken"))
        /\ Cardinality(Waiting(g, "woken")) =
             IF t \in Waiting(f, "woken") THEN Cardinality(Waiting(f, "woken")) - 1
                                          ELSE Cardinality(Waiting(f, "woken"))
    <2> DEFINE W == Waiting(f, "woken")
    <2>1. /\ IsFiniteSet(W \ {t})
          /\ Cardinality(W \ {t}) = IF t \in W THEN Cardinality(W) - 1 ELSE Cardinality(W)
      BY <1>3, FS_RemoveElement
    <2> QED
      BY <1>4, <2>1
  <1>8. Cardinality(Waiting(f, "woken")) \in Nat /\ Cardinality(Waiting(g, "woken")) \in Nat
    BY <1>3, <1>7, FS_CardinalityType
  <1>9. Cardinality(Waiting(g, "woken")) + 1 >= Cardinality(Waiting(f, "woken"))
    <2> DEFINE a == Cardinality(Waiting(f, "woken"))
               b == Cardinality(Waiting(g, "woken"))
    <2>1. a \in Nat /\ b \in Nat /\ (b = a - 1 \/ b = a)
      BY <1>7, <1>8
    <2> HIDE DEF a, b
    <2>2. b + 1 >= a
      BY <2>1
    <2> QED
      BY <2>2 DEF a, b
  <1> QED
    BY <1>1, <1>5, <1>6, <1>8, <1>9 DEF OneLessWaiting

\* A notification wakes one parked thread, or finds none.
LEMMA Notified ==
    ASSUME NEW S, IsFiniteSet(S), NEW f \in [S -> ThreadPhases], NEW g, NotifyOne(f, g)
    PROVE  /\ g \in [S -> ThreadPhases]
           /\ Waiting(g, "parked") # {} =>
                /\ Waiting(f, "parked") # {}
                /\ Cardinality(Waiting(f, "woken")) \in Nat
                /\ Cardinality(Waiting(g, "woken")) = Cardinality(Waiting(f, "woken")) + 1
           /\ \A t \in S : g[t] = f[t] \/ (f[t] = "parked" /\ g[t] = "woken")
  <1>1. CASE Waiting(f, "parked") = {}
    BY <1>1 DEF NotifyOne
  <1>2. CASE Waiting(f, "parked") # {}
    <2>1. PICK t \in Waiting(f, "parked") : g = [f EXCEPT ![t] = "woken"]
      BY <1>2 DEF NotifyOne
    <2>2. t \in S /\ f[t] = "parked" /\ f[t] # "woken"
      BY DEF Waiting
    <2>3. g \in [S -> ThreadPhases] /\ OneMoreWoken(f, g)
      BY <2>1, <2>2, WakeOne
    <2>4. \A u \in S : g[u] = f[u] \/ (f[u] = "parked" /\ g[u] = "woken")
      BY <2>1, <2>2
    <2> QED
      BY <1>2, <2>3, <2>4 DEF OneMoreWoken
  <1> QED
    BY <1>1, <1>2

---------------------------------------------------------------------------
\* Taking the head of one sequence to the end of another keeps their whole.
LEMMA HeadMoves ==
    ASSUME NEW S, NEW s \in Seq(S), NEW t \in Seq(S), t # <<>>
    PROVE  Append(s, Head(t)) \o Tail(t) = s \o t
  <1> DEFINE l == Append(s, Head(t)) \o Tail(t)
             r == s \o t
  <1>1. /\ Head(t) \in S /\ Head(t) = t[1] /\ Tail(t) \in Seq(S)
        /\ Len(s) \in Nat /\ Len(t) \in Nat \ {0} /\ Len(Tail(t)) = Len(t) - 1
        /\ \A i \in 1 .. Len(t) - 1 : Tail(t)[i] = t[i + 1]
    BY HeadTailProperties
  <1>2. /\ Append(s, Head(t)) \in Seq(S) /\ Len(Append(s, Head(t))) = Len(s) + 1
        /\ \A i \in 1 .. Len(s) : Append(s, Head(t))[i] = s[i]
        /\ Append(s, Head(t))[Len(s) + 1] = t[1]
    BY <1>1, AppendProperties
  <1>3. /\ l \in Seq(S) /\ Len(l) = Len(s) + 1 + (Len(t) - 1)
        /\ \A i \in 1 .. Len(s) + 1 + (Len(t) - 1) :
             l[i] = IF i <= Len(s) + 1 THEN Append(s, Head(t))[i] ELSE Tail(t)[i - (Len(s) + 1)]
    BY <1>1, <1>2, ConcatProperties
  <1>4. /\ r \in Seq(S) /\ Len(r) = Len(s) + Len(t)
        /\ \A i \in 1 .. Len(s) + Len(t) : r[i] = IF i <= Len(s) THEN s[i] ELSE t[i - Len(s)]
    BY ConcatProperties
  <1> HIDE DEF l, r
  <1>5. Len(l) = Len(r) /\ Len(l) = Len(s) + Len(t)
    BY <1>1, <1>3, <1>4
  <1>6. ASSUME NEW i \in 1 .. Len(l) PROVE l[i] = r[i]
    <2>0. i \in 1 .. Len(s) + 1 + (Len(t) - 1) /\ i \in 1 .. Len(s) + Len(t) /\ i \in Nat
      BY <1>1, <1>5
    <2>1. CASE i <= Len(s)
      <3>1. l[i] = Append(s, Head(t))[i] /\ r[i] = s[i] /\ i \in 1 .. Len(s)
        BY <1>1, <1>3, <1>4, <2>0, <2>1
      <3> QED
        BY <1>2, <3>1
    <2>2. CASE i = Len(s) + 1
      <3>1. l[i] = Append(s, Head(t))[Len(s) + 1] /\ r[i] = t[1]
        BY <1>1, <1>3, <1>4, <2>0, <2>2
      <3> QED
        BY <1>2, <3>1
    <2>3. CASE i > Len(s) + 1
      <3>1. i - (Len(s) + 1) \in 1 .. Len(t) - 1 /\ (i - (Len(s) + 1)) + 1 = i - Len(s)
        BY <1>1, <1>5, <2>3
      <3>2. l[i] = Tail(t)[i - (Len(s) + 1)] /\ r[i] = t[i - Len(s)]
        BY <1>1, <1>3, <1>4, <1>5, <2>3
      <3> QED
        BY <1>1, <3>1, <3>2
    <2> QED
      BY <1>1, <1>5, <2>1, <2>2, <2>3
  <1>7. l = r
    BY <1>3, <1>4, <1>5, <1>6, SeqEqual
  <1> QED
    BY <1>7 DEF l, r

---------------------------------------------------------------------------
USE CapacityAssumption, ThreadsAssumption, ItemsAssumption

THEOREM InitInv == QueueInit => QueueInv
  <1> SUFFICES ASSUME QueueInit PROVE QueueInv
    OBVIOUS
  <1>1. QueueTypeOK /\ IdsFresh
    BY DEF QueueInit, QueueTypeOK, IdsFresh, Items, ThreadPhases
  <1>2. FifoOnce
    BY DEF QueueInit, FifoOnce
  <1>3. NoLostWakeup
    BY DEF QueueInit, NoLostWakeup, Waiting
  <1> QED
    BY <1>1, <1>2, <1>3 DEF QueueInv

LEMMA NextType == QueueInv /\ [QueueNext]_queueVars => QueueTypeOK'
  <1> SUFFICES ASSUME QueueInv, [QueueNext]_queueVars PROVE QueueTypeOK'
    OBVIOUS
  <1>0. /\ QueueTypeOK
        /\ producer \in [Producers -> ThreadPhases] /\ consumer \in [Consumers -> ThreadPhases]
        /\ \A p \in Producers : producer[p] # "idle" => making[p] \in Items
    BY DEF QueueInv, QueueTypeOK, IdsFresh
  <1>1. CASE UNCHANGED queueVars
    BY <1>0, <1>1 DEF queueVars, QueueTypeOK
  <1>2. ASSUME NEW p \in Producers, DrawId(p) PROVE QueueTypeOK'
    BY <1>0, <1>2 DEF DrawId, QueueTypeOK, Items, ThreadPhases
  <1>3. ASSUME NEW p \in Producers, Push(p) PROVE QueueTypeOK'
    <2>1. making[p] \in Items
      BY <1>0, <1>3 DEF Push
    <2>2. consumer' \in [Consumers -> ThreadPhases \ {"ready"}]
      <3>1. /\ consumer' \in [Consumers -> ThreadPhases]
            /\ \A c \in Consumers : consumer'[c] = consumer[c] \/ consumer'[c] = "woken"
        BY <1>0, <1>3, Notified DEF Push
      <3> QED
        BY <1>0, <3>1 DEF QueueTypeOK
    <2>3. /\ queue' \in Seq(Items) /\ Len(queue') = Len(queue) + 1
          /\ accepted' \in Seq(Items) /\ Len(queue) \in Nat
      BY <1>0, <1>3, <2>1 DEF Push, QueueTypeOK
    <2>4. Len(queue') <= Capacity
      BY <1>3, <2>3 DEF Push, Full
    <2> QED
      BY <1>0, <1>3, <2>2, <2>3, <2>4 DEF Push, QueueTypeOK, ThreadPhases
  <1>4. ASSUME NEW p \in Producers, Refuse(p) PROVE QueueTypeOK'
    <2>1. making[p] \in Items
      BY <1>0, <1>4 DEF Refuse
    <2> QED
      BY <1>0, <1>4, <2>1 DEF Refuse, QueueTypeOK, ThreadPhases
  <1>5. ASSUME NEW p \in Producers, ParkProducer(p) \/ LeaveProducer(p) PROVE QueueTypeOK'
    BY <1>0, <1>5 DEF ParkProducer, LeaveProducer, QueueTypeOK, ThreadPhases
  <1>6. ASSUME NEW c \in Consumers, PopItem(c) PROVE QueueTypeOK'
    <2>1. producer' \in [Producers -> ThreadPhases]
      BY <1>0, <1>6, Notified DEF PopItem
    <2>2. /\ queue' \in Seq(Items) /\ Len(queue') = Len(queue) - 1
          /\ Len(queue) \in Nat /\ Head(queue) \in Items
      BY <1>0, <1>6 DEF PopItem, QueueTypeOK
    <2>3. Len(queue') <= Capacity /\ handed' \in Seq(Items)
      BY <1>0, <1>6, <2>2 DEF PopItem, QueueTypeOK
    <2> QED
      BY <1>0, <1>6, <2>1, <2>2, <2>3 DEF PopItem, QueueTypeOK, ThreadPhases
  <1>7. ASSUME NEW c \in Consumers, ParkConsumer(c) \/ PopNothing(c) \/ LeaveConsumer(c)
        PROVE  QueueTypeOK'
    BY <1>0, <1>7 DEF ParkConsumer, PopNothing, LeaveConsumer, QueueTypeOK, ThreadPhases
  <1>8. CASE Drain
    BY <1>0, <1>8 DEF Drain, QueueTypeOK, ThreadPhases
  <1> QED
    BY <1>1, <1>2, <1>3, <1>4, <1>5, <1>6, <1>7, <1>8 DEF QueueNext

\* Only DrawId makes an id, Push and Refuse use it up.
LEMMA NextIds == QueueInv /\ [QueueNext]_queueVars => IdsFresh'
  <1> SUFFICES ASSUME QueueInv, [QueueNext]_queueVars PROVE IdsFresh'
    OBVIOUS
  <1>0. QueueTypeOK /\ IdsFresh
    BY DEF QueueInv
  <1>0a. /\ making \in [Producers -> Items \cup {0}] /\ producer \in [Producers -> ThreadPhases]
         /\ nextId \in Nat \ {0} /\ accepted \in Seq(Items)
         /\ DOMAIN accepted = 1 .. Len(accepted) /\ Len(accepted) \in Nat
         /\ \A i \in DOMAIN accepted : accepted[i] \in Items
    BY <1>0 DEF QueueTypeOK
  <1>1. CASE UNCHANGED queueVars
    BY <1>0, <1>1 DEF queueVars, IdsFresh
  <1>2. ASSUME NEW p \in Producers, DrawId(p) PROVE IdsFresh'
    <2>1. /\ making' = [making EXCEPT ![p] = nextId] /\ nextId' = nextId + 1
          /\ producer' = [producer EXCEPT ![p] = "ready"]
          /\ producer[p] = "idle" /\ UNCHANGED <<accepted, dropped>>
      BY <1>2 DEF DrawId
    <2>2. /\ \A r \in Producers : making[r] \in Nat
          /\ \A i \in DOMAIN accepted : accepted[i] \in Nat
          /\ \A d \in dropped : d \in Nat
      BY <1>0, <1>0a DEF Items, QueueTypeOK
    <2> QED
      BY <1>0, <1>0a, <2>1, <2>2 DEF IdsFresh
  <1>3. ASSUME NEW p \in Producers, Push(p) PROVE IdsFresh'
    <2>1. /\ making' = [making EXCEPT ![p] = 0] /\ UNCHANGED <<nextId, dropped>>
          /\ producer' = [producer EXCEPT ![p] = "idle"]
          /\ accepted' = Append(accepted, making[p])
          /\ making[p] # 0
      BY <1>0, <1>3 DEF Push, IdsFresh
    <2>2. \A i \in DOMAIN accepted' : accepted'[i] = making[p]
                                   \/ (i \in DOMAIN accepted /\ accepted'[i] = accepted[i])
      BY <1>0a, <2>1
    <2>3. \A i \in DOMAIN accepted' : accepted'[i] < nextId
      BY <1>0, <2>2 DEF IdsFresh
    <2>4. ASSUME NEW i \in DOMAIN accepted', NEW r \in Producers PROVE accepted'[i] # making'[r]
      <3>1. CASE r = p
        <4>1. accepted'[i] # 0
          BY <1>0a, <2>1, <2>2 DEF Items
        <4> QED
          BY <1>0a, <2>1, <3>1, <4>1
      <3>2. CASE r # p
        BY <1>0, <1>0a, <2>1, <2>2, <3>2 DEF IdsFresh
      <3> QED
        BY <3>1, <3>2
    <2>5. 0 < nextId /\ 0 \notin dropped
      BY <1>0, <1>0a DEF QueueTypeOK, Items
    <2> QED
      BY <1>0, <1>0a, <2>1, <2>3, <2>4, <2>5 DEF IdsFresh
  <1>4. ASSUME NEW p \in Producers, Refuse(p) PROVE IdsFresh'
    <2>1. /\ making' = [making EXCEPT ![p] = 0] /\ UNCHANGED <<nextId, accepted>>
          /\ producer' = [producer EXCEPT ![p] = "idle"]
          /\ dropped' = dropped \cup {making[p]}
          /\ making[p] # 0
      BY <1>0, <1>4 DEF Refuse, IdsFresh
    <2>2. 0 < nextId /\ 0 \notin dropped /\ \A i \in DOMAIN accepted : accepted[i] # 0
      BY <1>0, <1>0a DEF QueueTypeOK, Items
    <2> QED
      BY <1>0, <1>0a, <2>1, <2>2 DEF IdsFresh
  <1>5. ASSUME NEW p \in Producers, ParkProducer(p) \/ LeaveProducer(p) PROVE IdsFresh'
    BY <1>0, <1>0a, <1>5 DEF ParkProducer, LeaveProducer, IdsFresh
  <1>6. ASSUME NEW c \in Consumers, PopItem(c) PROVE IdsFresh'
    <2>1. /\ producer' \in [Producers -> ThreadPhases]
          /\ \A r \in Producers : producer'[r] = producer[r]
                               \/ (producer[r] = "parked" /\ producer'[r] = "woken")
      BY <1>0a, <1>6, Notified DEF PopItem
    <2>2. UNCHANGED <<making, nextId, accepted, dropped>>
      BY <1>6 DEF PopItem
    <2> QED
      BY <1>0, <1>0a, <2>1, <2>2 DEF IdsFresh
  <1>7. ASSUME NEW c \in Consumers, ParkConsumer(c) \/ PopNothing(c) \/ LeaveConsumer(c)
        PROVE  IdsFresh'
    BY <1>0, <1>7 DEF ParkConsumer, PopNothing, LeaveConsumer, IdsFresh
  <1>8. CASE Drain
    BY <1>0, <1>0a, <1>8 DEF Drain, IdsFresh
  <1> QED
    BY <1>1, <1>2, <1>3, <1>4, <1>5, <1>6, <1>7, <1>8 DEF QueueNext

\* Items move from the back of the queue to the back of what was handed out.
LEMMA NextFifo == QueueInv /\ [QueueNext]_queueVars => FifoOnce'
  <1> SUFFICES ASSUME QueueInv, [QueueNext]_queueVars PROVE FifoOnce'
    OBVIOUS
  <1>0. QueueTypeOK /\ IdsFresh /\ FifoOnce
    BY DEF QueueInv
  <1>0a. /\ queue \in Seq(Items) /\ handed \in Seq(Items) /\ accepted \in Seq(Items)
         /\ making \in [Producers -> Items \cup {0}]
    BY <1>0 DEF QueueTypeOK
  <1>1. CASE UNCHANGED <<queue, handed, accepted, dropped>>
    BY <1>0, <1>1 DEF FifoOnce
  <1>3. ASSUME NEW p \in Producers, Push(p) PROVE FifoOnce'
    <2>1. /\ queue' = Append(queue, making[p]) /\ UNCHANGED <<handed, dropped>>
          /\ accepted' = Append(accepted, making[p])
          /\ making[p] \in Items
      BY <1>0, <1>0a, <1>3 DEF Push, IdsFresh
    <2>2. accepted' = handed' \o queue'
      BY <1>0, <1>0a, <2>1 DEF FifoOnce
    <2>3. /\ DOMAIN accepted = 1 .. Len(accepted) /\ Len(accepted) \in Nat
          /\ DOMAIN accepted' = 1 .. Len(accepted) + 1
          /\ \A i \in 1 .. Len(accepted) : accepted'[i] = accepted[i]
          /\ accepted'[Len(accepted) + 1] = making[p]
      BY <1>0a, <2>1
    <2>4. \A i \in DOMAIN accepted : accepted[i] # making[p]
      BY <1>0 DEF IdsFresh
    <2>5. ASSUME NEW i \in DOMAIN accepted', NEW j \in DOMAIN accepted', accepted'[i] = accepted'[j]
          PROVE  i = j
      <3>1. \A k \in DOMAIN accepted' : k \in DOMAIN accepted \/ k = Len(accepted) + 1
        BY <2>3
      <3>2. CASE i \in DOMAIN accepted /\ j \in DOMAIN accepted
        BY <1>0, <2>3, <2>5, <3>2 DEF FifoOnce
      <3>3. CASE i = Len(accepted) + 1 /\ j \in DOMAIN accepted
        BY <2>3, <2>4, <2>5, <3>3
      <3>4. CASE j = Len(accepted) + 1 /\ i \in DOMAIN accepted
        BY <2>3, <2>4, <2>5, <3>4
      <3> QED
        BY <3>1, <3>2, <3>3, <3>4
    <2>6. \A i \in DOMAIN accepted' : accepted'[i] \notin dropped'
      BY <1>0, <2>1, <2>3 DEF FifoOnce, IdsFresh
    <2> QED
      BY <2>2, <2>5, <2>6 DEF FifoOnce
  <1>4. ASSUME NEW p \in Producers, Refuse(p) PROVE FifoOnce'
    BY <1>0, <1>4 DEF Refuse, FifoOnce, IdsFresh
  <1>6. ASSUME NEW c \in Consumers, PopItem(c) PROVE FifoOnce'
    <2>1. /\ queue # <<>> /\ queue' = Tail(queue) /\ handed' = Append(handed, Head(queue))
          /\ UNCHANGED <<accepted, dropped>>
      BY <1>6 DEF PopItem
    <2>2. handed' \o queue' = handed \o queue
      BY <1>0a, <2>1, HeadMoves
    <2> QED
      BY <1>0, <2>1, <2>2 DEF FifoOnce
  <1>8. CASE Drain
    <2>1. queue' = <<>> /\ handed' = handed \o queue /\ UNCHANGED <<accepted, dropped>>
      BY <1>8 DEF Drain
    <2>2. handed' \o queue' = handed \o queue
      BY <1>0a, <2>1
    <2> QED
      BY <1>0, <2>1, <2>2 DEF FifoOnce
  <1> QED
    BY <1>1, <1>3, <1>4, <1>6, <1>8 DEF QueueNext, queueVars, DrawId, ParkProducer, LeaveProducer,
       ParkConsumer, PopNothing, LeaveConsumer

ProducersServed ==
    Waiting(producer, "parked") # {}
      => Capacity - Len(queue) <= Cardinality(Waiting(producer, "woken"))
ConsumersServed ==
    Waiting(consumer, "parked") # {} => Len(queue) <= Cardinality(Waiting(consumer, "woken"))

\* How many are woken is a number.
LEMMA WokenCount ==
    ASSUME NEW S, IsFiniteSet(S), NEW f \in [S -> ThreadPhases]
    PROVE  Cardinality(Waiting(f, "woken")) \in Nat
  <1>1. Waiting(f, "woken") \in SUBSET S
    BY DEF Waiting
  <1> QED
    BY <1>1, FS_Subset, FS_CardinalityType

\* A freed slot wakes a producer; a woken producer leaves with a slot or finds none.
LEMMA NextProducers == QueueInv /\ QueueTypeOK' /\ [QueueNext]_queueVars => ProducersServed'
  <1> SUFFICES ASSUME QueueInv, QueueTypeOK', [QueueNext]_queueVars PROVE ProducersServed'
    OBVIOUS
  <1>0. /\ producer \in [Producers -> ThreadPhases] /\ producer' \in [Producers -> ThreadPhases]
        /\ queue \in Seq(Items) /\ queue' \in Seq(Items)
        /\ Len(queue) \in Nat /\ Len(queue') \in Nat /\ Len(queue) <= Capacity
        /\ ProducersServed
    BY DEF QueueInv, QueueTypeOK, NoLostWakeup, ProducersServed
  <1>0a. /\ Cardinality(Waiting(producer, "woken")) \in Nat
         /\ Cardinality(Waiting(producer', "woken")) \in Nat
    BY <1>0, WokenCount
  <1>0b. /\ IsFiniteSet(Producers) /\ "idle" \in ThreadPhases \ {"woken", "parked"}
         /\ "ready" \in ThreadPhases \ {"woken", "parked"} /\ "expired" \in ThreadPhases \ {"woken", "parked"}
    BY DEF ThreadPhases
  <1>1. CASE UNCHANGED <<queue, producer>>
    BY <1>0, <1>1 DEF ProducersServed
  <1>2. ASSUME NEW p \in Producers, DrawId(p) PROVE ProducersServed'
    <2>1. producer[p] = "idle" /\ producer' = [producer EXCEPT ![p] = "ready"] /\ queue' = queue
      BY <1>2 DEF DrawId
    <2>2. OneLessWaiting(producer, producer', p)
      BY <1>0, <1>0b, <2>1, GoOn
    <2> QED
      BY <1>0, <2>1, <2>2 DEF ProducersServed, OneLessWaiting
  <1>3. ASSUME NEW p \in Producers, Push(p) PROVE ProducersServed'
    <2>1. producer' = [producer EXCEPT ![p] = "idle"] /\ Len(queue') = Len(queue) + 1
      BY <1>0, <1>3 DEF Push
    <2>2. OneLessWaiting(producer, producer', p)
      BY <1>0, <1>0b, <2>1, GoOn
    <2> DEFINE a == Cardinality(Waiting(producer, "woken"))
               b == Cardinality(Waiting(producer', "woken"))
    <2>3. a \in Nat /\ b \in Nat /\ b + 1 >= a
      BY <1>0a, <2>2 DEF OneLessWaiting
    <2>4. Waiting(producer', "parked") # {} => Capacity - Len(queue) <= a
      BY <1>0, <2>2 DEF ProducersServed, OneLessWaiting
    <2> DEFINE n == Len(queue)
               m == Len(queue')
    <2>5. n \in Nat /\ m = n + 1
      BY <1>0, <2>1
    <2> HIDE DEF a, b, n, m
    <2>6. Capacity - n <= a => Capacity - m <= b
      BY <2>3, <2>5
    <2> QED
      BY <2>4, <2>6 DEF ProducersServed, b, n, m
  <1>4. ASSUME NEW p \in Producers, Refuse(p) PROVE ProducersServed'
    <2>1. producer' = [producer EXCEPT ![p] = "idle"] /\ queue' = queue
      BY <1>4 DEF Refuse
    <2>2. OneLessWaiting(producer, producer', p)
      BY <1>0, <1>0b, <2>1, GoOn
    <2>3. CASE producer[p] = "expired"
      BY <1>0, <2>1, <2>2, <2>3 DEF ProducersServed, OneLessWaiting
    <2>4. CASE Full
      BY <1>0, <1>0a, <2>1, <2>4 DEF ProducersServed, Full
    <2> QED
      BY <1>4, <2>3, <2>4 DEF Refuse
  <1>5. ASSUME NEW p \in Producers, ParkProducer(p) PROVE ProducersServed'
    BY <1>0, <1>0a, <1>5 DEF ParkProducer, ProducersServed, Full
  <1>6. ASSUME NEW p \in Producers, LeaveProducer(p) PROVE ProducersServed'
    <2>1. producer[p] = "parked" /\ queue' = queue
      BY <1>6 DEF LeaveProducer
    <2>2. CASE producer' = [producer EXCEPT ![p] = "expired"]
      <3>1. OneLessWaiting(producer, producer', p)
        BY <1>0, <1>0b, <2>1, <2>2, GoOn
      <3> QED
        BY <1>0, <2>1, <3>1 DEF ProducersServed, OneLessWaiting
    <2>3. CASE producer' = [producer EXCEPT ![p] = "woken"]
      <3>1. OneMoreWoken(producer, producer')
        BY <1>0, <1>0b, <2>1, <2>3, WakeOne
      <3> QED
        BY <1>0, <1>0a, <2>1, <3>1 DEF ProducersServed, OneMoreWoken
    <2> QED
      BY <1>6, <2>2, <2>3 DEF LeaveProducer
  <1>7. ASSUME NEW c \in Consumers, PopItem(c) PROVE ProducersServed'
    <2>1. Len(queue') = Len(queue) - 1
      BY <1>0, <1>7 DEF PopItem
    <2>2. Waiting(producer', "parked") # {} =>
            /\ Waiting(producer, "parked") # {}
            /\ Cardinality(Waiting(producer', "woken")) = Cardinality(Waiting(producer, "woken")) + 1
      BY <1>0, <1>7, Notified DEF PopItem
    <2> QED
      BY <1>0, <1>0a, <2>1, <2>2 DEF ProducersServed
  <1>8. CASE Drain
    <2>1. Waiting(producer', "parked") = {}
      BY <1>0, <1>8 DEF Drain, Waiting
    <2> QED
      BY <2>1 DEF ProducersServed
  <1> QED
    BY <1>1, <1>2, <1>3, <1>4, <1>5, <1>6, <1>7, <1>8
    DEF QueueNext, queueVars, ParkConsumer, PopNothing, LeaveConsumer

\* An item wakes a consumer; a woken consumer leaves with an item or finds none.
LEMMA NextConsumers == QueueInv /\ QueueTypeOK' /\ [QueueNext]_queueVars => ConsumersServed'
  <1> SUFFICES ASSUME QueueInv, QueueTypeOK', [QueueNext]_queueVars PROVE ConsumersServed'
    OBVIOUS
  <1>0. /\ consumer \in [Consumers -> ThreadPhases] /\ consumer' \in [Consumers -> ThreadPhases]
        /\ queue \in Seq(Items) /\ Len(queue) \in Nat /\ Len(queue') \in Nat
        /\ ConsumersServed
    BY DEF QueueInv, QueueTypeOK, NoLostWakeup, ConsumersServed
  <1>0a. /\ Cardinality(Waiting(consumer, "woken")) \in Nat
         /\ Cardinality(Waiting(consumer', "woken")) \in Nat
    BY <1>0, WokenCount
  <1>0b. IsFiniteSet(Consumers) /\ "idle" \in ThreadPhases \ {"woken", "parked"} /\ "expired" \in ThreadPhases \ {"woken", "parked"}
    BY DEF ThreadPhases
  <1>1. CASE UNCHANGED <<queue, consumer>>
    BY <1>0, <1>1 DEF ConsumersServed
  <1>2. CASE queue' = <<>>
    BY <1>0, <1>0a, <1>2 DEF ConsumersServed
  <1>3. ASSUME NEW p \in Producers, Push(p) PROVE ConsumersServed'
    <2>1. Len(queue') = Len(queue) + 1
      BY <1>0, <1>3 DEF Push
    <2>2. Waiting(consumer', "parked") # {} =>
            /\ Waiting(consumer, "parked") # {}
            /\ Cardinality(Waiting(consumer', "woken")) = Cardinality(Waiting(consumer, "woken")) + 1
      BY <1>0, <1>3, Notified DEF Push
    <2> QED
      BY <1>0, <1>0a, <2>1, <2>2 DEF ConsumersServed
  <1>4. ASSUME NEW c \in Consumers, PopItem(c) PROVE ConsumersServed'
    <2>1. consumer' = [consumer EXCEPT ![c] = "idle"] /\ Len(queue') = Len(queue) - 1
      BY <1>0, <1>4 DEF PopItem
    <2>2. OneLessWaiting(consumer, consumer', c)
      BY <1>0, <1>0b, <2>1, GoOn
    <2> DEFINE a == Cardinality(Waiting(consumer, "woken"))
               b == Cardinality(Waiting(consumer', "woken"))
    <2>3. a \in Nat /\ b \in Nat /\ b + 1 >= a
      BY <1>0a, <2>2 DEF OneLessWaiting
    <2>4. Waiting(consumer', "parked") # {} => Len(queue) <= a
      BY <1>0, <2>2 DEF ConsumersServed, OneLessWaiting
    <2> DEFINE n == Len(queue)
               m == Len(queue')
    <2>5. n \in Nat /\ m = n - 1
      BY <1>0, <2>1
    <2> HIDE DEF a, b, n, m
    <2>6. n <= a => m <= b
      BY <2>3, <2>5
    <2> QED
      BY <2>4, <2>6 DEF ConsumersServed, b, n, m
  <1>5. ASSUME NEW c \in Consumers, LeaveConsumer(c) PROVE ConsumersServed'
    <2>1. consumer[c] = "parked" /\ queue' = queue
      BY <1>5 DEF LeaveConsumer
    <2>2. CASE consumer' = [consumer EXCEPT ![c] = "expired"]
      <3>1. OneLessWaiting(consumer, consumer', c)
        BY <1>0, <1>0b, <2>1, <2>2, GoOn
      <3> QED
        BY <1>0, <2>1, <3>1 DEF ConsumersServed, OneLessWaiting
    <2>3. CASE consumer' = [consumer EXCEPT ![c] = "woken"]
      <3>1. OneMoreWoken(consumer, consumer')
        BY <1>0, <1>0b, <2>1, <2>3, WakeOne
      <3> QED
        BY <1>0, <1>0a, <2>1, <3>1 DEF ConsumersServed, OneMoreWoken
    <2> QED
      BY <1>5, <2>2, <2>3 DEF LeaveConsumer
  <1> QED
    BY <1>1, <1>2, <1>3, <1>4, <1>5
    DEF QueueNext, queueVars, DrawId, Refuse, ParkProducer, LeaveProducer, ParkConsumer, PopNothing, Drain

---------------------------------------------------------------------------
\* Types, fresh ids, order and wake-ups, for every number of threads.
THEOREM InductiveInvariant == QueueSpec => []QueueInv
  <1>1. QueueInv /\ [QueueNext]_queueVars => QueueInv'
    BY NextType, NextIds, NextFifo, NextProducers, NextConsumers
    DEF QueueInv, NoLostWakeup, ProducersServed, ConsumersServed
  <1> QED
    BY <1>1, InitInv, PTL DEF QueueSpec

\* The queue never outgrows its capacity, whoever takes the slot a producer was
\* woken for, and accepted items leave it once and in the order in which they came.
THEOREM ItemsLeaveOnceInOrder == QueueSpec => []BoundedFifo
  <1>1. QueueInv => BoundedFifo
    BY DEF QueueInv, QueueTypeOK, BoundedFifo
  <1> QED
    BY <1>1, InductiveInvariant, PTL

\* No wake-up is lost, however many producers and consumers wait and time out.
THEOREM WakeupsAreKept == QueueSpec => []NoLostWakeup
  <1>1. QueueInv => NoLostWakeup
    BY DEF QueueInv
  <1> QED
    BY <1>1, InductiveInvariant, PTL
=============================================================================
