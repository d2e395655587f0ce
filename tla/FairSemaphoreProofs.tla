------------------------- MODULE FairSemaphoreProofs -------------------------
(***************************************************************************)
(* What each semaphore operation preserves, for any number of clients and  *)
(* permits.  The proofs about the engine pool and the async engine cite    *)
(* these lemmas and never open the queue again.                            *)
(***************************************************************************)
EXTENDS FairSemaphore, FiniteSetTheorems, SequenceTheorems, TLAPS

\* The semaphore starts with all of its permits and nobody queued.
LEMMA SemInitInv == SemInit => SemInv
  BY PermitsAssumption, FS_EmptySet
     DEF SemInit, SemInv, SemTypeOK, PermitsConserved,
         NoIdlePermitWhileQueued, QueuedOnce

\* Removing one position of a duplicate-free sequence keeps the others.
LEMMA RemoveAtFacts ==
  ASSUME NEW S, NEW s \in Seq(S), NEW i \in DOMAIN s
  PROVE  /\ RemoveAt(s, i) \in Seq(S)
         /\ Len(RemoveAt(s, i)) = Len(s) - 1
         /\ \A j \in DOMAIN RemoveAt(s, i) :
               RemoveAt(s, i)[j] = IF j < i THEN s[j] ELSE s[j + 1]
<1> DEFINE a == SubSeq(s, 1, i - 1)
           b == SubSeq(s, i + 1, Len(s))
<1>1. /\ Len(s) \in Nat /\ DOMAIN s = 1 .. Len(s) /\ i \in 1 .. Len(s)
  OBVIOUS
<1>2. /\ a \in Seq(S) /\ Len(a) = i - 1
      /\ \A j \in 1 .. (i - 1) : a[j] = s[j]
  BY <1>1
<1>3. /\ b \in Seq(S) /\ Len(b) = Len(s) - i
      /\ \A j \in 1 .. (Len(s) - i) : b[j] = s[i + j]
  BY <1>1
<1>4. RemoveAt(s, i) = a \o b
  BY DEF RemoveAt
<1> HIDE DEF a, b
<1>5. /\ a \o b \in Seq(S)
      /\ Len(a \o b) = Len(s) - 1
      /\ \A j \in 1 .. Len(s) - 1 :
            (a \o b)[j] = IF j <= i - 1 THEN a[j] ELSE b[j - (i - 1)]
  <2>1. Len(a) + Len(b) = Len(s) - 1 /\ Len(a) = i - 1
    BY <1>1, <1>2, <1>3
  <2>2. /\ a \o b \in Seq(S)
        /\ Len(a \o b) = Len(a) + Len(b)
        /\ \A j \in 1 .. Len(a) + Len(b) :
              (a \o b)[j] = IF j <= Len(a) THEN a[j] ELSE b[j - Len(a)]
    BY <1>2, <1>3, ConcatProperties
  <2> QED BY <2>1, <2>2
<1>6. ASSUME NEW j \in 1 .. Len(s) - 1
      PROVE  (a \o b)[j] = IF j < i THEN s[j] ELSE s[j + 1]
  <2>1. CASE j < i
    BY <1>1, <1>2, <1>5, <2>1
  <2>2. CASE ~ (j < i)
    <3>1. j - (i - 1) \in 1 .. (Len(s) - i) /\ i + (j - (i - 1)) = j + 1
      BY <1>1, <2>2
    <3>2. (a \o b)[j] = b[j - (i - 1)]
      BY <1>1, <1>5, <2>2
    <3> QED BY <1>3, <2>2, <3>1, <3>2
  <2> QED BY <2>1, <2>2
<1>7. DOMAIN (a \o b) = 1 .. Len(s) - 1
  BY <1>5
<1> QED BY <1>4, <1>5, <1>6, <1>7

\* A client that is neither queued nor holding joins one of the two.
LEMMA SemRequestInv ==
  ASSUME SemInv, NEW c \in Clients, c \notin holders, ~ Queued(c), SemRequest(c)
  PROVE  /\ SemInv'
         /\ holders' \in {holders, holders \cup {c}}
         /\ \A i \in DOMAIN waiters' :
               waiters'[i] = c \/ \E j \in DOMAIN waiters : waiters'[i] = waiters[j]
<1> USE DEF SemInv, SemTypeOK, PermitsConserved, NoIdlePermitWhileQueued,
            QueuedOnce, Queued
<1>0. IsFiniteSet(holders)
  BY ClientsAssumption, FS_Subset
<1>1. CASE /\ permits > 0
           /\ permits' = permits - 1
           /\ holders' = holders \cup {c}
           /\ UNCHANGED waiters
  <2>1. Cardinality(holders') = Cardinality(holders) + 1
    BY <1>0, <1>1, FS_AddElement
  <2>2. Cardinality(holders) \in Nat
    BY <1>0, FS_CardinalityType
  <2> QED BY <1>1, <2>1, <2>2
<1>2. CASE /\ permits = 0
           /\ waiters' = Append(waiters, c)
           /\ UNCHANGED <<permits, holders>>
  <2>1. /\ waiters' \in Seq(Clients)
        /\ Len(waiters') = Len(waiters) + 1
        /\ \A i \in 1 .. Len(waiters) : waiters'[i] = waiters[i]
        /\ waiters'[Len(waiters) + 1] = c
        /\ DOMAIN waiters = 1 .. Len(waiters)
        /\ DOMAIN waiters' = 1 .. (Len(waiters) + 1)
    BY <1>2, AppendProperties
  <2> QED BY <1>2, <2>1
<1> QED BY <1>1, <1>2 DEF SemRequest

\* A permit given up goes to the head of the queue or becomes free.
LEMMA SemReleaseInv ==
  ASSUME SemInv, NEW c \in Clients, SemRelease(c)
  PROVE  /\ SemInv'
         /\ \A d \in holders' : d \in holders \ {c} \/ Queued(d)
         /\ holders \ {c} \subseteq holders'
         /\ \A i \in DOMAIN waiters' :
               \E j \in DOMAIN waiters : waiters'[i] = waiters[j]
<1> USE DEF SemInv, SemTypeOK, PermitsConserved, NoIdlePermitWhileQueued,
            QueuedOnce, Queued
<1>0. IsFiniteSet(holders) /\ c \in holders
  BY ClientsAssumption, FS_Subset DEF SemRelease
<1>1. /\ IsFiniteSet(holders \ {c})
      /\ Cardinality(holders \ {c}) = Cardinality(holders) - 1
      /\ Cardinality(holders) \in Nat
  BY <1>0, FS_RemoveElement, FS_CardinalityType
<1>2. CASE /\ waiters = <<>>
           /\ permits' = permits + 1
           /\ holders' = holders \ {c}
           /\ UNCHANGED waiters
  BY <1>1, <1>2
<1>3. CASE /\ waiters # <<>>
           /\ holders' = (holders \ {c}) \cup {Head(waiters)}
           /\ waiters' = Tail(waiters)
           /\ UNCHANGED permits
  <2>1. /\ waiters' \in Seq(Clients)
        /\ Len(waiters) \in Nat \ {0}
        /\ Len(waiters') = Len(waiters) - 1
        /\ DOMAIN waiters = 1 .. Len(waiters)
        /\ DOMAIN waiters' = 1 .. (Len(waiters) - 1)
        /\ \A i \in DOMAIN waiters' : waiters'[i] = waiters[i + 1]
        /\ Head(waiters) = waiters[1]
        /\ Head(waiters) \in Clients
    BY <1>3
  <2>2. Head(waiters) \notin holders \ {c}
    BY <2>1
  <2>3. Cardinality(holders') = Cardinality(holders)
    <3> DEFINE rest == holders \ {c}
               heir == Head(waiters)
    <3>1. /\ IsFiniteSet(rest)
          /\ Cardinality(rest) = Cardinality(holders) - 1
          /\ Cardinality(holders) \in Nat
      BY <1>1
    <3>2. heir \notin rest /\ holders' = rest \cup {heir}
      BY <1>3, <2>2
    <3> HIDE DEF rest, heir
    <3>3. Cardinality(rest \cup {heir}) = Cardinality(rest) + 1
      BY <3>1, <3>2, FS_AddElement
    <3> QED BY <3>1, <3>2, <3>3
  <2> QED BY <1>3, <2>1, <2>2, <2>3
<1> QED BY <1>2, <1>3 DEF SemRelease

\* A queued client that gives up leaves the others in their order.
LEMMA SemForgetInv ==
  ASSUME SemInv, NEW c \in Clients, SemForget(c)
  PROVE  /\ SemInv'
         /\ holders' = holders
         /\ \A i \in DOMAIN waiters' :
               waiters'[i] # c /\ \E j \in DOMAIN waiters : waiters'[i] = waiters[j]
<1> USE DEF SemInv, SemTypeOK, PermitsConserved, NoIdlePermitWhileQueued, QueuedOnce
<1>1. PICK k \in DOMAIN waiters :
         /\ waiters[k] = c
         /\ waiters' = RemoveAt(waiters, k)
         /\ UNCHANGED <<permits, holders>>
  BY DEF SemForget
<1>2. /\ waiters' \in Seq(Clients)
      /\ Len(waiters') = Len(waiters) - 1
      /\ \A j \in DOMAIN waiters' :
            waiters'[j] = IF j < k THEN waiters[j] ELSE waiters[j + 1]
      /\ DOMAIN waiters = 1 .. Len(waiters)
      /\ DOMAIN waiters' = 1 .. (Len(waiters) - 1)
      /\ Len(waiters) \in Nat
  BY <1>1, RemoveAtFacts
<1> QED BY <1>1, <1>2
=============================================================================
