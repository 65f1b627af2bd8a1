-------------------------- MODULE TurnSlotsProofs --------------------------
(***************************************************************************)
(* The turn semaphore for any number of turns and slots: no permit is lost *)
(* or made up, none stays idle beside a waiter, the queue is served in     *)
(* order, and together that is the promise of the slot pool.               *)
(***************************************************************************)
EXTENDS TurnSlots, FiniteSetTheorems, SequenceTheorems, WellFoundedInduction, TLAPS

Future == {"none", "pending", "granted", "cancelled"}

GrantedIn(f) == {t \in Turn : f[t] = "granted"}

\* A turn has a future exactly while it queues, and then it is among the waiters.
Queueing ==
    \A t \in Turn :
        /\ fut[t] # "none" <=> pc[t] = "queued"
        /\ fut[t] # "none" => \E i \in DOMAIN waiters : waiters[i] = t

IInv == TypeOK /\ PermitsConserved /\ Queueing

----------------------------------------------------------------------------
(* The waiter queue *)

\* Removing a waiter closes the gap it leaves.
LEMMA RemoveIs ==
    ASSUME NEW s \in Seq(Turn), NEW t \in Turn, \E i \in DOMAIN s : s[i] = t
    PROVE  \E k \in 1..Len(s) :
               /\ s[k] = t
               /\ Remove(s, t) \in Seq(Turn) /\ Len(Remove(s, t)) = Len(s) - 1
               /\ \A i \in 1..(k - 1) : Remove(s, t)[i] = s[i]
               /\ \A i \in k..(Len(s) - 1) : Remove(s, t)[i] = s[i + 1]
<1> DEFINE k == CHOOSE i \in DOMAIN s : s[i] = t
           a == SubSeq(s, 1, k - 1)
           b == SubSeq(s, k + 1, Len(s))
<1>1. k \in 1..Len(s) /\ s[k] = t
  BY DEF Remove
<1> HIDE DEF k
<1>2. /\ a \in Seq(Turn) /\ Len(a) = k - 1
      /\ \A i \in 1..(k - 1) : a[i] = s[i]
  BY <1>1
<1>3. /\ b \in Seq(Turn) /\ Len(b) = Len(s) - k
      /\ \A i \in 1..(Len(s) - k) : b[i] = s[k + i]
  BY <1>1
<1>4. Remove(s, t) = a \o b
  BY DEF Remove, k
<1> HIDE DEF a, b
<1>5. /\ a \o b \in Seq(Turn) /\ Len(a \o b) = Len(s) - 1
      /\ \A i \in 1..(k - 1) : (a \o b)[i] = s[i]
      /\ \A i \in k..(Len(s) - 1) : (a \o b)[i] = s[i + 1]
  <2>1. /\ a \o b \in Seq(Turn) /\ Len(a \o b) = Len(s) - 1
        /\ \A i \in 1..(Len(s) - 1) : (a \o b)[i] = IF i <= k - 1 THEN a[i] ELSE b[i - (k - 1)]
    <3>1. /\ a \o b \in Seq(Turn) /\ Len(a \o b) = Len(a) + Len(b)
          /\ \A i \in 1..(Len(a) + Len(b)) :
                 (a \o b)[i] = IF i <= Len(a) THEN a[i] ELSE b[i - Len(a)]
      BY <1>2, <1>3, ConcatProperties, Zenon
    <3>2. Len(a) = k - 1 /\ Len(b) = Len(s) - k
      BY <1>2, <1>3
    <3>3. Len(a) + Len(b) = Len(s) - 1
      BY <1>1, <3>2
    <3> QED
      BY <3>1, <3>2, <3>3
  <2>2. ASSUME NEW i \in 1..(k - 1) PROVE (a \o b)[i] = s[i]
    BY <1>1, <1>2, <2>1
  <2>3. ASSUME NEW i \in k..(Len(s) - 1) PROVE (a \o b)[i] = s[i + 1]
    <3>1. i - (k - 1) \in 1..(Len(s) - k) /\ k + (i - (k - 1)) = i + 1 /\ ~(i <= k - 1)
      BY <1>1
    <3>2. i \in 1..(Len(s) - 1)
      BY <1>1
    <3> QED
      BY <1>3, <2>1, <3>1, <3>2
  <2> QED
    BY <2>1, <2>2, <2>3
<1> QED
  BY <1>1, <1>4, <1>5

\* It leaves a queue of turns in which every other waiter still is.
LEMMA RemoveFacts ==
    ASSUME NEW s \in Seq(Turn), NEW t \in Turn, \E i \in DOMAIN s : s[i] = t
    PROVE  /\ Remove(s, t) \in Seq(Turn)
           /\ \A u \in Turn \ {t} : (\E i \in DOMAIN s : s[i] = u) =>
                  \E i \in DOMAIN Remove(s, t) : Remove(s, t)[i] = u
<1> DEFINE r == Remove(s, t)
<1>1. PICK k \in 1..Len(s) :
          /\ s[k] = t /\ r \in Seq(Turn) /\ Len(r) = Len(s) - 1
          /\ \A i \in 1..(k - 1) : r[i] = s[i]
          /\ \A i \in k..(Len(s) - 1) : r[i] = s[i + 1]
  BY RemoveIs
<1> HIDE DEF r
<1>2. ASSUME NEW u \in Turn \ {t}, NEW i \in DOMAIN s, s[i] = u
      PROVE  \E j \in DOMAIN r : r[j] = u
  <2>0. DOMAIN r = 1..(Len(s) - 1)
    BY <1>1
  <2>1. i \in 1..Len(s) /\ i # k
    BY <1>1, <1>2
  <2>2. CASE i < k
    <3>1. i \in 1..(k - 1) /\ i \in 1..(Len(s) - 1)
      BY <1>1, <2>1, <2>2
    <3> QED
      BY <1>1, <1>2, <2>0, <3>1
  <2>3. CASE i > k
    <3>1. i - 1 \in k..(Len(s) - 1) /\ (i - 1) + 1 = i /\ i - 1 \in 1..(Len(s) - 1)
      BY <1>1, <2>1, <2>3
    <3> QED
      BY <1>1, <1>2, <2>0, <3>1
  <2> QED
    BY <1>1, <2>1, <2>2, <2>3
<1> QED
  BY <1>1, <1>2 DEF r

\* In a queue without repetitions it removes the waiter altogether, and the others keep
\* their order.
LEMMA RemoveOrder ==
    ASSUME NEW s \in Seq(Turn), NEW t \in Turn, \E i \in DOMAIN s : s[i] = t,
           \A i, j \in DOMAIN s : i # j => s[i] # s[j]
    PROVE  /\ \A i \in DOMAIN Remove(s, t) :
                  \E p \in DOMAIN s : Remove(s, t)[i] = s[p] /\ s[p] # t
           /\ \A i, j \in DOMAIN Remove(s, t) : i < j =>
                  \E p, q \in DOMAIN s : p < q /\ Remove(s, t)[i] = s[p] /\ Remove(s, t)[j] = s[q]
<1> DEFINE r == Remove(s, t)
<1>1. PICK k \in 1..Len(s) :
          /\ s[k] = t /\ r \in Seq(Turn) /\ Len(r) = Len(s) - 1
          /\ \A i \in 1..(k - 1) : r[i] = s[i]
          /\ \A i \in k..(Len(s) - 1) : r[i] = s[i + 1]
  BY RemoveIs
<1> HIDE DEF r
<1> DEFINE at(i) == IF i < k THEN i ELSE i + 1
<1>2. ASSUME NEW i \in DOMAIN r
      PROVE  at(i) \in DOMAIN s /\ at(i) # k /\ r[i] = s[at(i)]
  <2>1. i \in 1..(Len(s) - 1)
    BY <1>1
  <2>2. CASE i < k
    BY <1>1, <2>1, <2>2
  <2>3. CASE ~(i < k)
    <3>1. i \in k..(Len(s) - 1) /\ i + 1 \in 1..Len(s) /\ i + 1 # k
      BY <1>1, <2>1, <2>3
    <3> QED
      BY <1>1, <2>3, <3>1
  <2> QED
    BY <2>2, <2>3
<1>3. ASSUME NEW i \in DOMAIN r, NEW j \in DOMAIN r, i < j
      PROVE  at(i) < at(j)
  <2>1. i \in Int /\ j \in Int /\ k \in Int
    BY <1>1
  <2> QED
    BY <1>3, <2>1
<1> HIDE DEF at
<1>4. \A i \in DOMAIN r : s[at(i)] # t
  BY <1>1, <1>2
<1> QED
  BY <1>2, <1>3, <1>4 DEF r

\* At most one waiter is woken, and it was pending.
LEMMA WokenFacts ==
    ASSUME NEW s \in Seq(Turn), NEW f \in [Turn -> Future]
    PROVE  Woken(s, f) = {} \/ \E w \in Turn : Woken(s, f) = {w} /\ f[w] = "pending"
<1> DEFINE K == {k \in DOMAIN s : f[s[k]] = "pending" /\ \A j \in 1..k-1 : f[s[j]] # "pending"}
<1>1. ASSUME NEW k \in K, NEW l \in K PROVE k = l
  <2>1. k \in 1..Len(s) /\ l \in 1..Len(s)
    OBVIOUS
  <2>2. ~(k < l) /\ ~(l < k)
    BY <2>1
  <2> QED
    BY <2>1, <2>2
<1>2. Woken(s, f) = {s[i] : i \in K}
  BY DEF Woken
<1>3. ASSUME NEW k \in K
      PROVE  s[k] \in Turn /\ f[s[k]] = "pending" /\ Woken(s, f) = {s[k]}
  BY <1>1, <1>2, <1>3
<1> QED
  BY <1>2, <1>3

\* Waking a waiter turns a free permit into a granted one, or leaves both as they are.
LEMMA WakeFacts ==
    ASSUME NEW v \in Nat \ {0}, NEW s \in Seq(Turn), NEW f \in [Turn -> Future], Wake(v, s, f)
    PROVE  /\ waiters' = s /\ value' \in Nat /\ fut' \in [Turn -> Future]
           /\ \A t \in Turn : fut'[t] # "none" <=> f[t] # "none"
           /\ value' + Cardinality(GrantedIn(fut')) = v + Cardinality(GrantedIn(f))
<1>1. IsFiniteSet(GrantedIn(f))
  BY SlotsAssumption, FS_Subset DEF GrantedIn
<1>2. Cardinality(GrantedIn(f)) \in Nat
  BY <1>1, FS_CardinalityType
<1>3. CASE Woken(s, f) = {}
  <2>1. value' = v /\ waiters' = s /\ fut' = [t \in Turn |-> f[t]]
    BY <1>3 DEF Wake
  <2>2. fut' = f
    BY <2>1
  <2> QED
    BY <1>2, <2>1, <2>2
<1>4. CASE Woken(s, f) # {}
  <2>1. PICK w \in Turn : Woken(s, f) = {w} /\ f[w] = "pending"
    BY <1>4, WokenFacts
  <2>2. /\ value' = v - 1 /\ waiters' = s
        /\ fut' = [t \in Turn |-> IF t = w THEN "granted" ELSE f[t]]
    BY <1>4, <2>1 DEF Wake
  <2>3. fut' \in [Turn -> Future] /\ \A t \in Turn : fut'[t] # "none" <=> f[t] # "none"
    BY <2>1, <2>2 DEF Future
  <2>4. GrantedIn(fut') = GrantedIn(f) \cup {w} /\ w \notin GrantedIn(f)
    BY <2>1, <2>2 DEF GrantedIn
  <2>5. Cardinality(GrantedIn(fut')) = Cardinality(GrantedIn(f)) + 1
    BY <1>1, <2>4, FS_AddElement
  <2> QED
    BY <1>2, <2>2, <2>3, <2>5
<1> QED
  BY <1>3, <1>4

----------------------------------------------------------------------------
(* The inductive invariant *)

LEMMA Finite ==
    /\ \A S \in SUBSET Turn : IsFiniteSet(S) /\ Cardinality(S) \in Nat
    /\ Running \in SUBSET Turn
    /\ \A f : GrantedIn(f) \in SUBSET Turn
BY SlotsAssumption, FS_Subset, FS_CardinalityType DEF Running, GrantedIn

LEMMA GrantedIsGrantedIn == Queueing => Granted = GrantedIn(fut)
BY DEF Queueing, Granted, GrantedIn

\* TypeOK but for the bound on value, which PermitsConserved gives.
Typed ==
    /\ pc \in [Turn -> {"idle", "queued", "running", "refused"}]
    /\ value \in Nat
    /\ waiters \in Seq(Turn)
    /\ fut \in [Turn -> Future]
    /\ interrupt \in [Turn -> SUBSET {"timeout", "abort"}]

Conserved == value + Cardinality(GrantedIn(fut)) + Cardinality(Running) = Slots

LEMMA IInvIs == IInv <=> Typed /\ Conserved /\ Queueing
<1>1. Typed /\ Conserved => value \in 0..Slots
  BY Finite, SlotsAssumption DEF Typed, Conserved
<1> QED
  BY <1>1, GrantedIsGrantedIn, SlotsAssumption
     DEF IInv, TypeOK, Typed, PermitsConserved, Conserved, Future

LEMMA InitIInv == Init => IInv
<1> SUFFICES ASSUME Init PROVE Typed /\ Conserved /\ Queueing
  BY IInvIs
<1>1. GrantedIn(fut) = {} /\ Running = {}
  BY DEF Init, GrantedIn, Running
<1>2. Conserved
  <2>1. Cardinality(GrantedIn(fut)) = 0 /\ Cardinality(Running) = 0
    BY <1>1, FS_EmptySet
  <2> QED
    BY <2>1, SlotsAssumption DEF Init, Conserved
<1>3. Typed
  BY SlotsAssumption DEF Init, Typed, Future
<1> QED
  BY <1>2, <1>3 DEF Init, Queueing

LEMMA AskKeeps == ASSUME Typed, Conserved, Queueing, NEW t \in Turn, Ask(t) PROVE (Typed /\ Conserved /\ Queueing)'
<1>1. pc[t] = "idle" /\ fut[t] = "none" /\ UNCHANGED interrupt
  BY DEF Ask, Queueing
<1>2. ASSUME Locked, pc' = [pc EXCEPT ![t] = "queued"], waiters' = Append(waiters, t),
             fut' = [fut EXCEPT ![t] = "pending"], UNCHANGED value
      PROVE  (Typed /\ Conserved /\ Queueing)'
  <2>1. Running' = Running /\ GrantedIn(fut') = GrantedIn(fut)
    BY <1>1, <1>2 DEF Running, Typed, GrantedIn
  <2>2. Typed'
    BY <1>1, <1>2 DEF Typed, Future
  <2>3. /\ \A i \in DOMAIN waiters : i \in DOMAIN waiters' /\ waiters'[i] = waiters[i]
        /\ Len(waiters) + 1 \in DOMAIN waiters' /\ waiters'[Len(waiters) + 1] = t
    BY <1>2 DEF Typed
  <2>4. Queueing'
    BY <1>1, <1>2, <2>3 DEF Queueing, Typed
  <2> QED
    BY <1>2, <2>1, <2>2, <2>4 DEF Conserved
<1>3. ASSUME ~Locked, pc' = [pc EXCEPT ![t] = "running"], value' = value - 1, UNCHANGED <<waiters, fut>>
      PROVE  (Typed /\ Conserved /\ Queueing)'
  <2>1. Running' = Running \cup {t} /\ t \notin Running
    BY <1>1, <1>3 DEF Running, Typed
  <2>2. Cardinality(Running') = Cardinality(Running) + 1
    BY <2>1, Finite, FS_AddElement
  <2>3. Typed'
    BY <1>1, <1>3 DEF Typed, Locked
  <2>4. Queueing'
    BY <1>1, <1>3 DEF Queueing, Typed
  <2>5. GrantedIn(fut') = GrantedIn(fut)
    BY <1>3
  <2>6. /\ Cardinality(GrantedIn(fut)) \in Nat /\ Cardinality(Running) \in Nat
        /\ value \in Nat /\ value' = value - 1
    BY <1>3, Finite DEF Typed
  <2>7. Conserved'
    BY <2>2, <2>5, <2>6, SlotsAssumption DEF Conserved
  <2> QED
    BY <2>3, <2>4, <2>7
<1> QED
  BY <1>2, <1>3 DEF Ask

LEMMA InterruptKeeps ==
    ASSUME Typed, Conserved, Queueing, NEW t \in Turn, NEW why \in {"timeout", "abort"}, Interrupt(t, why)
    PROVE  (Typed /\ Conserved /\ Queueing)'
<1>1. GrantedIn(fut') = GrantedIn(fut) /\ Running' = Running
  BY DEF Interrupt, GrantedIn, Running, Typed
<1>2. Typed'
  BY DEF Interrupt, Typed, Future
<1>3. Queueing'
  BY DEF Interrupt, Queueing, Typed
<1> QED
  BY <1>1, <1>2, <1>3 DEF Interrupt, Conserved

\* A waiter leaves the queue.
LEMMA Dequeue ==
    ASSUME Typed, Queueing, NEW t \in Turn, pc[t] = "queued",
           NEW p \in {"idle", "running", "refused"}, pc' = [pc EXCEPT ![t] = p],
           interrupt' \in [Turn -> SUBSET {"timeout", "abort"}],
           waiters' = Remove(waiters, t), value' \in Nat, fut' \in [Turn -> Future],
           \A u \in Turn : fut'[u] # "none" <=> (u # t /\ fut[u] # "none")
    PROVE  Typed' /\ Queueing'
<1>1. \E i \in DOMAIN waiters : waiters[i] = t
  BY DEF Queueing
<1>2. /\ waiters' \in Seq(Turn)
      /\ \A u \in Turn \ {t} : (\E i \in DOMAIN waiters : waiters[i] = u) =>
             \E i \in DOMAIN waiters' : waiters'[i] = u
  BY <1>1, RemoveFacts DEF Typed
<1>3. Typed'
  BY <1>2 DEF Typed
<1>4. Queueing'
  BY <1>2 DEF Queueing, Typed
<1> QED
  BY <1>3, <1>4

LEMMA ResumeGrantedKeeps ==
    ASSUME Typed, Conserved, Queueing, NEW t \in Turn, ResumeGranted(t)
    PROVE  (Typed /\ Conserved /\ Queueing)'
<1> DEFINE f == [fut EXCEPT ![t] = "none"]
           s == Remove(waiters, t)
<1>1. /\ pc[t] = "queued" /\ fut[t] = "granted" /\ pc' = [pc EXCEPT ![t] = "running"]
      /\ UNCHANGED interrupt
      /\ IF value > 0 THEN Wake(value, s, f) ELSE waiters' = s /\ fut' = f /\ UNCHANGED value
  BY DEF ResumeGranted
<1>2. f \in [Turn -> Future] /\ \A u \in Turn : f[u] # "none" <=> (u # t /\ fut[u] # "none")
  BY DEF Typed, Future
<1>3. s \in Seq(Turn)
  BY <1>1, RemoveFacts DEF Typed, Queueing
<1>4. GrantedIn(f) = GrantedIn(fut) \ {t} /\ t \in GrantedIn(fut)
  BY <1>1 DEF GrantedIn, Typed
<1>5. Running' = Running \cup {t} /\ t \notin Running
  BY <1>1 DEF Running, Typed
<1>6. /\ Cardinality(GrantedIn(f)) = Cardinality(GrantedIn(fut)) - 1
      /\ Cardinality(Running') = Cardinality(Running) + 1
  <2>1. IsFiniteSet(GrantedIn(fut)) /\ IsFiniteSet(Running)
    BY Finite
  <2>2. Cardinality(GrantedIn(f)) = Cardinality(GrantedIn(fut)) - 1
    BY <1>4, <2>1, FS_RemoveElement
  <2>3. Cardinality(Running') = Cardinality(Running) + 1
    BY <1>5, <2>1, FS_AddElement
  <2> QED
    BY <2>2, <2>3
<1> HIDE DEF f, s
<1>7. /\ waiters' = s /\ value' \in Nat /\ fut' \in [Turn -> Future]
      /\ \A u \in Turn : fut'[u] # "none" <=> f[u] # "none"
      /\ value' + Cardinality(GrantedIn(fut')) = value + Cardinality(GrantedIn(f))
  <2>1. CASE value > 0
    <3>1. value \in Nat \ {0}
      BY <2>1 DEF Typed
    <3> QED
      BY <1>1, <1>2, <1>3, <2>1, <3>1, WakeFacts
  <2>2. CASE ~(value > 0)
    BY <1>1, <1>2, <2>2 DEF Typed
  <2> QED
    BY <2>1, <2>2
<1>8. Conserved'
  <2>1. /\ Cardinality(GrantedIn(fut)) \in Nat /\ Cardinality(GrantedIn(f)) \in Nat
        /\ Cardinality(GrantedIn(fut')) \in Nat /\ Cardinality(Running) \in Nat
    BY Finite
  <2> QED
    BY <1>6, <1>7, <2>1, SlotsAssumption DEF Conserved, Typed
<1>9. waiters' = Remove(waiters, t)
  BY <1>7 DEF s
<1>10. Typed' /\ Queueing'
  BY <1>1, <1>2, <1>7, <1>9, Dequeue DEF Typed
<1> QED
  BY <1>8, <1>10

LEMMA ResumeInterruptedKeeps ==
    ASSUME Typed, Conserved, Queueing, NEW t \in Turn, ResumeInterrupted(t)
    PROVE  (Typed /\ Conserved /\ Queueing)'
<1> DEFINE f == [fut EXCEPT ![t] = "none"]
           s == Remove(waiters, t)
<1>1. /\ pc[t] = "queued"
      /\ interrupt' = [interrupt EXCEPT ![t] = {}]
      /\ IF fut[t] = "granted" THEN Wake(value + 1, s, f)
                               ELSE waiters' = s /\ fut' = f /\ UNCHANGED value
  BY DEF ResumeInterrupted
<1>2. PICK p \in {"idle", "refused"} : pc' = [pc EXCEPT ![t] = p]
  BY DEF ResumeInterrupted
<1>3. f \in [Turn -> Future] /\ \A u \in Turn : f[u] # "none" <=> (u # t /\ fut[u] # "none")
  BY DEF Typed, Future
<1>4. s \in Seq(Turn)
  BY <1>1, RemoveFacts DEF Typed, Queueing
<1>5. Running' = Running
  BY <1>1, <1>2 DEF Running, Typed
<1>6. GrantedIn(f) = GrantedIn(fut) \ {t}
  BY <1>1 DEF GrantedIn, Typed
<1>7. Cardinality(GrantedIn(f)) =
          IF fut[t] = "granted" THEN Cardinality(GrantedIn(fut)) - 1 ELSE Cardinality(GrantedIn(fut))
  <2>1. t \in GrantedIn(fut) <=> fut[t] = "granted"
    BY DEF GrantedIn
  <2> QED
    BY <1>6, <2>1, Finite, FS_RemoveElement
<1> HIDE DEF f, s
<1>8. /\ waiters' = s /\ value' \in Nat /\ fut' \in [Turn -> Future]
      /\ \A u \in Turn : fut'[u] # "none" <=> f[u] # "none"
      /\ value' + Cardinality(GrantedIn(fut')) =
             (IF fut[t] = "granted" THEN value + 1 ELSE value) + Cardinality(GrantedIn(f))
  <2>1. CASE fut[t] = "granted"
    <3>1. value + 1 \in Nat \ {0}
      BY DEF Typed
    <3> QED
      BY <1>1, <1>3, <1>4, <2>1, <3>1, WakeFacts
  <2>2. CASE fut[t] # "granted"
    BY <1>1, <1>3, <2>2 DEF Typed
  <2> QED
    BY <2>1, <2>2
<1>9. Conserved'
  <2>1. /\ Cardinality(GrantedIn(fut)) \in Nat /\ Cardinality(GrantedIn(f)) \in Nat
        /\ Cardinality(GrantedIn(fut')) \in Nat /\ Cardinality(Running) \in Nat
    BY Finite
  <2> QED
    BY <1>5, <1>7, <1>8, <2>1, SlotsAssumption DEF Conserved, Typed
<1>10. waiters' = Remove(waiters, t) /\ interrupt' \in [Turn -> SUBSET {"timeout", "abort"}]
  BY <1>1, <1>8 DEF s, Typed
<1>11. Typed' /\ Queueing'
  BY <1>1, <1>2, <1>3, <1>8, <1>10, Dequeue
<1> QED
  BY <1>9, <1>11

LEMMA ReleaseKeeps ==
    ASSUME Typed, Conserved, Queueing, NEW t \in Turn, Release(t)
    PROVE  (Typed /\ Conserved /\ Queueing)'
<1>1. /\ pc[t] = "running" /\ pc' = [pc EXCEPT ![t] = "idle"]
      /\ Wake(value + 1, waiters, fut) /\ UNCHANGED interrupt
  BY DEF Release
<1>2. Running' = Running \ {t} /\ t \in Running
  BY <1>1 DEF Running, Typed
<1>3. Cardinality(Running') = Cardinality(Running) - 1
  BY <1>2, Finite, FS_RemoveElement
<1>4. value + 1 \in Nat \ {0}
  BY DEF Typed
<1>5. /\ waiters' = waiters /\ value' \in Nat /\ fut' \in [Turn -> Future]
      /\ \A u \in Turn : fut'[u] # "none" <=> fut[u] # "none"
      /\ value' + Cardinality(GrantedIn(fut')) = value + 1 + Cardinality(GrantedIn(fut))
  BY <1>1, <1>4, WakeFacts DEF Typed
<1>6. Conserved'
  <2>1. /\ Cardinality(GrantedIn(fut)) \in Nat /\ Cardinality(GrantedIn(fut')) \in Nat
        /\ Cardinality(Running) \in Nat
    BY Finite
  <2> QED
    BY <1>3, <1>5, <2>1, SlotsAssumption DEF Conserved, Typed
<1>7. Typed'
  BY <1>1, <1>5 DEF Typed
<1>8. Queueing'
  BY <1>1, <1>5 DEF Queueing, Typed
<1> QED
  BY <1>6, <1>7, <1>8

LEMMA ApologisedKeeps ==
    ASSUME Typed, Conserved, Queueing, NEW t \in Turn, Apologised(t)
    PROVE  (Typed /\ Conserved /\ Queueing)'
<1>1. Running' = Running
  BY DEF Apologised, Running, Typed
<1>2. Typed'
  BY DEF Apologised, Typed
<1>3. Queueing'
  BY DEF Apologised, Queueing, Typed
<1> QED
  BY <1>1, <1>2, <1>3 DEF Apologised, Conserved, GrantedIn

LEMMA NextIInv == IInv /\ [Next]_vars => IInv'
<1>0. IInv' <=> (Typed /\ Conserved /\ Queueing)'
  BY IInvIs, PTL
<1> SUFFICES ASSUME Typed, Conserved, Queueing, [Next]_vars
             PROVE  (Typed /\ Conserved /\ Queueing)'
  BY <1>0, IInvIs
<1>1. CASE UNCHANGED vars
  BY <1>1 DEF vars, Typed, Conserved, Queueing, Running, GrantedIn
<1> QED
  BY <1>1, AskKeeps, InterruptKeeps, ResumeGrantedKeeps, ResumeInterruptedKeeps, ReleaseKeeps,
     ApologisedKeeps
     DEF Next, Resume

\* The invariant of the permits.
THEOREM SlotsInvariant == Spec => []IInv
BY InitIInv, NextIInv, PTL DEF Spec

----------------------------------------------------------------------------
(* The order of the queue *)

\* The queue holds nobody but waiters, each once; no pending one is ahead of a granted one;
\* and beside a free permit not all of them are pending.
InLine(s, f) ==
    /\ \A i \in DOMAIN s : f[s[i]] # "none"
    /\ \A i, j \in DOMAIN s : i # j => s[i] # s[j]
Fair(s, f) == \A i, j \in DOMAIN s : i < j /\ f[s[j]] = "granted" => f[s[i]] # "pending"
Busy(v, f) == v > 0 /\ (\E t \in Turn : f[t] = "pending") => \E t \in Turn : f[t] = "granted"
Holds(s, f) == \A t \in Turn : f[t] # "none" => \E i \in DOMAIN s : s[i] = t

Ordered == InLine(waiters, fut) /\ Fair(waiters, fut) /\ Busy(value, fut)

\* If somebody is pending, somebody is woken.
LEMMA SomebodyWoken ==
    ASSUME NEW s \in Seq(Turn), NEW f, NEW i \in DOMAIN s, f[s[i]] = "pending"
    PROVE  Woken(s, f) # {}
<1> DEFINE T == {k \in DOMAIN s : f[s[k]] = "pending"}
           R == OpToRel(<, Nat)
<1>1. T \subseteq Nat /\ T # {}
  BY DEF T
<1>2. PICK k \in T : \A l \in T : ~ (<<l, k>> \in R)
  <2>1. IsWellFoundedOn(R, Nat)
    BY NatLessThanWellFounded
  <2> HIDE DEF R, T
  <2> QED
    BY <1>1, <2>1, WFMin
<1>3. \A l \in T : ~ (l < k)
  BY <1>1, <1>2 DEF OpToRel
<1>4. \A j \in 1..k-1 : f[s[j]] # "pending"
  <2> SUFFICES ASSUME NEW j \in 1..k-1, f[s[j]] = "pending" PROVE FALSE
    OBVIOUS
  <2>1. k \in 1..Len(s)
    OBVIOUS
  <2>2. j \in DOMAIN s /\ j < k
    BY <2>1
  <2> QED
    BY <1>3, <2>2
<1> QED
  BY <1>4 DEF Woken

\* A wake-up keeps the order and leaves no permit idle.
LEMMA WakeOrder ==
    ASSUME NEW v \in Nat, NEW s \in Seq(Turn), NEW f \in [Turn -> Future], Wake(v, s, f),
           InLine(s, f), Fair(s, f), Holds(s, f)
    PROVE  Ordered'
<1>1. waiters' = s
  BY DEF Wake
<1>2. CASE Woken(s, f) = {}
  <2>1. fut' = f
    BY <1>2 DEF Wake
  <2>2. \A t \in Turn : f[t] # "pending"
    BY <1>2, SomebodyWoken DEF Holds
  <2> QED
    BY <1>1, <2>1, <2>2 DEF Ordered, InLine, Fair, Busy
<1>3. CASE Woken(s, f) # {}
  <2>1. PICK k \in DOMAIN s : f[s[k]] = "pending" /\ \A j \in 1..k-1 : f[s[j]] # "pending"
    BY <1>3 DEF Woken
  <2> DEFINE w == s[k]
  <2>2. w \in Turn /\ Woken(s, f) = {w}
    BY <1>3, <2>1, WokenFacts DEF Woken
  <2>3. fut' = [t \in Turn |-> IF t = w THEN "granted" ELSE f[t]]
    BY <2>2 DEF Wake
  <2>4. \A i \in DOMAIN s : s[i] \in Turn /\ (s[i] = w <=> i = k)
    BY DEF InLine
  <2> HIDE DEF w
  <2>5. fut'[w] = "granted" /\ \A t \in Turn : t # w => fut'[t] = f[t]
    BY <2>2, <2>3
  <2>6. InLine(s, fut')
    BY <2>4, <2>5 DEF InLine
  <2>7. Busy(value', fut')
    BY <2>2, <2>5 DEF Busy
  <2>8. ASSUME NEW i \in DOMAIN s, NEW j \in DOMAIN s, i < j, fut'[s[j]] = "granted"
        PROVE  fut'[s[i]] # "pending"
    <3>1. CASE i = k
      BY <2>4, <2>5, <3>1
    <3>2. CASE i # k /\ j = k
      <4>1. i \in 1..k-1
        BY <2>8, <3>2
      <4>2. fut'[s[i]] = f[s[i]]
        BY <2>4, <2>5, <3>2
      <4> QED
        BY <2>1, <4>1, <4>2
    <3>3. CASE i # k /\ j # k
      <4>1. fut'[s[i]] = f[s[i]] /\ fut'[s[j]] = f[s[j]]
        BY <2>4, <2>5, <3>3
      <4> QED
        BY <2>8, <4>1 DEF Fair
    <3> QED
      BY <3>1, <3>2, <3>3
  <2> QED
    BY <1>1, <2>6, <2>7, <2>8 DEF Ordered, Fair
<1> QED
  BY <1>2, <1>3

\* What is left of the queue when a waiter has gone.
LEMMA GoneFacts ==
    ASSUME Typed, Queueing, Ordered, NEW t \in Turn, pc[t] = "queued",
           NEW f, f = [fut EXCEPT ![t] = "none"]
    PROVE  /\ Remove(waiters, t) \in Seq(Turn) /\ f \in [Turn -> Future]
           /\ InLine(Remove(waiters, t), f) /\ Fair(Remove(waiters, t), f)
           /\ Holds(Remove(waiters, t), f)
<1> DEFINE s == waiters
           r == Remove(waiters, t)
<1>1. \E i \in DOMAIN s : s[i] = t
  BY DEF Queueing
<1>2. s \in Seq(Turn) /\ \A i, j \in DOMAIN s : i # j => s[i] # s[j]
  BY DEF Ordered, InLine, Typed
<1>3. r \in Seq(Turn) /\ \A u \in Turn \ {t} : (\E i \in DOMAIN s : s[i] = u) =>
                             \E i \in DOMAIN r : r[i] = u
  BY <1>1, <1>2, RemoveFacts
<1>4. /\ \A i \in DOMAIN r : \E p \in DOMAIN s : r[i] = s[p] /\ s[p] # t
      /\ \A i, j \in DOMAIN r : i < j =>
             \E p, q \in DOMAIN s : p < q /\ r[i] = s[p] /\ r[j] = s[q]
  BY <1>1, <1>2, RemoveOrder
<1> HIDE DEF s, r
<1>5. /\ f \in [Turn -> Future] /\ f[t] = "none"
      /\ \A u \in Turn : u # t => f[u] = fut[u]
  BY DEF Typed, Future
<1>6. \A i \in DOMAIN r : r[i] \in Turn /\ r[i] # t /\ f[r[i]] = fut[r[i]]
  BY <1>3, <1>4, <1>5
<1>7. InLine(r, f)
  <2>1. \A i \in DOMAIN r : f[r[i]] # "none"
    BY <1>4, <1>6 DEF Ordered, InLine, s
  <2>2. ASSUME NEW i \in DOMAIN r, NEW j \in DOMAIN r, i # j PROVE r[i] # r[j]
    <3>1. i \in Int /\ j \in Int
      BY <1>3
    <3>2. CASE i < j
      <4>1. PICK p \in DOMAIN s, q \in DOMAIN s : p < q /\ r[i] = s[p] /\ r[j] = s[q]
        BY <1>4, <3>2
      <4>2. p # q
        BY <1>2, <4>1
      <4> QED
        BY <1>2, <4>1, <4>2
    <3>3. CASE j < i
      <4>1. PICK p \in DOMAIN s, q \in DOMAIN s : p < q /\ r[j] = s[p] /\ r[i] = s[q]
        BY <1>4, <3>3
      <4>2. p # q
        BY <1>2, <4>1
      <4> QED
        BY <1>2, <4>1, <4>2
    <3> QED
      BY <2>2, <3>1, <3>2, <3>3
  <2> QED
    BY <2>1, <2>2 DEF InLine
<1>8. Fair(r, f)
  BY <1>4, <1>6 DEF Fair, Ordered, s
<1>9. Holds(r, f)
  BY <1>3, <1>5 DEF Holds, Queueing, s
<1> QED
  BY <1>3, <1>5, <1>7, <1>8, <1>9 DEF r

LEMMA AskOrder ==
    ASSUME Typed, Queueing, Ordered, NEW t \in Turn, Ask(t) PROVE Ordered'
<1>1. pc[t] = "idle" /\ fut[t] = "none"
  BY DEF Ask, Queueing
<1>2. ASSUME Locked, waiters' = Append(waiters, t), fut' = [fut EXCEPT ![t] = "pending"],
             UNCHANGED value
      PROVE  Ordered'
  <2> DEFINE n == Len(waiters) + 1
  <2>1. /\ DOMAIN waiters' = DOMAIN waiters \cup {n} /\ waiters'[n] = t /\ n \in Nat
        /\ \A i \in DOMAIN waiters : i \in Nat /\ i < n /\ waiters'[i] = waiters[i]
    BY <1>2 DEF Typed
  <2> HIDE DEF n
  <2>2. fut'[t] = "pending" /\ \A u \in Turn : u # t => fut'[u] = fut[u]
    BY <1>2 DEF Typed
  <2>3. \A i \in DOMAIN waiters : waiters[i] \in Turn /\ waiters[i] # t
    BY <1>1 DEF Ordered, InLine, Typed
  <2>4. InLine(waiters', fut')
    BY <2>1, <2>2, <2>3 DEF Ordered, InLine
  <2>5. ASSUME NEW i \in DOMAIN waiters', NEW j \in DOMAIN waiters', i < j,
               fut'[waiters'[j]] = "granted"
        PROVE  fut'[waiters'[i]] # "pending"
    <3>1. j # n
      BY <2>1, <2>2, <2>5
    <3>2. i # n
      BY <2>1, <2>5, <3>1
    <3> QED
      BY <2>1, <2>2, <2>3, <2>5, <3>1, <3>2 DEF Ordered, Fair
  <2>6. Busy(value', fut')
    <3> SUFFICES ASSUME value > 0 PROVE \E u \in Turn : fut'[u] = "granted"
      BY <1>2 DEF Busy
    <3>1. PICK i \in DOMAIN waiters : fut[waiters[i]] # "cancelled"
      BY <1>2 DEF Locked
    <3>2. fut[waiters[i]] \in {"pending", "granted"} /\ waiters[i] \in Turn
      BY <2>3, <3>1 DEF Ordered, InLine, Typed, Future
    <3>3. PICK u \in Turn : fut[u] = "granted"
      BY <3>2 DEF Ordered, Busy
    <3> QED
      BY <1>1, <2>2, <3>3
  <2> QED
    BY <2>4, <2>5, <2>6 DEF Ordered, Fair
<1>3. ASSUME ~Locked, UNCHANGED <<waiters, fut>> PROVE Ordered'
  <2>1. \A u \in Turn : fut[u] # "pending"
    BY <1>3 DEF Locked, Queueing
  <2> QED
    BY <1>3, <2>1 DEF Ordered, InLine, Fair, Busy
<1> QED
  BY <1>2, <1>3 DEF Ask

LEMMA InterruptOrder ==
    ASSUME Typed, Queueing, Ordered, NEW t \in Turn, NEW why \in {"timeout", "abort"},
           Interrupt(t, why)
    PROVE  Ordered'
<1>1. UNCHANGED <<value, waiters>>
  BY DEF Interrupt
<1>2. \A u \in Turn : \/ fut'[u] = fut[u]
                      \/ fut[u] = "pending" /\ fut'[u] = "cancelled"
  BY DEF Interrupt, Typed
<1>3. \A i \in DOMAIN waiters : waiters[i] \in Turn
  BY DEF Typed
<1>4. InLine(waiters, fut')
  BY <1>2, <1>3 DEF Ordered, InLine
<1>5. Fair(waiters, fut')
  BY <1>2, <1>3 DEF Ordered, Fair
<1>6. Busy(value, fut')
  BY <1>2 DEF Ordered, Busy
<1> QED
  BY <1>1, <1>4, <1>5, <1>6 DEF Ordered

LEMMA ResumeOrder ==
    ASSUME Typed, Queueing, Ordered, NEW t \in Turn, Resume(t) PROVE Ordered'
<1> DEFINE f == [fut EXCEPT ![t] = "none"]
           r == Remove(waiters, t)
<1>1. pc[t] = "queued"
  BY DEF Resume, ResumeGranted, ResumeInterrupted
<1>2. r \in Seq(Turn) /\ f \in [Turn -> Future] /\ InLine(r, f) /\ Fair(r, f) /\ Holds(r, f)
  BY <1>1, GoneFacts
<1>3. value \in Nat /\ value + 1 \in Nat
  BY DEF Typed
<1>4. \/ \E v \in {value, value + 1} : Wake(v, r, f)
      \/ /\ waiters' = r /\ fut' = f /\ value' = value
         /\ value > 0 => fut[t] # "granted"
  BY <1>3 DEF Resume, ResumeGranted, ResumeInterrupted
<1>5. f[t] = "none" /\ \A u \in Turn : u # t => f[u] = fut[u]
  BY DEF Typed
<1> HIDE DEF f, r
<1>6. CASE \E v \in {value, value + 1} : Wake(v, r, f)
  BY <1>2, <1>3, <1>6, WakeOrder
<1>7. CASE /\ waiters' = r /\ fut' = f /\ value' = value
           /\ value > 0 => fut[t] # "granted"
  <2>1. Busy(value, f)
    <3> SUFFICES ASSUME value > 0, NEW u \in Turn, f[u] = "pending"
                 PROVE  \E w \in Turn : f[w] = "granted"
      BY DEF Busy
    <3>1. fut[u] = "pending"
      BY <1>5
    <3>2. PICK w \in Turn : fut[w] = "granted"
      BY <3>1 DEF Ordered, Busy
    <3> QED
      BY <1>5, <1>7, <3>2
  <2> QED
    BY <1>2, <1>7, <2>1 DEF Ordered
<1> QED
  BY <1>4, <1>6, <1>7

LEMMA ReleaseOrder ==
    ASSUME Typed, Queueing, Ordered, NEW t \in Turn, Release(t) PROVE Ordered'
<1>1. Wake(value + 1, waiters, fut) /\ value + 1 \in Nat
  BY DEF Release, Typed
<1>2. Holds(waiters, fut)
  BY DEF Holds, Queueing
<1> QED
  BY <1>1, <1>2, WakeOrder DEF Ordered, Typed

LEMMA NextOrdered == IInv /\ Ordered /\ [Next]_vars => Ordered'
<1> SUFFICES ASSUME Typed, Queueing, Ordered, [Next]_vars PROVE Ordered'
  BY IInvIs
<1>1. CASE UNCHANGED vars
  BY <1>1 DEF vars, Ordered, InLine, Fair, Busy
<1>2. ASSUME NEW t \in Turn, Apologised(t) PROVE Ordered'
  BY <1>2 DEF Apologised, Ordered, InLine, Fair, Busy
<1> QED
  BY <1>1, <1>2, AskOrder, InterruptOrder, ResumeOrder, ReleaseOrder DEF Next

----------------------------------------------------------------------------
(* What follows *)

\* The queue holds turns, and the counter never leaves 0..Slots.
THEOREM SlotsTypeOK == Spec => []TypeOK
<1>1. IInv => TypeOK
  BY DEF IInv
<1> QED
  BY <1>1, SlotsInvariant, PTL

\* Free, handed over and in use, the permits are always Slots: no interleaving of timers,
\* aborts and releases loses one or lets an extra turn run.
THEOREM PermitsAreConserved == Spec => []PermitsConserved
<1>1. IInv => PermitsConserved
  BY DEF IInv
<1> QED
  BY <1>1, SlotsInvariant, PTL

LEMMA QueueInvariant == Spec => [](IInv /\ Ordered)
<1>1. Init => IInv /\ Ordered
  BY InitIInv DEF Init, Ordered, InLine, Fair, Busy
<1>2. IInv /\ Ordered /\ [Next]_vars => (IInv /\ Ordered)'
  BY NextIInv, NextOrdered
<1> QED
  BY <1>1, <1>2, PTL DEF Spec

\* No wake-up is lost: a turn waits beside a free permit only while a granted one is about to
\* resume and pass it on.
THEOREM NoPermitIdle == Spec => []NoIdlePermit
<1>1. Ordered => NoIdlePermit
  BY DEF Ordered, Busy, NoIdlePermit
<1> QED
  BY <1>1, QueueInvariant, PTL

\* No waiter is granted a slot while one ahead of it is pending, whoever leaves the queue in
\* between.
THEOREM ServedInOrder == Spec => []FirstComeFirstServed
<1>1. Ordered => FirstComeFirstServed
  BY DEF Ordered, Fair, FirstComeFirstServed
<1> QED
  BY <1>1, QueueInvariant, PTL

----------------------------------------------------------------------------
(* The semaphore implements the slot pool *)

Queued  == {t \in Turn : pc[t] = "queued"}
Refused == {t \in Turn : pc[t] = "refused"}

\* The pool counts with the same Cardinality.
LEMMA PoolCounts == ASSUME NEW S PROVE Pool!Cardinality(S) = Cardinality(S)
  BY DEF Pool!Cardinality, Cardinality

\* While a permit is free or being handed over, the pool is not full.
LEMMA RoomFacts ==
    ASSUME Typed, Conserved, value > 0 \/ \E t \in Turn : fut[t] = "granted"
    PROVE  ~Pool!Full
<1>1. /\ Cardinality(GrantedIn(fut)) \in Nat /\ Cardinality(Running) \in Nat
      /\ IsFiniteSet(GrantedIn(fut)) /\ value \in Nat
  BY Finite DEF Typed
<1>2. value + Cardinality(GrantedIn(fut)) > 0
  <2>1. CASE value > 0
    BY <1>1, <2>1
  <2>2. CASE \E t \in Turn : fut[t] = "granted"
    <3>1. GrantedIn(fut) # {}
      BY <2>2 DEF GrantedIn
    <3>2. Cardinality(GrantedIn(fut)) # 0
      BY <1>1, <3>1, FS_EmptySet
    <3> QED
      BY <1>1, <3>2
  <2> QED
    BY <2>1, <2>2
<1> QED
  BY <1>1, <1>2, SlotsAssumption, PoolCounts DEF Conserved, Pool!Full

\* A turn that finds the semaphore locked finds the pool full or a queue.
LEMMA LockedFacts ==
    ASSUME Typed, Conserved, Queueing, Ordered, Locked
    PROVE  Pool!Full \/ Queued # {}
<1>1. CASE \E i \in DOMAIN waiters : fut[waiters[i]] # "cancelled"
  <2>1. PICK i \in DOMAIN waiters : fut[waiters[i]] # "none"
    BY <1>1 DEF Ordered, InLine
  <2>2. waiters[i] \in Turn
    BY DEF Typed
  <2> QED
    BY <2>1, <2>2 DEF Queueing, Queued
<1>2. CASE value = 0 /\ Queued = {}
  <2>1. GrantedIn(fut) = {}
    BY <1>2 DEF GrantedIn, Queueing, Queued
  <2>2. Cardinality(GrantedIn(fut)) = 0
    BY <2>1, FS_EmptySet
  <2>3. Cardinality(Running) \in Nat
    BY Finite
  <2> QED
    BY <1>2, <2>2, <2>3, SlotsAssumption, PoolCounts DEF Conserved, Pool!Full
<1> QED
  BY <1>1, <1>2 DEF Locked

\* Every step of the semaphore is a step of the pool, or none.
LEMMA PoolStep ==
    IInv /\ Ordered /\ [Next]_vars => [Pool!Next]_(Pool!poolVars)
<1> SUFFICES ASSUME Typed, Conserved, Queueing, Ordered, [Next]_vars
             PROVE  [Pool!Next]_(Pool!poolVars)
  BY IInvIs
<1> DEFINE Same == Running' = Running /\ Queued' = Queued /\ Refused' = Refused
<1>0. Same => [Pool!Next]_(Pool!poolVars)
  BY DEF Pool!poolVars, Queued, Refused
<1>1. ASSUME NEW t \in Turn, Ask(t) PROVE Pool!Next
  <2>1. CASE Locked
    <3>1. pc[t] = "idle" /\ pc' = [pc EXCEPT ![t] = "queued"]
      BY <1>1, <2>1 DEF Ask
    <3>2. /\ t \notin Running \cup Queued \cup Refused
          /\ Running' = Running /\ Queued' = Queued \cup {t} /\ Refused' = Refused
      BY <3>1 DEF Running, Queued, Refused, Typed
    <3>3. Pool!Queue(t)
      BY <2>1, <3>2, LockedFacts DEF Pool!Queue, Pool!Outside, Queued, Refused
    <3> QED
      BY <3>3 DEF Pool!Next
  <2>2. CASE ~Locked
    <3>1. pc[t] = "idle" /\ pc' = [pc EXCEPT ![t] = "running"] /\ value # 0
      BY <1>1, <2>2 DEF Ask, Locked
    <3>2. /\ t \notin Running \cup Queued \cup Refused
          /\ Running' = Running \cup {t} /\ Queued' = Queued \ {t} /\ Refused' = Refused
      BY <3>1 DEF Running, Queued, Refused, Typed
    <3>3. ~Pool!Full
      BY <3>1, RoomFacts DEF Typed
    <3>4. Pool!Run(t)
      BY <3>2, <3>3 DEF Pool!Run, Queued, Refused
    <3> QED
      BY <3>4 DEF Pool!Next
  <2> QED
    BY <2>1, <2>2
<1>2. ASSUME NEW t \in Turn, ResumeGranted(t) PROVE Pool!Next
  <2>1. pc[t] = "queued" /\ fut[t] = "granted" /\ pc' = [pc EXCEPT ![t] = "running"]
    BY <1>2 DEF ResumeGranted
  <2>2. /\ t \notin Running \cup Refused
        /\ Running' = Running \cup {t} /\ Queued' = Queued \ {t} /\ Refused' = Refused
    BY <2>1 DEF Running, Queued, Refused, Typed
  <2>3. Pool!Run(t)
    BY <2>1, <2>2, RoomFacts DEF Pool!Run, Queued, Refused
  <2> QED
    BY <2>3 DEF Pool!Next
<1>3. ASSUME NEW t \in Turn, ResumeInterrupted(t) PROVE Pool!Next
  <2>1. pc[t] = "queued"
    BY <1>3 DEF ResumeInterrupted
  <2>2. CASE pc' = [pc EXCEPT ![t] = "refused"]
    <3>1. /\ t \in Queued /\ Running' = Running
          /\ Queued' = Queued \ {t} /\ Refused' = Refused \cup {t}
      BY <2>1, <2>2 DEF Running, Queued, Refused, Typed
    <3>2. Pool!Refuse(t)
      BY <3>1 DEF Pool!Refuse, Queued, Refused
    <3> QED
      BY <3>2 DEF Pool!Next
  <2>3. CASE pc' = [pc EXCEPT ![t] = "idle"]
    <3>1. /\ t \in Queued /\ Running' = Running \ {t}
          /\ Queued' = Queued \ {t} /\ Refused' = Refused \ {t}
      BY <2>1, <2>3 DEF Running, Queued, Refused, Typed
    <3>2. Pool!Leave(t)
      BY <3>1 DEF Pool!Leave, Pool!Outside, Queued, Refused
    <3> QED
      BY <3>2 DEF Pool!Next
  <2> QED
    BY <1>3, <2>2, <2>3 DEF ResumeInterrupted
<1>4. ASSUME NEW t \in Turn, Release(t) \/ Apologised(t) PROVE Pool!Next
  <2>1. pc[t] \in {"running", "refused"} /\ pc' = [pc EXCEPT ![t] = "idle"]
    BY <1>4 DEF Release, Apologised
  <2>2. /\ t \in Running \cup Refused /\ Running' = Running \ {t}
        /\ Queued' = Queued \ {t} /\ Refused' = Refused \ {t}
    BY <2>1 DEF Running, Queued, Refused, Typed
  <2>3. Pool!Leave(t)
    BY <2>2 DEF Pool!Leave, Pool!Outside, Queued, Refused
  <2> QED
    BY <2>3 DEF Pool!Next
<1>5. ASSUME NEW t \in Turn, NEW why \in {"timeout", "abort"}, Interrupt(t, why) PROVE Same
  BY <1>5 DEF Interrupt, Running, Queued, Refused
<1>6. CASE UNCHANGED vars
  <2>1. Same
    BY <1>6 DEF vars, Running, Queued, Refused
  <2> QED
    BY <1>0, <2>1
<1> QED
  BY <1>0, <1>1, <1>2, <1>3, <1>4, <1>5, <1>6 DEF Next, Resume

\* An asyncio.Semaphore used with wait_for keeps the promise of the slot pool: a turn queues
\* only behind a full pool or a queue, runs only in a free slot, and is refused only after it
\* queued (session.py 556-591).
THEOREM SemaphoreImplementsPool == Spec => ImplementsPool
<1>1. Init => Pool!Init
  BY DEF Init, Pool!Init, Running
<1> QED
  BY <1>1, PoolStep, QueueInvariant, PTL DEF Spec, ImplementsPool, Pool!Spec

============================================================================
