------------------------ MODULE OperationServiceProofs ------------------------
(***************************************************************************)
(* Proofs about OperationService for any operations, sessions, requests    *)
(* and bounds: the queue of notifications knows exactly what the client    *)
(* does not, one thread at a time delivers from it, the books of a session *)
(* are right, and shutdown and removal leave no work behind.               *)
(***************************************************************************)
EXTENDS OperationService, FiniteSetTheorems, TLAPS

-----------------------------------------------------------------------------
(* Where the threads are.                                                  *)

Delivering == {"deliver", "handler"}

\* The program each kind of thread runs.
PcShape ==
    /\ \A o \in Ops : pc[o] \in Delivering \cup
          {"idle", "start", "drain", "execute", "exit", "exited"}
    /\ \A r \in Requests : pc[r] \in Delivering \cup
          {"idle", "inside", "stop", "drain", "join", "leave", "gone"}
    /\ \A s \in Sessions : pc[s] \in Delivering \cup
          {"idle", "stop", "drain", "wait", "join", "removed"}
    /\ pc["publisher"] \in Delivering \cup {"idle", "drain"}
    /\ pc["shutdown"] \in Delivering \cup
          {"idle", "stop", "drain", "join", "wait", "complete", "destroyed"}

\* Shutdown and the phase it sets; what it has taken it has joined at the end.
ShutdownShape ==
    /\ pc["shutdown"] = "idle" <=> phase = "kRunning"
    /\ pc["shutdown"] \in {"stop", "join", "wait"} => phase = "kStopping"
    /\ pc["shutdown"] \in {"complete", "destroyed"} => phase = "kComplete"
    /\ pc["shutdown"] = "wait" \/ phase = "kComplete" =>
          target["shutdown"] = {}
    /\ phase = "kComplete" => registered = {}

\* The state of an operation and the place of its worker.
WorkerShape ==
    \A o \in Ops :
        /\ state[o] = "none" <=> pc[o] = "idle"
        /\ state[o] = "kQueued" => pc[o] = "start"
        /\ pc[o] = "start" => state[o] \in {"kQueued", "kCancelling"}
        /\ pc[o] = "execute" => state[o] \in Live
        /\ pc[o] \in {"exit", "exited"} => state[o] \notin Live
        /\ state[o] # "none" => owner[o] \in Sessions

Shape == PcShape /\ ShutdownShape /\ WorkerShape

-----------------------------------------------------------------------------
(* The books.                                                              *)

LiveOf(s) == {o \in Ops : state[o] \in Live /\ owner[o] = s}
Inside(s) ==
    {r \in Requests : SessionOf[r] = s /\ pc[r] \notin {"idle", "gone"}}

\* Every session counts its operations and requests, registered or not, and
\* has some only while it is registered.
ActiveBook == \A s \in Sessions : active[s] = Cardinality(LiveOf(s))
WaiterBook ==
    \A s \in Sessions : /\ IsFiniteSet(Inside(s))
                        /\ waiters[s] = Cardinality(Inside(s))
LiveRegistered == \A o \in Ops : state[o] \in Live => owner[o] \in registered
InsideRegistered ==
    \A r \in Requests : pc[r] \notin {"idle", "gone"} =>
                            SessionOf[r] \in registered
Books ==
    /\ IsFiniteSet(registered)
    /\ ActiveBook /\ WaiterBook /\ LiveRegistered /\ InsideRegistered

\* A session that is gone does not come back.
Departed ==
    \A s \in Sessions : pc[s] \in {"join", "removed"} => s \notin registered

\* Whoever waits to join the worker of an operation.
Closer == pc["shutdown"] \in Delivering \cup {"stop", "drain", "join"}
Joined(o) ==
    \/ \E t \in Requests \cup Sessions : pc[t] = "join" /\ o \in target[t]
    \/ Closer /\ o \in target["shutdown"]

\* A worker that has not exited has its handle in its record or with a thread
\* that will join it; requests and removals take none that is still working.
Done == Terminal \cup {"evicted"}
HandlesHeld == \A o \in Ops : handle[o] => phase = "kRunning" /\ o \in Retained
WorkersJoined ==
    \A o \in Ops : pc[o] \notin {"idle", "exited"} => handle[o] \/ Joined(o)
JoinedAreDone ==
    \A t \in Requests \cup Sessions : pc[t] = "join" =>
        \A o \in target[t] \cap Ops : state[o] \in Done
LiveAreHeld ==
    \A o \in Ops : state[o] \in Live =>
        handle[o] \/ (Closer /\ o \in target["shutdown"])
Workers == HandlesHeld /\ WorkersJoined /\ JoinedAreDone /\ LiveAreHeld

-----------------------------------------------------------------------------
(* The queue of notifications.                                             *)

Entries(q) == {q[i] : i \in DOMAIN q}
Distinct(q) == \A i, j \in DOMAIN q : q[i] = q[j] => i = j

\* The queue has an entry for each key with a pending sequence, and one only.
QueueShape ==
    /\ \A k \in Keys : slot[k] # 0 <=> k \in Entries(order)
    /\ Distinct(order)

\* One thread delivers, and only while it does has it something in hand.
OneDelivers ==
    /\ \A t \in Threads : pc[t] \in Delivering <=> drainer = t
    /\ \A t \in Threads :
          IF pc[t] = "handler" THEN inflight[t].key \in Keys
                               ELSE inflight[t] = Idle

\* What was handed to the handler is what the record says was delivered, and no
\* sequence is ahead of the clock.
Clocks ==
    /\ nextState >= 1
    /\ \A o \in Ops : /\ heard[o] = delivered[o]
                      /\ delivered[o] < nextState /\ sequence[o] < nextState
    /\ \A s \in Sessions : /\ heard[s] <= published /\ slot[s] <= published
                           /\ slot[s] # 0 => heard[s] < slot[s]

\* What is in hand is newer than what was heard, and not newer than what is
\* pending.
InHand ==
    \A t \in Threads : pc[t] = "handler" =>
        LET k == inflight[t].key
            n == inflight[t].sequence
        IN  /\ k \in Ops => delivered[k] < n /\ n <= slot[k]
            /\ k \in Sessions => /\ heard[k] < n /\ n <= published
                                 /\ slot[k] # 0 => n < slot[k]

\* A subscription has a pending notification only while its session exists.
SessionQueue ==
    \A s \in Sessions : slot[s] # 0 => s \in registered \/ phase = "kComplete"

ServiceInv ==
    /\ TypeOK /\ Shape /\ Books /\ Departed /\ Workers
    /\ QueueShape /\ OneDelivers /\ Clocks /\ InHand /\ SessionQueue
    /\ QueueHoldsWhatIsUnheard /\ EvictedWasHeard /\ NoStrandedNotification

-----------------------------------------------------------------------------
(* The operators of the model.                                             *)

\* Entries are kept in the place that the number of kept entries up to them
\* gives them: each place has one.
LEMMA KeptPlaces ==
  ASSUME NEW n \in Nat, NEW kept \in SUBSET (1 .. n)
  PROVE  /\ IsFiniteSet(kept) /\ Cardinality(kept) \in Nat
         /\ \A m \in 1 .. Cardinality(kept) : \E i \in kept :
               Cardinality({j \in kept : j <= i}) = m
         /\ \A i \in kept :
               /\ Cardinality({j \in kept : j <= i}) \in 1 .. Cardinality(kept)
               /\ \A k \in kept : Cardinality({j \in kept : j <= i}) =
                     Cardinality({j \in kept : j <= k}) => i = k
<1> DEFINE Upto(i) == {j \in kept : j <= i}
           f == [i \in kept |-> Cardinality(Upto(i))]
           places == 1 .. Cardinality(kept)
<1>1. IsFiniteSet(kept) /\ Cardinality(kept) \in Nat
  <2>1. IsFiniteSet(1 .. n)
    BY FS_Interval
  <2> QED
    BY <2>1, FS_Subset, FS_CardinalityType
<1>2. ASSUME NEW i \in kept
      PROVE  /\ IsFiniteSet(Upto(i)) /\ Cardinality(Upto(i)) \in places
  <2>1. Upto(i) \in SUBSET kept /\ i \in Upto(i)
    OBVIOUS
  <2>2. IsFiniteSet(Upto(i)) /\ Cardinality(Upto(i)) <= Cardinality(kept)
    BY <1>1, <2>1, FS_Subset
  <2>3. Cardinality(Upto(i)) \in Nat /\ Cardinality(Upto(i)) # 0
    BY <2>1, <2>2, FS_CardinalityType, FS_EmptySet
  <2> QED
    BY <1>1, <2>2, <2>3
<1>3. ASSUME NEW i \in kept, NEW k \in kept,
             Cardinality(Upto(i)) = Cardinality(Upto(k))
      PROVE  i = k
  <2>1. CASE i <= k
    <3>1. ASSUME NEW j \in Upto(i) PROVE j \in Upto(k)
      <4>1. j \in kept /\ j <= i /\ j \in Int /\ i \in Int /\ k \in Int
        OBVIOUS
      <4>2. j <= k
        BY <2>1, <4>1
      <4> QED
        BY <4>1, <4>2
    <3>2. Upto(i) = Upto(k)
      BY <1>2, <1>3, <3>1, FS_Subset
    <3>3. k \in Upto(k)
      OBVIOUS
    <3> QED
      BY <2>1, <3>2, <3>3
  <2>2. CASE k <= i
    <3>1. ASSUME NEW j \in Upto(k) PROVE j \in Upto(i)
      <4>1. j \in kept /\ j <= k /\ j \in Int /\ i \in Int /\ k \in Int
        OBVIOUS
      <4>2. j <= i
        BY <2>2, <4>1
      <4> QED
        BY <4>1, <4>2
    <3>2. Upto(i) = Upto(k)
      BY <1>2, <1>3, <3>1, FS_Subset
    <3>3. i \in Upto(i)
      OBVIOUS
    <3> QED
      BY <2>2, <3>2, <3>3
  <2> QED
    BY <2>1, <2>2
<1>4. f \in Injection(kept, places)
  <2>1. f \in [kept -> places]
    BY <1>2
  <2>2. \A i, k \in kept : f[i] = f[k] => i = k
    BY <1>3
  <2> QED
    BY <2>1, <2>2 DEF Injection, IsInjective
<1>5. IsFiniteSet(places) /\ Cardinality(places) = Cardinality(kept)
  BY <1>1, FS_Interval
<1>6. f \in Surjection(kept, places)
  BY <1>4, <1>5, FS_Injection
<1>7. \A m \in places : \E i \in kept : Cardinality(Upto(i)) = m
  BY <1>6 DEF Surjection
<1> QED
  BY <1>1, <1>2, <1>3, <1>7

\* Keep returns the entries of the set, and each as often as it was there.
LEMMA KeptEntries ==
  ASSUME NEW T, NEW q \in Seq(T), NEW S
  PROVE  /\ Keep(q, S) \in Seq(T)
         /\ Entries(Keep(q, S)) = Entries(q) \cap S
         /\ Distinct(q) => Distinct(Keep(q, S))
<1> DEFINE kept == {i \in DOMAIN q : q[i] \in S}
           At(m) == CHOOSE i \in kept : Cardinality({j \in kept : j <= i}) = m
           r == [m \in 1 .. Cardinality(kept) |-> q[At(m)]]
<1>1. r = Keep(q, S)
  BY DEF Keep
<1>2. kept \in SUBSET (1 .. Len(q)) /\ Len(q) \in Nat
  OBVIOUS
<1> HIDE DEF kept
<1>3. /\ Cardinality(kept) \in Nat
      /\ \A m \in 1 .. Cardinality(kept) : \E i \in kept :
               Cardinality({j \in kept : j <= i}) = m
      /\ \A i \in kept :
            /\ Cardinality({j \in kept : j <= i}) \in 1 .. Cardinality(kept)
            /\ \A k \in kept : Cardinality({j \in kept : j <= i}) =
                  Cardinality({j \in kept : j <= k}) => i = k
  BY <1>2, KeptPlaces
<1>4. \A m \in 1 .. Cardinality(kept) :
         At(m) \in kept /\ Cardinality({j \in kept : j <= At(m)}) = m
  BY <1>3
<1>5. \A i \in kept : At(Cardinality({j \in kept : j <= i})) = i
  BY <1>3, <1>4
<1> HIDE DEF At
<1>6. \A i \in kept : i \in DOMAIN q /\ q[i] \in S /\ q[i] \in T
  BY DEF kept
<1>7. r \in Seq(T) /\ DOMAIN r = 1 .. Cardinality(kept)
  <2>1. r \in [1 .. Cardinality(kept) -> T]
    BY <1>4, <1>6
  <2> QED
    BY <1>3, <2>1
<1>8. ASSUME NEW x
      PROVE  x \in Entries(r) <=> x \in Entries(q) \cap S
  <2>1. ASSUME x \in Entries(r) PROVE x \in Entries(q) \cap S
    <3>1. PICK m \in DOMAIN r : x = r[m]
      BY <2>1 DEF Entries
    <3> QED
      BY <1>4, <1>6, <1>7, <3>1 DEF Entries
  <2>2. ASSUME x \in Entries(q) \cap S PROVE x \in Entries(r)
    <3>1. PICK i \in DOMAIN q : x = q[i]
      BY <2>2 DEF Entries
    <3>2. i \in kept
      BY <2>2, <3>1 DEF kept
    <3> DEFINE m == Cardinality({j \in kept : j <= i})
    <3>3. m \in DOMAIN r /\ r[m] = q[i]
      BY <1>3, <1>5, <1>7, <3>2
    <3> QED
      BY <3>1, <3>3 DEF Entries
  <2> QED
    BY <2>1, <2>2
<1>9. ASSUME Distinct(q) PROVE Distinct(r)
  <2> SUFFICES ASSUME NEW m \in DOMAIN r, NEW k \in DOMAIN r, r[m] = r[k]
               PROVE  m = k
    BY DEF Distinct
  <2>1. q[At(m)] = q[At(k)] /\ At(m) \in DOMAIN q /\ At(k) \in DOMAIN q
    BY <1>4, <1>6, <1>7
  <2>2. At(m) = At(k)
    BY <1>9, <2>1 DEF Distinct
  <2> QED
    BY <1>4, <1>7, <2>2
<1> QED
  BY <1>1, <1>7, <1>8, <1>9

\* Putting a queue behind another.
LEMMA Joining ==
  ASSUME NEW T, NEW q \in Seq(T), NEW r \in Seq(T)
  PROVE  /\ q \o r \in Seq(T)
         /\ Entries(q \o r) = Entries(q) \cup Entries(r)
         /\ Distinct(q) /\ Distinct(r) /\ Entries(q) \cap Entries(r) = {} =>
               Distinct(q \o r)
<1> DEFINE c == q \o r
<1>1. /\ c \in Seq(T) /\ DOMAIN c = 1 .. Len(q) + Len(r)
      /\ DOMAIN q = 1 .. Len(q) /\ DOMAIN r = 1 .. Len(r)
      /\ Len(q) \in Nat /\ Len(r) \in Nat
      /\ \A i \in 1 .. Len(q) : c[i] = q[i]
      /\ \A i \in 1 .. Len(r) : c[i + Len(q)] = r[i]
      /\ \A i \in DOMAIN c : i \notin 1 .. Len(q) =>
            i - Len(q) \in 1 .. Len(r) /\ c[i] = r[i - Len(q)]
  OBVIOUS
<1> HIDE DEF c
<1>2. Entries(c) = Entries(q) \cup Entries(r)
  <2>1. ASSUME NEW i \in DOMAIN c PROVE c[i] \in Entries(q) \cup Entries(r)
    BY <1>1 DEF Entries
  <2>2. ASSUME NEW i \in DOMAIN q PROVE q[i] \in Entries(c)
    <3>1. i \in DOMAIN c /\ c[i] = q[i]
      BY <1>1
    <3> QED
      BY <3>1 DEF Entries
  <2>3. ASSUME NEW i \in DOMAIN r PROVE r[i] \in Entries(c)
    <3>1. i + Len(q) \in DOMAIN c /\ c[i + Len(q)] = r[i]
      BY <1>1
    <3> QED
      BY <3>1 DEF Entries
  <2> QED
    BY <2>1, <2>2, <2>3 DEF Entries
<1>3. ASSUME Distinct(q), Distinct(r), Entries(q) \cap Entries(r) = {}
      PROVE  Distinct(c)
  <2> SUFFICES ASSUME NEW i \in DOMAIN c, NEW j \in DOMAIN c, c[i] = c[j]
               PROVE  i = j
    BY DEF Distinct
  <2>1. CASE i \in 1 .. Len(q) /\ j \in 1 .. Len(q)
    BY <1>1, <1>3, <2>1 DEF Distinct
  <2>2. CASE i \notin 1 .. Len(q) /\ j \notin 1 .. Len(q)
    <3>1. i - Len(q) = j - Len(q)
      BY <1>1, <1>3, <2>2 DEF Distinct
    <3> QED
      BY <1>1, <3>1
  <2>3. CASE i \in 1 .. Len(q) /\ j \notin 1 .. Len(q)
    <3>1. c[i] \in Entries(q) /\ c[j] \in Entries(r)
      BY <1>1, <2>3 DEF Entries
    <3> QED
      BY <1>3, <3>1
  <2>4. CASE i \notin 1 .. Len(q) /\ j \in 1 .. Len(q)
    <3>1. c[j] \in Entries(q) /\ c[i] \in Entries(r)
      BY <1>1, <2>4 DEF Entries
    <3> QED
      BY <1>3, <3>1
  <2> QED
    BY <2>1, <2>2, <2>3, <2>4
<1> QED
  BY <1>1, <1>2, <1>3 DEF c

\* Taking the head of a queue.
LEMMA TailEntries ==
  ASSUME NEW T, NEW q \in Seq(T), q # <<>>, Distinct(q)
  PROVE  /\ Tail(q) \in Seq(T) /\ Head(q) \in T /\ Head(q) \in Entries(q)
         /\ Entries(Tail(q)) = Entries(q) \ {Head(q)}
         /\ Distinct(Tail(q))
<1> DEFINE c == Tail(q)
<1>1. /\ c \in Seq(T) /\ Head(q) = q[1] /\ 1 \in DOMAIN q /\ q[1] \in T
      /\ DOMAIN q = 1 .. Len(q) /\ Len(q) \in Nat \ {0}
      /\ DOMAIN c = 1 .. (Len(q) - 1)
      /\ \A i \in DOMAIN c : i + 1 \in DOMAIN q /\ c[i] = q[i + 1]
  OBVIOUS
<1> HIDE DEF c
<1>2. ASSUME NEW i \in DOMAIN c PROVE c[i] \in Entries(q) \ {Head(q)}
  <2>1. i + 1 \in DOMAIN q /\ c[i] = q[i + 1] /\ i + 1 # 1
    BY <1>1
  <2>2. q[i + 1] # q[1]
    BY <1>1, <2>1 DEF Distinct
  <2> QED
    BY <1>1, <2>1, <2>2 DEF Entries
<1>3. ASSUME NEW i \in DOMAIN q, q[i] # Head(q) PROVE q[i] \in Entries(c)
  <2>1. i - 1 \in DOMAIN c /\ c[i - 1] = q[i]
    BY <1>1, <1>3
  <2> QED
    BY <2>1 DEF Entries
<1>4. Distinct(c)
  BY <1>1 DEF Distinct
<1>5. Entries(c) = Entries(q) \ {Head(q)}
  BY <1>2, <1>3 DEF Entries
<1>6. Head(q) \in Entries(q)
  BY <1>1 DEF Entries
<1> QED
  BY <1>1, <1>4, <1>5, <1>6 DEF c

\* An ordering of a finite set has each of its members once.
LEMMA OrderingEntries ==
  ASSUME NEW S, IsFiniteSet(S), NEW q \in Orderings(S)
  PROVE  /\ q \in Seq(S) /\ Entries(q) = S /\ Distinct(q)
         /\ Len(q) = Cardinality(S)
         /\ \A x \in S : /\ Position(q, x) \in 1 .. Len(q)
                        /\ q[Position(q, x)] = x
<1>1. /\ Cardinality(S) \in Nat /\ q \in [1 .. Cardinality(S) -> S]
      /\ \A x \in S : \E i \in DOMAIN q : q[i] = x
  BY FS_CardinalityType DEF Orderings
<1>2. q \in Seq(S) /\ Len(q) = Cardinality(S) /\ DOMAIN q = 1 .. Len(q)
  BY <1>1
<1>3. q \in Surjection(1 .. Cardinality(S), S)
  BY <1>1 DEF Surjection
<1>4. /\ IsFiniteSet(1 .. Cardinality(S))
      /\ Cardinality(1 .. Cardinality(S)) = Cardinality(S)
  BY <1>1, FS_Interval
<1>5. q \in Injection(1 .. Cardinality(S), S)
  BY <1>3, <1>4, FS_Surjection
<1>6. Distinct(q)
  BY <1>1, <1>5 DEF Distinct, Injection, IsInjective
<1>7. Entries(q) = S
  BY <1>1 DEF Entries
<1>8. \A x \in S : Position(q, x) \in DOMAIN q /\ q[Position(q, x)] = x
  BY <1>1 DEF Position
<1> QED
  BY <1>2, <1>6, <1>7, <1>8

LEMMA SingleOrdering ==
  ASSUME NEW o
  PROVE  IsFiniteSet({o}) /\ <<o>> \in Orderings({o})
<1>1. IsFiniteSet({o}) /\ Cardinality({o}) = 1
  BY FS_EmptySet, FS_AddElement
<1> QED
  BY <1>1 DEF Orderings


LEMMA EmptyEntries ==
  ASSUME NEW T, NEW q \in Seq(T)
  PROVE  q = <<>> <=> Entries(q) = {}
<1>1. CASE q = <<>>
  BY <1>1 DEF Entries
<1>2. CASE q # <<>>
  <2>1. 1 \in DOMAIN q
    BY <1>2
  <2>2. q[1] \in Entries(q)
    BY <2>1 DEF Entries
  <2> QED
    BY <1>2, <2>2
<1> QED
  BY <1>1, <1>2

-----------------------------------------------------------------------------
(* What the steps do to the queue.                                         *)

\* The operations of a set get new sequences, which are pending.
Advanced(S) ==
    /\ sequence' \in [Ops -> Nat]
    /\ nextState' \in Nat /\ nextState' >= nextState
    /\ \A o \in S : /\ nextState <= sequence'[o] /\ sequence'[o] < nextState'
                    /\ slot'[o] = sequence'[o]
    /\ \A o \in Ops \ S : sequence'[o] = sequence[o]
    /\ \A k \in Keys \ S : slot'[k] = slot[k]

\* The queue and the slots are well-formed after a step.
QueueKept ==
    slot' \in [Keys -> Nat] /\ order' \in Seq(Keys) /\ QueueShape'

\* Advance moves the operations it is given to the back of the queue.
LEMMA AdvanceFacts ==
  ASSUME TypeOK, QueueShape, nextState >= 1,
         NEW S \in SUBSET Ops, NEW q \in Orderings(S), Advance(q)
  PROVE  Advanced(S) /\ QueueKept
<1>1. IsFiniteSet(S)
  BY ServiceAssumption, FS_Subset
<1>2. /\ q \in Seq(S) /\ Entries(q) = S /\ Distinct(q)
      /\ \A x \in S : Position(q, x) \in 1 .. Len(q) /\ q[Position(q, x)] = x
  BY <1>1, OrderingEntries
<1>3. /\ nextState \in Nat /\ Len(q) \in Nat /\ sequence \in [Ops -> Nat]
      /\ slot \in [Keys -> Nat] /\ order \in Seq(Keys)
  BY <1>2 DEF TypeOK
<1>4. /\ sequence' = [o \in Ops |->
            IF o \in S THEN nextState + Position(q, o) - 1 ELSE sequence[o]]
      /\ nextState' = nextState + Len(q)
      /\ slot' = [k \in Keys |-> IF k \in S THEN nextState + Position(q, k) - 1
                                           ELSE slot[k]]
      /\ order' = Keep(order, Keys \ S) \o q
  <2>1. \A o : (\E i \in DOMAIN q : q[i] = o) <=> o \in S
    BY <1>2 DEF Entries
  <2>2. {q[i] : i \in DOMAIN q} = S
    BY <1>2 DEF Entries
  <2> QED
    BY <2>1, <2>2 DEF Advance, QueueNotification
<1>5. ASSUME NEW x \in S
      PROVE  /\ nextState + Position(q, x) - 1 \in Nat
             /\ nextState <= nextState + Position(q, x) - 1
             /\ nextState + Position(q, x) - 1 < nextState + Len(q)
  <2> DEFINE p == Position(q, x)
  <2>1. p \in 1 .. Len(q)
    BY <1>2
  <2> HIDE DEF p
  <2>2. p \in Int /\ 1 <= p /\ p <= Len(q)
    BY <1>3, <2>1
  <2>3. /\ nextState + p - 1 \in Nat /\ nextState <= nextState + p - 1
        /\ nextState + p - 1 < nextState + Len(q)
    BY <1>3, <2>2
  <2> QED
    BY <2>3 DEF p
<1>6. S \in SUBSET Keys
  BY DEF Keys
<1>7. Advanced(S)
  BY <1>3, <1>4, <1>5, <1>6 DEF Advanced, Keys
<1>8. slot' \in [Keys -> Nat]
  BY <1>3, <1>4, <1>5
<1>9. /\ Keep(order, Keys \ S) \in Seq(Keys)
      /\ Entries(Keep(order, Keys \ S)) = Entries(order) \cap (Keys \ S)
      /\ Distinct(Keep(order, Keys \ S))
  BY <1>3, KeptEntries DEF QueueShape
<1>10. q \in Seq(Keys)
  BY <1>2, <1>6
<1>11. /\ order' \in Seq(Keys) /\ Distinct(order')
       /\ Entries(order') = (Entries(order) \cap (Keys \ S)) \cup S
  <2> DEFINE r == Keep(order, Keys \ S)
  <2>1. /\ r \in Seq(Keys) /\ q \in Seq(Keys) /\ Distinct(r) /\ Distinct(q)
        /\ Entries(r) \cap Entries(q) = {}
    BY <1>2, <1>9, <1>10
  <2> HIDE DEF r
  <2>2. /\ r \o q \in Seq(Keys) /\ Entries(r \o q) = Entries(r) \cup Entries(q)
        /\ Distinct(r \o q)
    BY <2>1, Joining
  <2> QED
    BY <1>2, <1>4, <1>9, <2>2 DEF r
<1>12. \A k \in S : slot'[k] # 0
  BY <1>3, <1>4, <1>5, <1>6
<1>13. \A k \in Keys \ S : slot'[k] = slot[k]
  BY <1>4
<1>14. \A k \in Keys : slot'[k] # 0 <=> k \in Entries(order')
  BY <1>6, <1>11, <1>12, <1>13 DEF QueueShape
<1> QED
  BY <1>7, <1>8, <1>11, <1>14 DEF QueueKept, QueueShape

\* Some live operations become kCancelling.
Cancels(F) ==
    /\ \A o \in F : state[o] \in Live
    /\ state' = [o \in Ops |-> IF o \in F THEN "kCancelling" ELSE state[o]]
    /\ cancelled' = [o \in Ops |-> o \in F \/ cancelled[o]]
    /\ Advanced(F)

\* RequestCancel advances the live operations not cancelled before.
LEMMA CancelFacts ==
  ASSUME TypeOK, QueueShape, nextState >= 1, NEW S \in SUBSET Ops,
         RequestCancel(S)
  PROVE  QueueKept /\ \E F \in SUBSET Ops : Cancels(F)
<1> DEFINE F == {o \in S : state[o] \in Live /\ ~cancelled[o]}
<1>1. PICK q \in Orderings(F) :
        /\ cancelled' = [o \in Ops |-> o \in F \/ cancelled[o]]
        /\ state' = [o \in Ops |-> IF o \in F THEN "kCancelling" ELSE state[o]]
        /\ Advance(q)
  BY DEF RequestCancel
<1>2. F \in SUBSET Ops /\ \A o \in F : state[o] \in Live
  OBVIOUS
<1> HIDE DEF F
<1>3. Advanced(F) /\ QueueKept
  BY <1>1, <1>2, AdvanceFacts
<1> QED
  BY <1>1, <1>2, <1>3 DEF Cancels

\* One operation advances.
LEMMA AdvanceOne ==
  ASSUME TypeOK, QueueShape, nextState >= 1, NEW o \in Ops, Advance(<<o>>)
  PROVE  Advanced({o}) /\ QueueKept
<1>1. <<o>> \in Orderings({o})
  BY SingleOrdering
<1> QED
  BY <1>1, AdvanceFacts

\* A key leaves the queue.
LEMMA DropFacts ==
  ASSUME TypeOK, QueueShape, NEW k,
         slot' = [x \in Keys |-> IF x = k THEN 0 ELSE slot[x]],
         order' = Without(k)
  PROVE  QueueKept
<1>1. slot \in [Keys -> Nat] /\ order \in Seq(Keys)
  BY DEF TypeOK
<1>2. /\ order' \in Seq(Keys) /\ Distinct(order')
      /\ Entries(order') = Entries(order) \cap (Keys \ {k})
  BY <1>1, KeptEntries DEF Without, QueueShape
<1>3. slot' \in [Keys -> Nat]
  BY <1>1
<1> QED
  BY <1>1, <1>2, <1>3 DEF QueueKept, QueueShape

\* A notification that failed goes to the back of the queue.
LEMMA RequeueFacts ==
  ASSUME TypeOK, QueueShape, NEW k \in Keys, slot[k] # 0, slot' = slot,
         order' = Append(Without(k), k)
  PROVE  QueueKept
<1>1. slot \in [Keys -> Nat] /\ order \in Seq(Keys)
  BY DEF TypeOK
<1>2. /\ Without(k) \in Seq(Keys) /\ Distinct(Without(k))
      /\ Entries(Without(k)) = Entries(order) \cap (Keys \ {k})
  BY <1>1, KeptEntries DEF Without, QueueShape
<1>3. /\ <<k>> \in Seq(Keys) /\ Entries(<<k>>) = {k} /\ Distinct(<<k>>)
      /\ Append(Without(k), k) = Without(k) \o <<k>>
  <2>1. IsFiniteSet({k}) /\ <<k>> \in Orderings({k})
    BY SingleOrdering
  <2>2. /\ <<k>> \in Seq({k}) /\ Entries(<<k>>) = {k} /\ Distinct(<<k>>)
    BY <2>1, OrderingEntries
  <2>3. Append(Without(k), k) = Without(k) \o <<k>>
    BY <1>2
  <2> QED
    BY <2>2, <2>3
<1>4. /\ order' \in Seq(Keys) /\ Distinct(order')
      /\ Entries(order') = (Entries(order) \cap (Keys \ {k})) \cup {k}
  <2> DEFINE r == Without(k)
             c == <<k>>
  <2>1. /\ r \in Seq(Keys) /\ c \in Seq(Keys) /\ Distinct(r) /\ Distinct(c)
        /\ Entries(r) \cap Entries(c) = {}
    BY <1>2, <1>3
  <2> HIDE DEF r, c
  <2>2. /\ r \o c \in Seq(Keys) /\ Entries(r \o c) = Entries(r) \cup Entries(c)
        /\ Distinct(r \o c)
    BY <2>1, Joining
  <2> QED
    BY <1>2, <1>3, <2>2 DEF r, c
<1> QED
  BY <1>1, <1>4 DEF QueueKept, QueueShape

\* The notification of a subscription is popped.
LEMMA PopFacts ==
  ASSUME TypeOK, QueueShape, order # <<>>,
         slot' = [slot EXCEPT ![Head(order)] = 0], order' = Tail(order)
  PROVE  QueueKept
<1>1. slot \in [Keys -> Nat] /\ order \in Seq(Keys) /\ Distinct(order)
  BY DEF TypeOK, QueueShape
<1>2. /\ order' \in Seq(Keys) /\ Distinct(order') /\ Head(order) \in Keys
      /\ Entries(order') = Entries(order) \ {Head(order)}
  BY <1>1, TailEntries
<1>3. slot' \in [Keys -> Nat]
  BY <1>1, <1>2
<1> QED
  BY <1>1, <1>2, <1>3 DEF QueueKept, QueueShape

\* Publish puts the subscriptions without a pending notification at the back.
LEMMA PublishFacts ==
  ASSUME TypeOK, QueueShape, IsFiniteSet(registered), Publish
  PROVE  /\ QueueKept
         /\ \E hits \in SUBSET registered : slot' =
               [k \in Keys |-> IF k \in hits THEN published + 1 ELSE slot[k]]
<1>1. PICK hits \in SUBSET {s \in registered : subscription[s] = "active"} :
        \E q \in Orderings({s \in hits : slot[s] = 0}) :
          /\ slot' = [k \in Keys |-> IF k \in hits THEN published + 1
                                                   ELSE slot[k]]
          /\ order' = order \o q
  BY DEF Publish
<1> DEFINE new == {s \in hits : slot[s] = 0}
<1>2. PICK q \in Orderings(new) : order' = order \o q
  BY <1>1
<1>3. /\ slot \in [Keys -> Nat] /\ order \in Seq(Keys) /\ Distinct(order)
      /\ hits \in SUBSET registered /\ hits \in SUBSET Keys
      /\ new \in SUBSET registered /\ new \in SUBSET Keys
  BY <1>1 DEF TypeOK, QueueShape, Keys
<1>4. published + 1 \in Nat /\ published + 1 # 0
  BY ServiceAssumption DEF TypeOK
<1>5. IsFiniteSet(new)
  BY <1>3, FS_Subset
<1>6. \A k \in new : k \notin Entries(order)
  BY <1>3 DEF QueueShape
<1>7. \A k \in hits : k \notin new => k \in Entries(order)
  BY <1>3 DEF QueueShape
<1> HIDE DEF new
<1>8. q \in Seq(new) /\ Entries(q) = new /\ Distinct(q)
  BY <1>5, OrderingEntries
<1>9. q \in Seq(Keys) /\ Entries(order) \cap Entries(q) = {}
  BY <1>3, <1>6, <1>8
<1>10. /\ order' \in Seq(Keys) /\ Distinct(order')
       /\ Entries(order') = Entries(order) \cup new
  BY <1>2, <1>3, <1>8, <1>9, Joining
<1>11. slot' \in [Keys -> Nat]
  BY <1>1, <1>3, <1>4
<1>12. ASSUME NEW k \in Keys PROVE slot'[k] # 0 <=> k \in Entries(order')
  <2>1. CASE k \in hits
    BY <1>1, <1>4, <1>7, <1>10, <2>1
  <2>2. CASE k \notin hits
    <3>1. k \notin new /\ slot'[k] = slot[k]
      BY <1>1, <2>2 DEF new
    <3> QED
      BY <1>10, <3>1 DEF QueueShape
  <2> QED
    BY <2>1, <2>2
<1> QED
  BY <1>1, <1>3, <1>10, <1>11, <1>12 DEF QueueKept, QueueShape

\* The steps that cancel.
LEMMA CancelSteps ==
  ASSUME TypeOK, QueueShape, nextState >= 1,
         \/ \E s \in Sessions : RemoveSession(s)
         \/ \E r \in Requests, o \in Ops : CancelOperation(r, o)
         \/ Shutdown
  PROVE  QueueKept /\ \E F \in SUBSET Ops : Cancels(F)
<1>1. ASSUME NEW s \in Sessions, RemoveSession(s)
      PROVE  \E S \in SUBSET Ops : RequestCancel(S)
  <2>1. OpsOf(s) \in SUBSET Ops /\ RequestCancel(OpsOf(s))
    BY <1>1 DEF RemoveSession, OpsOf, Retained
  <2> QED
    BY <2>1
<1>2. ASSUME NEW r \in Requests, NEW o \in Ops, CancelOperation(r, o)
      PROVE  \E S \in SUBSET Ops : RequestCancel(S)
  <2>1. {o} \in SUBSET Ops /\ RequestCancel({o})
    BY <1>2 DEF CancelOperation
  <2> QED
    BY <2>1
<1>3. ASSUME Shutdown PROVE \E S \in SUBSET Ops : RequestCancel(S)
  <2>1. Retained \in SUBSET Ops /\ RequestCancel(Retained)
    BY <1>3 DEF Shutdown, Retained
  <2> QED
    BY <2>1
<1>4. PICK S \in SUBSET Ops : RequestCancel(S)
  BY <1>1, <1>2, <1>3
<1> QED
  BY <1>4, CancelFacts

\* The steps of a worker that report an update.
LEMMA WorkerSteps ==
  ASSUME TypeOK, QueueShape, nextState >= 1, NEW o \in Ops,
         StartOperation(o) \/ ReportProgress(o) \/ FinishOperation(o)
  PROVE  Advanced({o}) /\ QueueKept
<1>1. Advance(<<o>>)
  BY DEF StartOperation, ReportProgress, FinishOperation, CompleteLocked
<1> QED
  BY <1>1, AdvanceOne

\* What is evicted is terminal and delivered.
LEMMA EvictionFacts ==
  ASSUME NEW gone \in Evictions
  PROVE  \A x \in gone : /\ x \in Ops /\ state[x] \in Terminal
                         /\ delivered[x] >= sequence[x]
BY DEF Evictions, Evictable

\* A thread that leaves DrainNotifications.
LEMMA AfterFacts ==
  ASSUME NEW t \in Threads
  PROVE  /\ t \in Ops => After(t) = IF state[t] \in Live THEN "execute"
                                                         ELSE "exit"
         /\ t \in Requests => After(t) = "leave"
         /\ t \in Sessions => After(t) = "wait"
         /\ t = "shutdown" => After(t) =
               IF phase = "kStopping" THEN "join" ELSE "destroyed"
         /\ t = "publisher" => After(t) = "idle"
BY ServiceAssumption DEF Threads, After

\* A thread is of one kind.
LEMMA ThreadKinds ==
  /\ \A o \in Ops : o \in Threads /\ o \in Keys /\ o \notin Sessions
                    /\ o \notin Requests /\ o # "shutdown" /\ o # "publisher"
  /\ \A s \in Sessions : s \in Threads /\ s \in Keys /\ s \notin Requests
                         /\ s \notin Ops /\ s # "shutdown" /\ s # "publisher"
  /\ \A r \in Requests : r \in Threads /\ r \notin Ops /\ r \notin Sessions
                         /\ r # "shutdown" /\ r # "publisher"
                         /\ SessionOf[r] \in Sessions
  /\ "shutdown" \in Threads /\ "publisher" \in Threads
  /\ "shutdown" \notin Keys /\ "publisher" \notin Keys
  /\ "shutdown" \notin Requests /\ "publisher" \notin Requests
  /\ Nobody \notin Threads /\ Nobody \notin Keys
  /\ \A t \in Threads : \/ t \in Ops \/ t \in Requests \/ t \in Sessions
                        \/ t = "shutdown" \/ t = "publisher"
  /\ \A k \in Keys : k \in Ops \/ k \in Sessions
BY ServiceAssumption DEF Threads, Keys

\* An operation that is live counts in its session, ...
LEMMA LiveCounts ==
  ASSUME TypeOK, Books, NEW o \in Ops, state[o] \in Live
  PROVE  owner[o] \in Sessions /\ active[owner[o]] \in Nat \ {0}
<1>1. owner[o] \in Sessions /\ o \in LiveOf(owner[o])
  BY DEF Books, LiveRegistered, TypeOK, LiveOf
<1>2. IsFiniteSet(LiveOf(owner[o]))
  BY ServiceAssumption, FS_Subset DEF LiveOf
<1>3. Cardinality(LiveOf(owner[o])) # 0
  BY <1>1, <1>2, FS_EmptySet
<1> QED
  BY <1>1, <1>3 DEF Books, ActiveBook, TypeOK

\* ... and so does a request under way.
LEMMA RequestCounts ==
  ASSUME TypeOK, Books, NEW r \in Requests, pc[r] \notin {"idle", "gone"}
  PROVE  SessionOf[r] \in Sessions /\ waiters[SessionOf[r]] \in Nat \ {0}
<1>1. SessionOf[r] \in Sessions /\ r \in Inside(SessionOf[r])
  BY ThreadKinds DEF Inside
<1>2. Cardinality(Inside(SessionOf[r])) # 0
  BY <1>1, FS_EmptySet DEF Books, WaiterBook
<1> QED
  BY <1>1, <1>2 DEF Books, WaiterBook, TypeOK

\* A thread that has joined the workers it took.
LEMMA JoinedFacts ==
  ASSUME PcShape, NEW t \in Threads, JoinWorkers(t)
  PROVE  /\ t \in Requests \cup Sessions \cup {"shutdown"}
         /\ t \in Requests => pc' = [pc EXCEPT ![t] = "leave"]
         /\ t \in Sessions => pc' = [pc EXCEPT ![t] = "removed"]
         /\ t = "shutdown" => pc' = [pc EXCEPT ![t] = "wait"]
         /\ \E where \in {"leave", "removed", "wait"} :
               pc' = [pc EXCEPT ![t] = where]
<1>1. pc[t] = "join"
  BY DEF JoinWorkers
<1>2. t \notin Ops /\ t # "publisher"
  BY <1>1 DEF PcShape, Delivering
<1>3. t \in Requests \cup Sessions \cup {"shutdown"}
  BY <1>2, ThreadKinds
<1> QED
  BY <1>3, ThreadKinds DEF JoinWorkers, Go

-----------------------------------------------------------------------------
(* Types.                                                                  *)

OpTypes ==
    /\ state \in [Ops -> Live \cup Terminal \cup {"none", "evicted"}]
    /\ owner \in [Ops -> Sessions \cup {Nobody}]
    /\ sequence \in [Ops -> Nat] /\ admission \in [Ops -> Nat]
    /\ delivered \in [Ops -> Nat] /\ progress \in [Ops -> Nat]

FlagTypes ==
    /\ cancelled \in [Ops -> BOOLEAN]
    /\ handle \in [Ops -> BOOLEAN] /\ stop \in [Keys -> BOOLEAN]
    /\ closing \in [Sessions -> BOOLEAN]

SessionTypes ==
    /\ registered \subseteq Sessions
    /\ active \in [Sessions -> Nat] /\ waiters \in [Sessions -> Nat]
    /\ subscription \in [Sessions -> {"none", "active", "inactive"}]
    /\ phase \in {"kRunning", "kStopping", "kComplete"}

ClockTypes ==
    /\ nextState \in Nat /\ nextAdmission \in Nat
    /\ serviceBudget \in ServiceBudgets
    /\ failures \in 0 .. serviceBudget.failures
    /\ published \in 0 .. serviceBudget.published
    /\ removals \in 0 .. serviceBudget.removals

NoticeTypes ==
    /\ drainer \in Threads \cup {Nobody}
    /\ inflight \in [Threads -> [key : Keys \cup {Nobody}, sequence : Nat]]
    /\ heard \in [Keys -> Nat]

ThreadTypes ==
    /\ pc \in [Threads -> {"idle", "inside", "leave", "gone", "stop", "drain",
                          "deliver", "handler", "join", "wait", "start",
                          "execute", "exit", "exited", "removed", "complete",
                          "destroyed"}]
    /\ target \in [Threads -> SUBSET Keys]

\* The fields of an operation, ...
LEMMA OpTypeStep ==
  ASSUME TypeOK, QueueShape, Clocks, OpTypes, ServiceNext
  PROVE  OpTypes'
<1> USE DEF opVars, sessionVars, clockVars, noticeVars, boundVars, Go
<1>1. ASSUME NEW s \in Sessions, RemoveSession(s) PROVE  OpTypes'
  <2>1. PICK F \in SUBSET Ops : Cancels(F)
    BY <1>1, CancelSteps DEF Clocks
  <2>2. sequence' \in [Ops -> Nat]
    BY <2>1 DEF Cancels, Advanced
  <2>3. state' \in [Ops -> Live \cup Terminal \cup {"none", "evicted"}]
    BY <2>1 DEF Cancels, Live, OpTypes
  <2> QED
    BY <1>1, <2>2, <2>3 DEF RemoveSession, OpTypes
<1>2. ASSUME NEW r \in Requests, SubmitWithoutThread(r) PROVE  OpTypes'
  <2>1. PICK gone \in Evictions :
           state' = [x \in Ops |-> IF x \in gone THEN "evicted" ELSE state[x]]
    BY <1>2 DEF SubmitWithoutThread
  <2>2. state' \in [Ops -> Live \cup Terminal \cup {"none", "evicted"}]
    BY <2>1 DEF OpTypes
  <2> QED
    BY <1>2, <2>2 DEF SubmitWithoutThread, OpTypes
<1>3. ASSUME NEW r \in Requests, NEW o \in Ops, Submit(r, o) PROVE  OpTypes'
  <2>1. PICK gone \in Evictions : state' = [x \in Ops |->
          IF x \in gone THEN "evicted"
          ELSE IF x = o THEN "kQueued" ELSE state[x]]
    BY <1>3 DEF Submit
  <2>2. state' \in [Ops -> Live \cup Terminal \cup {"none", "evicted"}]
    BY <2>1 DEF OpTypes, Live
  <2>3. nextState \in Nat /\ nextAdmission \in Nat /\ SessionOf[r] \in Sessions
    BY ThreadKinds DEF TypeOK
  <2> QED
    BY <1>3, <2>2, <2>3 DEF Submit, OpTypes
<1>4. ASSUME NEW r \in Requests, NEW o \in Ops, CancelOperation(r, o)
      PROVE  OpTypes'
  <2>1. PICK F \in SUBSET Ops : Cancels(F)
    BY <1>4, CancelSteps DEF Clocks
  <2>2. sequence' \in [Ops -> Nat]
    BY <2>1 DEF Cancels, Advanced
  <2>3. state' \in [Ops -> Live \cup Terminal \cup {"none", "evicted"}]
    BY <2>1 DEF Cancels, Live, OpTypes
  <2> QED
    BY <1>4, <2>2, <2>3 DEF CancelOperation, OpTypes
<1>5. ASSUME NEW o \in Ops,
             \/ StartOperation(o) \/ ReportProgress(o)
             \/ FinishOperation(o)
      PROVE  OpTypes'
  <2>1. sequence' \in [Ops -> Nat]
    BY <1>5, WorkerSteps DEF Clocks, Advanced
  <2>2. state' \in [Ops -> Live \cup Terminal \cup {"none", "evicted"}]
    BY <1>5 DEF StartOperation, CompleteLocked, OpTypes, Live, Terminal,
      ReportProgress, FinishOperation
  <2>3. progress' \in [Ops -> Nat]
    BY <1>5 DEF StartOperation, OpTypes, ReportProgress, FinishOperation
  <2> QED
    BY <1>5, <2>1, <2>2, <2>3 DEF StartOperation, CompleteLocked, OpTypes,
      ReportProgress, FinishOperation
<1>6. ASSUME NEW t \in Threads, HandlerTakes(t) PROVE  OpTypes'
  <2>1. inflight[t].sequence \in Nat
    BY DEF TypeOK
  <2>2. delivered' \in [Ops -> Nat]
    BY <1>6, <2>1 DEF HandlerTakes, OpTypes
  <2> QED
    BY <1>6, <2>2 DEF HandlerTakes, OpTypes
<1>7. ASSUME Shutdown PROVE  OpTypes'
  <2>1. PICK F \in SUBSET Ops : Cancels(F)
    BY <1>7, CancelSteps DEF Clocks
  <2>2. sequence' \in [Ops -> Nat]
    BY <2>1 DEF Cancels, Advanced
  <2>3. state' \in [Ops -> Live \cup Terminal \cup {"none", "evicted"}]
    BY <2>1 DEF Cancels, Live, OpTypes
  <2> QED
    BY <1>7, <2>2, <2>3 DEF Shutdown, OpTypes
<1> USE DEF OpTypes
<1>8. ASSUME NEW s \in Sessions,
             \/ RegisterSession(s) \/ SessionRemoved(s) \/ SessionLost(s)
             \/ RemoveTimedOut(s)
      PROVE  OpTypes'
  BY <1>8 DEF RegisterSession, SessionRemoved, SessionLost, RemoveTimedOut
<1>9. ASSUME NEW r \in Requests,
             \/ BeginRequest(r) \/ HandlerEnds(r) \/ EndRequest(r)
             \/ CreateSubscription(r) \/ CancelSubscription(r)
             \/ SubmitFull(r)
      PROVE  OpTypes'
  BY <1>9 DEF BeginRequest, HandlerEnds, EndRequest, CreateSubscription,
    CancelSubscription, SubmitFull
<1>10. ASSUME NEW o \in Ops, WorkerExited(o) PROVE  OpTypes'
  BY <1>10 DEF WorkerExited
<1>11. ASSUME NEW t \in Threads,
              \/ RequestStop(t) \/ Drain(t) \/ PickNotification(t)
              \/ HandlerThrows(t) \/ JoinWorkers(t)
      PROVE  OpTypes'
  BY <1>11 DEF RequestStop, Drain, PickNotification, HandlerThrows,
    JoinWorkers
<1>12. ASSUME \/ Publish \/ CloseRunSubscriptions \/ FinalizeShutdown
              \/ Destroy \/ Destroyed
      PROVE  OpTypes'
  BY <1>12 DEF Publish, CloseRunSubscriptions, FinalizeShutdown, Destroy,
    Destroyed, serviceVars
<1> QED
  BY <1>1, <1>2, <1>3, <1>4, <1>5, <1>6, <1>7, <1>8, <1>9, <1>10, <1>11, <1>12
    DEF ServiceNext, SessionStep, RequestStep, WorkerStep, ThreadStep

\* ... its flags and those of a session, ...
LEMMA FlagTypeStep ==
  ASSUME TypeOK, QueueShape, Clocks, FlagTypes, ServiceNext
  PROVE  FlagTypes'
<1> USE DEF opVars, sessionVars, clockVars, noticeVars, boundVars, Go
<1>1. ASSUME NEW s \in Sessions, RemoveSession(s) PROVE  FlagTypes'
  <2>1. PICK F \in SUBSET Ops : Cancels(F)
    BY <1>1, CancelSteps DEF Clocks
  <2> QED
    BY <1>1, <2>1 DEF RemoveSession, FlagTypes, Cancels
<1>2. ASSUME NEW r \in Requests, NEW o \in Ops, CancelOperation(r, o)
      PROVE  FlagTypes'
  <2>1. PICK F \in SUBSET Ops : Cancels(F)
    BY <1>2, CancelSteps DEF Clocks
  <2> QED
    BY <1>2, <2>1 DEF CancelOperation, FlagTypes, Cancels
<1>3. ASSUME Shutdown PROVE  FlagTypes'
  <2>1. PICK F \in SUBSET Ops : Cancels(F)
    BY <1>3, CancelSteps DEF Clocks
  <2> QED
    BY <1>3, <2>1 DEF Shutdown, FlagTypes, Cancels
<1> USE DEF FlagTypes
<1>4. ASSUME NEW s \in Sessions, SessionRemoved(s) PROVE  FlagTypes'
  BY <1>4 DEF SessionRemoved, EraseSession, Take, SessionStopped
<1>5. ASSUME NEW s \in Sessions, SessionLost(s) PROVE  FlagTypes'
  BY <1>5 DEF SessionLost, Take
<1>6. ASSUME NEW r \in Requests, SubmitWithoutThread(r) PROVE  FlagTypes'
  BY <1>6 DEF SubmitWithoutThread, SubmitAllowed, Take
<1>7. ASSUME NEW r \in Requests, SubmitFull(r) PROVE  FlagTypes'
  BY <1>7 DEF SubmitFull, SubmitAllowed, Take
<1>8. ASSUME NEW r \in Requests, NEW o \in Ops, Submit(r, o) PROVE  FlagTypes'
  BY <1>8 DEF Submit, SubmitAllowed
<1>9. ASSUME NEW o \in Ops, StartOperation(o) PROVE  FlagTypes'
  BY <1>9 DEF StartOperation, CompleteLocked
<1>10. ASSUME NEW o \in Ops, FinishOperation(o) PROVE  FlagTypes'
  BY <1>10 DEF FinishOperation, CompleteLocked
<1>11. ASSUME NEW t \in Threads, RequestStop(t) PROVE  FlagTypes'
  BY <1>11 DEF RequestStop
<1>12. ASSUME NEW s \in Sessions,
              \/ RegisterSession(s) \/ RemoveTimedOut(s)
      PROVE  FlagTypes'
  BY <1>12 DEF RegisterSession, RemoveTimedOut
<1>13. ASSUME NEW r \in Requests,
              \/ BeginRequest(r) \/ HandlerEnds(r) \/ EndRequest(r)
              \/ CreateSubscription(r) \/ CancelSubscription(r)
      PROVE  FlagTypes'
  BY <1>13 DEF BeginRequest, HandlerEnds, EndRequest, CreateSubscription,
    CancelSubscription
<1>14. ASSUME NEW o \in Ops,
              \/ ReportProgress(o) \/ WorkerExited(o)
      PROVE  FlagTypes'
  BY <1>14 DEF ReportProgress, WorkerExited
<1>15. ASSUME NEW t \in Threads,
              \/ Drain(t) \/ PickNotification(t) \/ HandlerTakes(t)
              \/ HandlerThrows(t) \/ JoinWorkers(t)
      PROVE  FlagTypes'
  BY <1>15 DEF Drain, PickNotification, HandlerTakes, HandlerThrows,
    JoinWorkers
<1>16. ASSUME \/ Publish \/ CloseRunSubscriptions \/ FinalizeShutdown
              \/ Destroy \/ Destroyed
      PROVE  FlagTypes'
  BY <1>16 DEF Publish, CloseRunSubscriptions, FinalizeShutdown, Destroy,
    Destroyed, serviceVars
<1> QED
  BY <1>1, <1>2, <1>3, <1>4, <1>5, <1>6, <1>7, <1>8, <1>9, <1>10, <1>11,
    <1>12, <1>13, <1>14, <1>15, <1>16 DEF ServiceNext, SessionStep,
    RequestStep, WorkerStep, ThreadStep

\* ... the books of a session, ...
LEMMA SessionTypeStep ==
  ASSUME TypeOK, Shape, Books, SessionTypes, ServiceNext
  PROVE  SessionTypes'
<1> USE DEF opVars, sessionVars, clockVars, noticeVars, boundVars, Go
<1>1. ASSUME NEW r \in Requests, EndRequest(r) PROVE  SessionTypes'
  <2>1. /\ SessionOf[r] \in Sessions /\ waiters[SessionOf[r]] - 1 \in Nat
    BY <1>1, RequestCounts DEF EndRequest
  <2> QED
    BY <1>1, <2>1 DEF EndRequest, SessionTypes
<1>2. ASSUME NEW o \in Ops,
             \/ StartOperation(o) \/ FinishOperation(o)
      PROVE  SessionTypes'
  <2>1. state[o] \in Live
    BY <1>2 DEF StartOperation, Shape, WorkerShape, Live, FinishOperation
  <2>2. active[owner[o]] - 1 \in Nat
    BY <2>1, LiveCounts
  <2>3. active' \in [Sessions -> Nat]
    BY <1>2, <2>2 DEF StartOperation, CompleteLocked, SessionTypes,
      FinishOperation
  <2> QED
    BY <1>2, <2>3 DEF StartOperation, SessionTypes, FinishOperation
<1> USE DEF SessionTypes
<1>3. ASSUME NEW s \in Sessions, RegisterSession(s) PROVE  SessionTypes'
  BY <1>3 DEF RegisterSession
<1>4. ASSUME NEW s \in Sessions, RemoveSession(s) PROVE  SessionTypes'
  BY <1>4 DEF RemoveSession
<1>5. ASSUME NEW s \in Sessions, SessionRemoved(s) PROVE  SessionTypes'
  BY <1>5 DEF SessionRemoved, EraseSession, Take, SessionStopped
<1>6. ASSUME NEW r \in Requests, BeginRequest(r) PROVE  SessionTypes'
  BY <1>6, ThreadKinds DEF BeginRequest
<1>7. ASSUME NEW r \in Requests, CreateSubscription(r) PROVE  SessionTypes'
  BY <1>7, ThreadKinds DEF CreateSubscription
<1>8. ASSUME NEW r \in Requests, CancelSubscription(r) PROVE  SessionTypes'
  BY <1>8, ThreadKinds DEF CancelSubscription
<1>9. ASSUME NEW r \in Requests, NEW o \in Ops, Submit(r, o)
      PROVE  SessionTypes'
  BY <1>9, ThreadKinds DEF Submit, SubmitAllowed
<1>10. ASSUME CloseRunSubscriptions PROVE  SessionTypes'
  BY <1>10 DEF CloseRunSubscriptions
<1>11. ASSUME Shutdown PROVE  SessionTypes'
  BY <1>11 DEF Shutdown
<1>12. ASSUME FinalizeShutdown PROVE  SessionTypes'
  BY <1>12 DEF FinalizeShutdown
<1>13. ASSUME NEW s \in Sessions,
              \/ SessionLost(s) \/ RemoveTimedOut(s)
      PROVE  SessionTypes'
  BY <1>13 DEF SessionLost, RemoveTimedOut
<1>14. ASSUME NEW r \in Requests,
              \/ HandlerEnds(r) \/ SubmitWithoutThread(r) \/ SubmitFull(r)
      PROVE  SessionTypes'
  BY <1>14 DEF HandlerEnds, SubmitWithoutThread, SubmitFull
<1>15. ASSUME NEW r \in Requests, NEW o \in Ops, CancelOperation(r, o)
      PROVE  SessionTypes'
  BY <1>15 DEF CancelOperation
<1>16. ASSUME NEW o \in Ops,
              \/ ReportProgress(o) \/ WorkerExited(o)
      PROVE  SessionTypes'
  BY <1>16 DEF ReportProgress, WorkerExited
<1>17. ASSUME NEW t \in Threads,
              \/ RequestStop(t) \/ Drain(t) \/ PickNotification(t)
              \/ HandlerTakes(t) \/ HandlerThrows(t) \/ JoinWorkers(t)
      PROVE  SessionTypes'
  BY <1>17 DEF RequestStop, Drain, PickNotification, HandlerTakes,
    HandlerThrows, JoinWorkers
<1>18. ASSUME \/ Publish \/ Destroy \/ Destroyed
      PROVE  SessionTypes'
  BY <1>18 DEF Publish, Destroy, Destroyed, serviceVars
<1> QED
  BY <1>1, <1>2, <1>3, <1>4, <1>5, <1>6, <1>7, <1>8, <1>9, <1>10, <1>11,
    <1>12, <1>13, <1>14, <1>15, <1>16, <1>17, <1>18 DEF ServiceNext,
    SessionStep, RequestStep, WorkerStep, ThreadStep

\* ... the clocks and the bounds, ...
LEMMA ClockTypeStep ==
  ASSUME TypeOK, QueueShape, Clocks, ClockTypes, ServiceNext
  PROVE  ClockTypes'
<1> USE DEF opVars, sessionVars, clockVars, noticeVars, boundVars, Go
<1>1. ASSUME NEW s \in Sessions, RemoveSession(s) PROVE  ClockTypes'
  <2>1. nextState' \in Nat
    BY <1>1, CancelSteps DEF Clocks, Cancels, Advanced
  <2> QED
    BY <1>1, <2>1, ServiceAssumption DEF RemoveSession, ClockTypes
<1>2. ASSUME NEW r \in Requests, NEW o \in Ops, CancelOperation(r, o)
      PROVE  ClockTypes'
  <2>1. nextState' \in Nat
    BY <1>2, CancelSteps DEF Clocks, Cancels, Advanced
  <2> QED
    BY <1>2, <2>1, ServiceAssumption DEF CancelOperation, ClockTypes
<1>3. ASSUME NEW o \in Ops,
             \/ StartOperation(o) \/ ReportProgress(o)
             \/ FinishOperation(o)
      PROVE  ClockTypes'
  <2>1. nextState' \in Nat
    BY <1>3, WorkerSteps DEF Clocks, Advanced
  <2> QED
    BY <1>3, <2>1 DEF StartOperation, ClockTypes, ReportProgress,
      FinishOperation
<1>4. ASSUME Shutdown PROVE  ClockTypes'
  <2>1. nextState' \in Nat
    BY <1>4, CancelSteps DEF Clocks, Cancels, Advanced
  <2> QED
    BY <1>4, <2>1, ServiceAssumption DEF Shutdown, ClockTypes
<1> USE DEF ClockTypes
<1>5. ASSUME NEW r \in Requests, CreateSubscription(r) PROVE  ClockTypes'
  BY <1>5, ServiceAssumption DEF CreateSubscription
<1>6. ASSUME NEW r \in Requests, SubmitWithoutThread(r) PROVE  ClockTypes'
  BY <1>6, ServiceAssumption DEF SubmitWithoutThread, SubmitAllowed, Take
<1>7. ASSUME NEW r \in Requests, NEW o \in Ops, Submit(r, o)
      PROVE  ClockTypes'
  BY <1>7, ServiceAssumption DEF Submit, SubmitAllowed
<1>8. ASSUME NEW t \in Threads, HandlerThrows(t) PROVE  ClockTypes'
  BY <1>8, ServiceAssumption DEF HandlerThrows, DeliverMore
<1>9. ASSUME Publish PROVE  ClockTypes'
  BY <1>9, ServiceAssumption DEF Publish
<1>10. ASSUME NEW s \in Sessions,
              \/ RegisterSession(s) \/ SessionRemoved(s) \/ SessionLost(s)
              \/ RemoveTimedOut(s)
      PROVE  ClockTypes'
  BY <1>10 DEF RegisterSession, SessionRemoved, SessionLost, RemoveTimedOut
<1>11. ASSUME NEW r \in Requests,
              \/ BeginRequest(r) \/ HandlerEnds(r) \/ EndRequest(r)
              \/ CancelSubscription(r) \/ SubmitFull(r)
      PROVE  ClockTypes'
  BY <1>11 DEF BeginRequest, HandlerEnds, EndRequest, CancelSubscription,
    SubmitFull
<1>12. ASSUME NEW o \in Ops, WorkerExited(o) PROVE  ClockTypes'
  BY <1>12 DEF WorkerExited
<1>13. ASSUME NEW t \in Threads,
              \/ RequestStop(t) \/ Drain(t) \/ PickNotification(t)
              \/ HandlerTakes(t) \/ JoinWorkers(t)
      PROVE  ClockTypes'
  BY <1>13 DEF RequestStop, Drain, PickNotification, HandlerTakes, JoinWorkers
<1>14. ASSUME \/ CloseRunSubscriptions \/ FinalizeShutdown \/ Destroy
              \/ Destroyed
      PROVE  ClockTypes'
  BY <1>14 DEF CloseRunSubscriptions, FinalizeShutdown, Destroy, Destroyed,
    serviceVars
<1> QED
  BY <1>1, <1>2, <1>3, <1>4, <1>5, <1>6, <1>7, <1>8, <1>9, <1>10, <1>11,
    <1>12, <1>13, <1>14 DEF ServiceNext, SessionStep, RequestStep, WorkerStep,
    ThreadStep

\* ... what is delivered ...
LEMMA NoticeTypeStep ==
  ASSUME TypeOK, NoticeTypes, ServiceNext
  PROVE  NoticeTypes'
<1> USE DEF opVars, sessionVars, clockVars, noticeVars, boundVars, Go
<1>1. ASSUME NEW t \in Threads, PickNotification(t) PROVE  NoticeTypes'
  <2>1. CASE order = <<>>
    BY <1>1, <2>1 DEF PickNotification, NoticeTypes
  <2>2. CASE order # <<>>
    <3>1. Head(order) \in Keys
      BY <2>2 DEF TypeOK
    <3>2. slot[Head(order)] \in Nat
      BY <3>1 DEF TypeOK
    <3>3. inflight' = [inflight EXCEPT ![t] =
                         [key |-> Head(order), sequence |-> slot[Head(order)]]]
      BY <1>1, <2>2 DEF PickNotification
    <3>4. inflight' \in [Threads -> [key : Keys \cup {Nobody}, sequence : Nat]]
      BY <3>1, <3>2, <3>3 DEF NoticeTypes
    <3> QED
      BY <1>1, <2>2, <3>4 DEF PickNotification, NoticeTypes
  <2> QED
    BY <2>1, <2>2
<1>2. ASSUME NEW t \in Threads, HandlerTakes(t) PROVE  NoticeTypes'
  <2>1. inflight[t].sequence \in Nat
    BY DEF NoticeTypes
  <2>2. inflight' \in [Threads -> [key : Keys \cup {Nobody}, sequence : Nat]]
    BY <1>2 DEF HandlerTakes, NoticeTypes, Idle
  <2> QED
    BY <1>2, <2>1, <2>2 DEF HandlerTakes, DeliverMore, NoticeTypes
<1>3. ASSUME NEW t \in Threads, HandlerThrows(t) PROVE  NoticeTypes'
  <2>1. inflight' \in [Threads -> [key : Keys \cup {Nobody}, sequence : Nat]]
    BY <1>3 DEF HandlerThrows, NoticeTypes, Idle
  <2> QED
    BY <1>3, <2>1 DEF HandlerThrows, DeliverMore, NoticeTypes
<1> USE DEF NoticeTypes
<1>4. ASSUME NEW t \in Threads, Drain(t) PROVE  NoticeTypes'
  BY <1>4 DEF Drain
<1>5. ASSUME NEW s \in Sessions,
             \/ RegisterSession(s) \/ RemoveSession(s)
             \/ SessionRemoved(s) \/ SessionLost(s) \/ RemoveTimedOut(s)
      PROVE  NoticeTypes'
  BY <1>5 DEF RegisterSession, RemoveSession, SessionRemoved, SessionLost,
    RemoveTimedOut
<1>6. ASSUME NEW r \in Requests,
             \/ BeginRequest(r) \/ HandlerEnds(r) \/ EndRequest(r)
             \/ CreateSubscription(r) \/ CancelSubscription(r)
             \/ SubmitWithoutThread(r) \/ SubmitFull(r)
      PROVE  NoticeTypes'
  BY <1>6 DEF BeginRequest, HandlerEnds, EndRequest, CreateSubscription,
    CancelSubscription, SubmitWithoutThread, SubmitFull
<1>7. ASSUME NEW r \in Requests, NEW o \in Ops,
             \/ Submit(r, o) \/ CancelOperation(r, o)
      PROVE  NoticeTypes'
  BY <1>7 DEF Submit, CancelOperation
<1>8. ASSUME NEW o \in Ops,
             \/ StartOperation(o) \/ ReportProgress(o)
             \/ FinishOperation(o) \/ WorkerExited(o)
      PROVE  NoticeTypes'
  BY <1>8 DEF StartOperation, ReportProgress, FinishOperation, WorkerExited
<1>9. ASSUME NEW t \in Threads,
             \/ RequestStop(t) \/ JoinWorkers(t)
      PROVE  NoticeTypes'
  BY <1>9 DEF RequestStop, JoinWorkers
<1>10. ASSUME \/ Publish \/ CloseRunSubscriptions \/ Shutdown
              \/ FinalizeShutdown \/ Destroy \/ Destroyed
      PROVE  NoticeTypes'
  BY <1>10 DEF Publish, CloseRunSubscriptions, Shutdown, FinalizeShutdown,
    Destroy, Destroyed, serviceVars
<1> QED
  BY <1>1, <1>2, <1>3, <1>4, <1>5, <1>6, <1>7, <1>8, <1>9, <1>10 DEF
    ServiceNext, SessionStep, RequestStep, WorkerStep, ThreadStep

\* ... and the threads keep their types.
LEMMA ThreadTypeStep ==
  ASSUME TypeOK, Shape, ThreadTypes, ServiceNext
  PROVE  ThreadTypes'
<1> USE DEF opVars, sessionVars, clockVars, noticeVars, boundVars, Go
<1>1. ASSUME NEW s \in Sessions, RemoveSession(s) PROVE  ThreadTypes'
  <2>1. target' \in [Threads -> SUBSET Keys]
    BY <1>1, ThreadKinds DEF RemoveSession, OpsOf, Retained, ThreadTypes
  <2>2. pc' = [pc EXCEPT ![s] = "stop"]
    BY <1>1 DEF RemoveSession
  <2> QED
    BY <2>1, <2>2 DEF ThreadTypes
<1>2. ASSUME NEW s \in Sessions,
             \/ SessionRemoved(s) \/ SessionLost(s)
      PROVE  ThreadTypes'
  <2>1. target' \in [Threads -> SUBSET Keys]
    BY <1>2, ThreadKinds DEF SessionRemoved, EraseSession, Take,
      SessionStopped, OpsOf, Retained, ThreadTypes, SessionLost
  <2>2. pc' = [pc EXCEPT ![s] = "join"]
    BY <1>2 DEF SessionRemoved, SessionLost
  <2> QED
    BY <2>1, <2>2 DEF ThreadTypes
<1>3. ASSUME NEW r \in Requests, SubmitWithoutThread(r) PROVE  ThreadTypes'
  <2>1. PICK gone \in Evictions : target' =
           [target EXCEPT ![r] = {o \in Finished \cup gone : handle[o]}]
    BY <1>3 DEF SubmitWithoutThread, Take
  <2>2. {o \in Finished \cup gone : handle[o]} \in SUBSET Keys
    BY ThreadKinds, EvictionFacts DEF Finished, Retained
  <2>3. pc' = [pc EXCEPT ![r] = "join"]
    BY <1>3 DEF SubmitWithoutThread
  <2> QED
    BY <2>1, <2>2, <2>3 DEF ThreadTypes
<1>4. ASSUME NEW r \in Requests, SubmitFull(r) PROVE  ThreadTypes'
  <2>1. target' \in [Threads -> SUBSET Keys]
    BY <1>4, ThreadKinds DEF SubmitFull, SubmitAllowed, Take, Finished,
      Retained, ThreadTypes
  <2>2. pc' = [pc EXCEPT ![r] = "join"]
    BY <1>4 DEF SubmitFull
  <2> QED
    BY <2>1, <2>2 DEF ThreadTypes
<1>5. ASSUME NEW r \in Requests, NEW o \in Ops, Submit(r, o)
      PROVE  ThreadTypes'
  <2>1. PICK gone \in Evictions : target' =
           [target EXCEPT ![r] = {x \in Finished \cup gone : handle[x]}]
    BY <1>5 DEF Submit
  <2>2. {x \in Finished \cup gone : handle[x]} \in SUBSET Keys
    BY ThreadKinds, EvictionFacts DEF Finished, Retained
  <2>3. pc' = [pc EXCEPT ![r] = "join", ![o] = "start"]
    BY <1>5 DEF Submit
  <2> QED
    BY <2>1, <2>2, <2>3 DEF ThreadTypes
<1>6. ASSUME NEW r \in Requests, NEW o \in Ops, CancelOperation(r, o)
      PROVE  ThreadTypes'
  <2>1. target' \in [Threads -> SUBSET Keys]
    BY <1>6, ThreadKinds DEF CancelOperation, ThreadTypes
  <2>2. pc' = [pc EXCEPT ![r] = "stop"]
    BY <1>6 DEF CancelOperation
  <2> QED
    BY <2>1, <2>2 DEF ThreadTypes
<1>7. ASSUME NEW t \in Threads,
             \/ Drain(t) \/ HandlerThrows(t)
      PROVE  ThreadTypes'
  <2>1. After(t) \in {"execute", "exit", "leave", "wait", "join", "destroyed",
                      "idle"}
    BY AfterFacts, ThreadKinds
  <2>2. /\ \/ pc' = [pc EXCEPT ![t] = After(t)]
           \/ pc' = [pc EXCEPT ![t] = "deliver"]
        /\ target' = target
    BY <1>7 DEF Drain, HandlerThrows, DeliverMore
  <2> QED
    BY <2>1, <2>2 DEF ThreadTypes
<1>8. ASSUME NEW t \in Threads, PickNotification(t) PROVE  ThreadTypes'
  <2>1. After(t) \in {"execute", "exit", "leave", "wait", "join", "destroyed",
                      "idle"}
    BY AfterFacts, ThreadKinds
  <2>2. /\ \/ pc' = [pc EXCEPT ![t] = After(t)]
           \/ pc' = [pc EXCEPT ![t] = "handler"]
        /\ target' = target
    BY <1>8 DEF PickNotification
  <2> QED
    BY <2>1, <2>2 DEF ThreadTypes
<1>9. ASSUME NEW t \in Threads, JoinWorkers(t) PROVE  ThreadTypes'
  <2>1. \E where \in {"leave", "removed", "wait"} :
           pc' = [pc EXCEPT ![t] = where]
    BY <1>9, JoinedFacts DEF Shape
  <2>2. target' = [target EXCEPT ![t] = {}]
    BY <1>9 DEF JoinWorkers
  <2> QED
    BY <2>1, <2>2 DEF ThreadTypes
<1>10. ASSUME Shutdown PROVE  ThreadTypes'
  <2>1. registered \subseteq Sessions
    BY DEF TypeOK
  <2>2. target' \in [Threads -> SUBSET Keys]
    BY <1>10, <2>1 DEF Shutdown, Retained, Keys, ThreadTypes
  <2>3. pc' = [pc EXCEPT !["shutdown"] = "stop"]
    BY <1>10 DEF Shutdown
  <2> QED
    BY <2>2, <2>3 DEF ThreadTypes
<1> USE DEF ThreadTypes
<1>11. ASSUME NEW s \in Sessions, RemoveTimedOut(s) PROVE  ThreadTypes'
  BY <1>11 DEF RemoveTimedOut
<1>12. ASSUME NEW r \in Requests, BeginRequest(r) PROVE  ThreadTypes'
  BY <1>12 DEF BeginRequest
<1>13. ASSUME NEW r \in Requests, HandlerEnds(r) PROVE  ThreadTypes'
  BY <1>13 DEF HandlerEnds
<1>14. ASSUME NEW r \in Requests, EndRequest(r) PROVE  ThreadTypes'
  BY <1>14 DEF EndRequest
<1>15. ASSUME NEW r \in Requests, CreateSubscription(r) PROVE  ThreadTypes'
  BY <1>15 DEF CreateSubscription
<1>16. ASSUME NEW r \in Requests, CancelSubscription(r) PROVE  ThreadTypes'
  BY <1>16 DEF CancelSubscription
<1>17. ASSUME NEW o \in Ops, StartOperation(o) PROVE  ThreadTypes'
  BY <1>17 DEF StartOperation, CompleteLocked
<1>18. ASSUME NEW o \in Ops, ReportProgress(o) PROVE  ThreadTypes'
  BY <1>18 DEF ReportProgress
<1>19. ASSUME NEW o \in Ops, FinishOperation(o) PROVE  ThreadTypes'
  BY <1>19 DEF FinishOperation, CompleteLocked
<1>20. ASSUME NEW o \in Ops, WorkerExited(o) PROVE  ThreadTypes'
  BY <1>20 DEF WorkerExited
<1>21. ASSUME NEW t \in Threads, RequestStop(t) PROVE  ThreadTypes'
  BY <1>21 DEF RequestStop
<1>22. ASSUME NEW t \in Threads, HandlerTakes(t) PROVE  ThreadTypes'
  BY <1>22 DEF HandlerTakes, RetireSlot, DeliverMore
<1>23. ASSUME Publish PROVE  ThreadTypes'
  BY <1>23 DEF Publish
<1>24. ASSUME FinalizeShutdown PROVE  ThreadTypes'
  BY <1>24 DEF FinalizeShutdown
<1>25. ASSUME Destroy PROVE  ThreadTypes'
  BY <1>25 DEF Destroy
<1>26. ASSUME NEW s \in Sessions, RegisterSession(s) PROVE  ThreadTypes'
  BY <1>26 DEF RegisterSession
<1>27. ASSUME \/ CloseRunSubscriptions \/ Destroyed
      PROVE  ThreadTypes'
  BY <1>27 DEF CloseRunSubscriptions, Destroyed, serviceVars
<1> QED
  BY <1>1, <1>2, <1>3, <1>4, <1>5, <1>6, <1>7, <1>8, <1>9, <1>10, <1>11,
    <1>12, <1>13, <1>14, <1>15, <1>16, <1>17, <1>18, <1>19, <1>20, <1>21,
    <1>22, <1>23, <1>24, <1>25, <1>26, <1>27 DEF ServiceNext, SessionStep,
    RequestStep, WorkerStep, ThreadStep

\* Every step keeps the types.
LEMMA TypeStep ==
  ASSUME TypeOK, Shape, Books, QueueShape, Clocks, QueueKept, ServiceNext
  PROVE  TypeOK'
<1>1. /\ OpTypes /\ FlagTypes /\ SessionTypes /\ ClockTypes /\ NoticeTypes
      /\ ThreadTypes
  BY DEF TypeOK, OpTypes, FlagTypes, SessionTypes, ClockTypes, NoticeTypes,
    ThreadTypes
<1>2. OpTypes' /\ FlagTypes' /\ SessionTypes'
  BY <1>1, OpTypeStep, FlagTypeStep, SessionTypeStep
<1>3. ClockTypes' /\ NoticeTypes' /\ ThreadTypes'
  BY <1>1, ClockTypeStep, NoticeTypeStep, ThreadTypeStep
<1>4. slot' \in [Keys -> Nat] /\ order' \in Seq(Keys)
  BY DEF QueueKept
<1> QED
  BY <1>2, <1>3, <1>4, Zenon DEF TypeOK, OpTypes, FlagTypes, SessionTypes,
    ClockTypes, NoticeTypes, ThreadTypes

-----------------------------------------------------------------------------
(* The programs of the threads.                                            *)

\* Every thread stays in its program, ...
LEMMA PcStep ==
  ASSUME TypeOK, Shape, ServiceNext
  PROVE  PcShape'
<1>1. DOMAIN pc = Threads /\ PcShape
  BY DEF TypeOK, Shape
<1> USE DEF opVars, sessionVars, clockVars, noticeVars, boundVars, Go
<1>2. ASSUME NEW t \in Threads,
             \/ Drain(t) \/ HandlerThrows(t)
      PROVE  PcShape'
  <2>1. \/ pc' = [pc EXCEPT ![t] = After(t)]
        \/ pc' = [pc EXCEPT ![t] = "deliver"]
    BY <1>2 DEF Drain, HandlerThrows, DeliverMore
  <2> QED
    BY <1>1, <2>1, ThreadKinds, AfterFacts DEF PcShape, Delivering
<1>3. ASSUME NEW t \in Threads, PickNotification(t) PROVE  PcShape'
  <2>1. \/ pc' = [pc EXCEPT ![t] = After(t)]
        \/ pc' = [pc EXCEPT ![t] = "handler"]
    BY <1>3 DEF PickNotification
  <2> QED
    BY <1>1, <2>1, ThreadKinds, AfterFacts DEF PcShape, Delivering
<1>4. ASSUME NEW t \in Threads, JoinWorkers(t) PROVE  PcShape'
  BY <1>1, <1>4, ThreadKinds, JoinedFacts DEF PcShape, Delivering
<1> USE DEF PcShape, Delivering
<1>5. ASSUME NEW s \in Sessions, RemoveSession(s) PROVE  PcShape'
  BY <1>1, <1>5, ThreadKinds DEF RemoveSession
<1>6. ASSUME NEW s \in Sessions, SessionRemoved(s) PROVE  PcShape'
  BY <1>1, <1>6, ThreadKinds DEF SessionRemoved, EraseSession, Take,
    SessionStopped
<1>7. ASSUME NEW s \in Sessions, SessionLost(s) PROVE  PcShape'
  BY <1>1, <1>7, ThreadKinds DEF SessionLost, Take
<1>8. ASSUME NEW s \in Sessions, RemoveTimedOut(s) PROVE  PcShape'
  BY <1>1, <1>8, ThreadKinds DEF RemoveTimedOut
<1>9. ASSUME NEW r \in Requests, BeginRequest(r) PROVE  PcShape'
  BY <1>1, <1>9, ThreadKinds DEF BeginRequest
<1>10. ASSUME NEW r \in Requests, HandlerEnds(r) PROVE  PcShape'
  BY <1>1, <1>10, ThreadKinds DEF HandlerEnds
<1>11. ASSUME NEW r \in Requests, EndRequest(r) PROVE  PcShape'
  BY <1>1, <1>11, ThreadKinds DEF EndRequest
<1>12. ASSUME NEW r \in Requests, CreateSubscription(r) PROVE  PcShape'
  BY <1>1, <1>12, ThreadKinds DEF CreateSubscription
<1>13. ASSUME NEW r \in Requests, CancelSubscription(r) PROVE  PcShape'
  BY <1>1, <1>13, ThreadKinds DEF CancelSubscription
<1>14. ASSUME NEW r \in Requests, SubmitWithoutThread(r) PROVE  PcShape'
  BY <1>1, <1>14, ThreadKinds DEF SubmitWithoutThread, SubmitAllowed, Take
<1>15. ASSUME NEW r \in Requests, SubmitFull(r) PROVE  PcShape'
  BY <1>1, <1>15, ThreadKinds DEF SubmitFull, SubmitAllowed, Take
<1>16. ASSUME NEW r \in Requests, NEW o \in Ops, Submit(r, o) PROVE  PcShape'
  BY <1>1, <1>16, ThreadKinds DEF Submit, SubmitAllowed
<1>17. ASSUME NEW r \in Requests, NEW o \in Ops, CancelOperation(r, o)
      PROVE  PcShape'
  BY <1>1, <1>17, ThreadKinds DEF CancelOperation
<1>18. ASSUME NEW o \in Ops, StartOperation(o) PROVE  PcShape'
  BY <1>1, <1>18, ThreadKinds DEF StartOperation, CompleteLocked
<1>19. ASSUME NEW o \in Ops, ReportProgress(o) PROVE  PcShape'
  BY <1>1, <1>19, ThreadKinds DEF ReportProgress
<1>20. ASSUME NEW o \in Ops, FinishOperation(o) PROVE  PcShape'
  BY <1>1, <1>20, ThreadKinds DEF FinishOperation, CompleteLocked
<1>21. ASSUME NEW o \in Ops, WorkerExited(o) PROVE  PcShape'
  BY <1>1, <1>21, ThreadKinds DEF WorkerExited
<1>22. ASSUME NEW t \in Threads, RequestStop(t) PROVE  PcShape'
  BY <1>1, <1>22, ThreadKinds DEF RequestStop
<1>23. ASSUME NEW t \in Threads, HandlerTakes(t) PROVE  PcShape'
  BY <1>1, <1>23, ThreadKinds DEF HandlerTakes, RetireSlot, DeliverMore
<1>24. ASSUME Publish PROVE  PcShape'
  BY <1>1, <1>24, ThreadKinds DEF Publish
<1>25. ASSUME Shutdown PROVE  PcShape'
  BY <1>1, <1>25, ThreadKinds DEF Shutdown
<1>26. ASSUME FinalizeShutdown PROVE  PcShape'
  BY <1>1, <1>26, ThreadKinds DEF FinalizeShutdown
<1>27. ASSUME Destroy PROVE  PcShape'
  BY <1>1, <1>27, ThreadKinds DEF Destroy
<1>28. ASSUME NEW s \in Sessions, RegisterSession(s) PROVE  PcShape'
  BY <1>1, <1>28 DEF RegisterSession
<1>29. ASSUME \/ CloseRunSubscriptions \/ Destroyed
      PROVE  PcShape'
  BY <1>1, <1>29 DEF CloseRunSubscriptions, Destroyed, serviceVars
<1> QED
  BY <1>2, <1>3, <1>4, <1>5, <1>6, <1>7, <1>8, <1>9, <1>10, <1>11, <1>12,
    <1>13, <1>14, <1>15, <1>16, <1>17, <1>18, <1>19, <1>20, <1>21, <1>22,
    <1>23, <1>24, <1>25, <1>26, <1>27, <1>28, <1>29 DEF ServiceNext,
    SessionStep, RequestStep, WorkerStep, ThreadStep

\* ... shutdown follows its phases ...
LEMMA ShutdownStep ==
  ASSUME TypeOK, Shape, ServiceNext
  PROVE  ShutdownShape'
<1>1. /\ DOMAIN pc = Threads /\ DOMAIN target = Threads
      /\ PcShape /\ ShutdownShape
      /\ phase \in {"kRunning", "kStopping", "kComplete"}
  BY DEF TypeOK, Shape
<1> USE DEF opVars, sessionVars, clockVars, noticeVars, boundVars, Go
<1>2. ASSUME NEW t \in Threads,
             \/ Drain(t) \/ HandlerThrows(t)
      PROVE  ShutdownShape'
  <2>1. \/ pc' = [pc EXCEPT ![t] = After(t)]
        \/ pc' = [pc EXCEPT ![t] = "deliver"]
    BY <1>2 DEF Drain, HandlerThrows, DeliverMore
  <2>2. /\ UNCHANGED <<phase, registered, target>>
        /\ pc[t] \in Delivering \cup {"drain"}
    BY <1>2 DEF Drain, Delivering, HandlerThrows
  <2> QED
    BY <1>1, <2>1, <2>2, ThreadKinds, AfterFacts DEF ShutdownShape, PcShape,
      Delivering
<1>3. ASSUME NEW t \in Threads, PickNotification(t) PROVE  ShutdownShape'
  <2>1. \/ pc' = [pc EXCEPT ![t] = After(t)]
        \/ pc' = [pc EXCEPT ![t] = "handler"]
    BY <1>3 DEF PickNotification
  <2>2. /\ UNCHANGED <<phase, registered, target>>
        /\ pc[t] \in Delivering \cup {"drain"}
    BY <1>3 DEF PickNotification, Delivering
  <2> QED
    BY <1>1, <2>1, <2>2, ThreadKinds, AfterFacts DEF ShutdownShape, PcShape,
      Delivering
<1>4. ASSUME NEW t \in Threads, JoinWorkers(t) PROVE  ShutdownShape'
  <2>1. /\ pc[t] = "join" /\ target' = [target EXCEPT ![t] = {}]
        /\ UNCHANGED <<phase, registered>>
    BY <1>4 DEF JoinWorkers
  <2>2. pc'["shutdown"] = IF t = "shutdown" THEN "wait" ELSE pc["shutdown"]
    BY <1>1, <1>4, ThreadKinds, JoinedFacts
  <2> QED
    BY <1>1, <2>1, <2>2, ThreadKinds DEF ShutdownShape
<1> USE DEF ShutdownShape
<1>5. ASSUME NEW s \in Sessions, RegisterSession(s) PROVE  ShutdownShape'
  BY <1>1, <1>5, ThreadKinds DEF RegisterSession
<1>6. ASSUME NEW s \in Sessions, RemoveSession(s) PROVE  ShutdownShape'
  BY <1>1, <1>6, ThreadKinds DEF RemoveSession
<1>7. ASSUME NEW s \in Sessions, SessionRemoved(s) PROVE  ShutdownShape'
  BY <1>1, <1>7, ThreadKinds DEF SessionRemoved, EraseSession, Take,
    SessionStopped
<1>8. ASSUME NEW s \in Sessions, SessionLost(s) PROVE  ShutdownShape'
  BY <1>1, <1>8, ThreadKinds DEF SessionLost, Take
<1>9. ASSUME NEW s \in Sessions, RemoveTimedOut(s) PROVE  ShutdownShape'
  BY <1>1, <1>9, ThreadKinds DEF RemoveTimedOut
<1>10. ASSUME NEW r \in Requests, BeginRequest(r) PROVE  ShutdownShape'
  BY <1>1, <1>10, ThreadKinds DEF BeginRequest
<1>11. ASSUME NEW r \in Requests, HandlerEnds(r) PROVE  ShutdownShape'
  BY <1>1, <1>11, ThreadKinds DEF HandlerEnds
<1>12. ASSUME NEW r \in Requests, EndRequest(r) PROVE  ShutdownShape'
  BY <1>1, <1>12, ThreadKinds DEF EndRequest
<1>13. ASSUME NEW r \in Requests, CreateSubscription(r) PROVE  ShutdownShape'
  BY <1>1, <1>13, ThreadKinds DEF CreateSubscription
<1>14. ASSUME NEW r \in Requests, CancelSubscription(r) PROVE  ShutdownShape'
  BY <1>1, <1>14, ThreadKinds DEF CancelSubscription
<1>15. ASSUME NEW r \in Requests, SubmitWithoutThread(r) PROVE  ShutdownShape'
  BY <1>1, <1>15, ThreadKinds DEF SubmitWithoutThread, SubmitAllowed, Take
<1>16. ASSUME NEW r \in Requests, SubmitFull(r) PROVE  ShutdownShape'
  BY <1>1, <1>16, ThreadKinds DEF SubmitFull, SubmitAllowed, Take
<1>17. ASSUME NEW r \in Requests, NEW o \in Ops, Submit(r, o)
      PROVE  ShutdownShape'
  BY <1>1, <1>17, ThreadKinds DEF Submit, SubmitAllowed
<1>18. ASSUME NEW r \in Requests, NEW o \in Ops, CancelOperation(r, o)
      PROVE  ShutdownShape'
  BY <1>1, <1>18, ThreadKinds DEF CancelOperation
<1>19. ASSUME NEW o \in Ops, StartOperation(o) PROVE  ShutdownShape'
  BY <1>1, <1>19, ThreadKinds DEF StartOperation, CompleteLocked
<1>20. ASSUME NEW o \in Ops, ReportProgress(o) PROVE  ShutdownShape'
  BY <1>1, <1>20, ThreadKinds DEF ReportProgress
<1>21. ASSUME NEW o \in Ops, FinishOperation(o) PROVE  ShutdownShape'
  BY <1>1, <1>21, ThreadKinds DEF FinishOperation, CompleteLocked
<1>22. ASSUME NEW o \in Ops, WorkerExited(o) PROVE  ShutdownShape'
  BY <1>1, <1>22, ThreadKinds DEF WorkerExited
<1>23. ASSUME NEW t \in Threads, RequestStop(t) PROVE  ShutdownShape'
  BY <1>1, <1>23, ThreadKinds DEF RequestStop
<1>24. ASSUME NEW t \in Threads, HandlerTakes(t) PROVE  ShutdownShape'
  BY <1>1, <1>24, ThreadKinds DEF HandlerTakes, RetireSlot, DeliverMore
<1>25. ASSUME Publish PROVE  ShutdownShape'
  BY <1>1, <1>25, ThreadKinds DEF Publish
<1>26. ASSUME Shutdown PROVE  ShutdownShape'
  BY <1>1, <1>26, ThreadKinds DEF Shutdown
<1>27. ASSUME FinalizeShutdown PROVE  ShutdownShape'
  BY <1>1, <1>27, ThreadKinds DEF FinalizeShutdown
<1>28. ASSUME Destroy PROVE  ShutdownShape'
  BY <1>1, <1>28, ThreadKinds DEF Destroy
<1>29. ASSUME \/ CloseRunSubscriptions \/ Destroyed
      PROVE  ShutdownShape'
  BY <1>1, <1>29 DEF CloseRunSubscriptions, Destroyed, serviceVars
<1> QED
  BY <1>2, <1>3, <1>4, <1>5, <1>6, <1>7, <1>8, <1>9, <1>10, <1>11, <1>12,
    <1>13, <1>14, <1>15, <1>16, <1>17, <1>18, <1>19, <1>20, <1>21, <1>22,
    <1>23, <1>24, <1>25, <1>26, <1>27, <1>28, <1>29 DEF ServiceNext,
    SessionStep, RequestStep, WorkerStep, ThreadStep

\* ... and so does every worker.
LEMMA WorkerShapeStep ==
  ASSUME TypeOK, Shape, QueueShape, Clocks, ServiceNext
  PROVE  WorkerShape'
<1>1. /\ DOMAIN pc = Threads /\ PcShape /\ WorkerShape
      /\ state \in [Ops -> Live \cup Terminal \cup {"none", "evicted"}]
      /\ owner \in [Ops -> Sessions \cup {Nobody}]
  BY DEF TypeOK, Shape
<1> USE DEF opVars, sessionVars, clockVars, noticeVars, boundVars, Go
<1>2. ASSUME NEW s \in Sessions, RemoveSession(s) PROVE  WorkerShape'
  <2>1. PICK F \in SUBSET Ops : Cancels(F)
    BY <1>2, CancelSteps DEF Clocks
  <2>2. owner' = owner /\ pc' = [pc EXCEPT ![s] = "stop"]
    BY <1>2 DEF RemoveSession
  <2>3. \A x \in Ops : pc'[x] = pc[x]
    BY <1>1, <2>2, ThreadKinds
  <2>4. \A x \in Ops :
          \/ state'[x] = state[x]
          \/ state[x] \in Live /\ state'[x] = "kCancelling"
    BY <2>1 DEF Cancels
  <2> QED
    BY <1>1, <2>2, <2>3, <2>4 DEF WorkerShape, Live
<1>3. ASSUME NEW r \in Requests, SubmitWithoutThread(r) PROVE  WorkerShape'
  <2>1. PICK gone \in Evictions : state' = [x \in Ops |->
           IF x \in gone THEN "evicted" ELSE state[x]]
    BY <1>3 DEF SubmitWithoutThread
  <2>2. \A x \in gone : x \in Ops /\ state[x] \in Terminal
    BY EvictionFacts
  <2>3. \A x \in Ops : pc'[x] = pc[x]
    BY <1>1, <1>3, ThreadKinds DEF SubmitWithoutThread
  <2> QED
    BY <1>1, <1>3, <2>1, <2>2, <2>3 DEF SubmitWithoutThread, WorkerShape,
      Live, Terminal
<1>4. ASSUME NEW r \in Requests, NEW o \in Ops, Submit(r, o)
      PROVE  WorkerShape'
  <2>1. PICK gone \in Evictions : state' = [x \in Ops |->
          IF x \in gone THEN "evicted"
          ELSE IF x = o THEN "kQueued" ELSE state[x]]
    BY <1>4 DEF Submit
  <2>2. \A x \in gone : x \in Ops /\ state[x] \in Terminal
    BY EvictionFacts
  <2>3. \A x \in Ops : pc'[x] = IF x = o THEN "start" ELSE pc[x]
    BY <1>1, <1>4, ThreadKinds DEF Submit
  <2> QED
    BY <1>1, <1>4, <2>1, <2>2, <2>3, ThreadKinds DEF Submit, WorkerShape,
      Live, Terminal
<1>5. ASSUME NEW r \in Requests, NEW o \in Ops, CancelOperation(r, o)
      PROVE  WorkerShape'
  <2>1. PICK F \in SUBSET Ops : Cancels(F)
    BY <1>5, CancelSteps DEF Clocks
  <2>2. owner' = owner /\ pc' = [pc EXCEPT ![r] = "stop"]
    BY <1>5 DEF CancelOperation
  <2>3. \A x \in Ops : pc'[x] = pc[x]
    BY <1>1, <2>2, ThreadKinds
  <2>4. \A x \in Ops :
          \/ state'[x] = state[x]
          \/ state[x] \in Live /\ state'[x] = "kCancelling"
    BY <2>1 DEF Cancels
  <2> QED
    BY <1>1, <2>2, <2>3, <2>4 DEF WorkerShape, Live
<1>6. ASSUME NEW t \in Threads,
             \/ Drain(t) \/ HandlerThrows(t)
      PROVE  WorkerShape'
  <2>1. \/ pc' = [pc EXCEPT ![t] = After(t)]
        \/ pc' = [pc EXCEPT ![t] = "deliver"]
    BY <1>6 DEF Drain, HandlerThrows, DeliverMore
  <2>2. UNCHANGED <<state, owner>> /\ pc[t] \in Delivering \cup {"drain"}
    BY <1>6 DEF Drain, Delivering, HandlerThrows
  <2> QED
    BY <1>1, <2>1, <2>2, ThreadKinds, AfterFacts DEF WorkerShape, Delivering,
      Live
<1>7. ASSUME NEW t \in Threads, PickNotification(t) PROVE  WorkerShape'
  <2>1. \/ pc' = [pc EXCEPT ![t] = After(t)]
        \/ pc' = [pc EXCEPT ![t] = "handler"]
    BY <1>7 DEF PickNotification
  <2>2. UNCHANGED <<state, owner>> /\ pc[t] \in Delivering \cup {"drain"}
    BY <1>7 DEF PickNotification, Delivering
  <2> QED
    BY <1>1, <2>1, <2>2, ThreadKinds, AfterFacts DEF WorkerShape, Delivering,
      Live
<1>8. ASSUME NEW t \in Threads, JoinWorkers(t) PROVE  WorkerShape'
  <2>1. \A x \in Ops : pc'[x] = pc[x]
    BY <1>1, <1>8, ThreadKinds, JoinedFacts
  <2> QED
    BY <1>1, <1>8, <2>1 DEF JoinWorkers, WorkerShape
<1>9. ASSUME Shutdown PROVE  WorkerShape'
  <2>1. PICK F \in SUBSET Ops : Cancels(F)
    BY <1>9, CancelSteps DEF Clocks
  <2>2. owner' = owner /\ pc' = [pc EXCEPT !["shutdown"] = "stop"]
    BY <1>9 DEF Shutdown
  <2>3. \A x \in Ops : pc'[x] = pc[x]
    BY <1>1, <2>2, ThreadKinds
  <2>4. \A x \in Ops :
          \/ state'[x] = state[x]
          \/ state[x] \in Live /\ state'[x] = "kCancelling"
    BY <2>1 DEF Cancels
  <2> QED
    BY <1>1, <2>2, <2>3, <2>4 DEF WorkerShape, Live
<1> USE DEF WorkerShape, Live, Terminal
<1>10. ASSUME NEW s \in Sessions, SessionRemoved(s) PROVE  WorkerShape'
  BY <1>1, <1>10, ThreadKinds DEF SessionRemoved, EraseSession, Take,
    SessionStopped
<1>11. ASSUME NEW s \in Sessions, SessionLost(s) PROVE  WorkerShape'
  BY <1>1, <1>11, ThreadKinds DEF SessionLost, Take
<1>12. ASSUME NEW s \in Sessions, RemoveTimedOut(s) PROVE  WorkerShape'
  BY <1>1, <1>12, ThreadKinds DEF RemoveTimedOut
<1>13. ASSUME NEW r \in Requests, BeginRequest(r) PROVE  WorkerShape'
  BY <1>1, <1>13, ThreadKinds DEF BeginRequest
<1>14. ASSUME NEW r \in Requests, HandlerEnds(r) PROVE  WorkerShape'
  BY <1>1, <1>14, ThreadKinds DEF HandlerEnds
<1>15. ASSUME NEW r \in Requests, EndRequest(r) PROVE  WorkerShape'
  BY <1>1, <1>15, ThreadKinds DEF EndRequest
<1>16. ASSUME NEW r \in Requests, CreateSubscription(r) PROVE  WorkerShape'
  BY <1>1, <1>16, ThreadKinds DEF CreateSubscription
<1>17. ASSUME NEW r \in Requests, CancelSubscription(r) PROVE  WorkerShape'
  BY <1>1, <1>17, ThreadKinds DEF CancelSubscription
<1>18. ASSUME NEW r \in Requests, SubmitFull(r) PROVE  WorkerShape'
  BY <1>1, <1>18, ThreadKinds DEF SubmitFull, SubmitAllowed, Take
<1>19. ASSUME NEW o \in Ops, StartOperation(o) PROVE  WorkerShape'
  BY <1>1, <1>19, ThreadKinds DEF StartOperation, CompleteLocked
<1>20. ASSUME NEW o \in Ops, ReportProgress(o) PROVE  WorkerShape'
  BY <1>1, <1>20, ThreadKinds DEF ReportProgress
<1>21. ASSUME NEW o \in Ops, FinishOperation(o) PROVE  WorkerShape'
  BY <1>1, <1>21, ThreadKinds DEF FinishOperation, CompleteLocked
<1>22. ASSUME NEW o \in Ops, WorkerExited(o) PROVE  WorkerShape'
  BY <1>1, <1>22, ThreadKinds DEF WorkerExited
<1>23. ASSUME NEW t \in Threads, RequestStop(t) PROVE  WorkerShape'
  BY <1>1, <1>23, ThreadKinds DEF RequestStop
<1>24. ASSUME NEW t \in Threads, HandlerTakes(t) PROVE  WorkerShape'
  BY <1>1, <1>24, ThreadKinds DEF HandlerTakes, RetireSlot, DeliverMore
<1>25. ASSUME Publish PROVE  WorkerShape'
  BY <1>1, <1>25, ThreadKinds DEF Publish
<1>26. ASSUME FinalizeShutdown PROVE  WorkerShape'
  BY <1>1, <1>26, ThreadKinds DEF FinalizeShutdown
<1>27. ASSUME Destroy PROVE  WorkerShape'
  BY <1>1, <1>27, ThreadKinds DEF Destroy
<1>28. ASSUME NEW s \in Sessions, RegisterSession(s) PROVE  WorkerShape'
  BY <1>1, <1>28 DEF RegisterSession
<1>29. ASSUME \/ CloseRunSubscriptions \/ Destroyed
      PROVE  WorkerShape'
  BY <1>1, <1>29 DEF CloseRunSubscriptions, Destroyed, serviceVars
<1> QED
  BY <1>2, <1>3, <1>4, <1>5, <1>6, <1>7, <1>8, <1>9, <1>10, <1>11, <1>12,
    <1>13, <1>14, <1>15, <1>16, <1>17, <1>18, <1>19, <1>20, <1>21, <1>22,
    <1>23, <1>24, <1>25, <1>26, <1>27, <1>28, <1>29 DEF ServiceNext,
    SessionStep, RequestStep, WorkerStep, ThreadStep

-----------------------------------------------------------------------------
(* The books.                                                              *)

\* An operation that completes leaves the book of its session.
LEMMA CompletionIsBooked ==
  ASSUME TypeOK, ActiveBook, LiveRegistered, NEW o \in Ops, state[o] \in Live,
         NEW how \in Terminal, CompleteLocked(o, how), owner' = owner
  PROVE  ActiveBook'
<1>1. /\ state \in [Ops -> Live \cup Terminal \cup {"none", "evicted"}]
      /\ owner[o] \in Sessions /\ active \in [Sessions -> Nat]
  BY DEF TypeOK, LiveRegistered
<1>2. /\ state' = [state EXCEPT ![o] = how]
      /\ active' = [active EXCEPT ![owner[o]] = @ - 1] /\ how \notin Live
  BY DEF CompleteLocked, Live, Terminal
<1>3. ASSUME NEW x \in Sessions, x # owner[o]
      PROVE  LiveOf(x)' = LiveOf(x) /\ active'[x] = active[x]
  BY <1>1, <1>2, <1>3 DEF LiveOf
<1>4. /\ LiveOf(owner[o])' = LiveOf(owner[o]) \ {o} /\ o \in LiveOf(owner[o])
      /\ LiveOf(owner[o]) \in SUBSET Ops
  BY <1>1, <1>2 DEF LiveOf
<1>5. IsFiniteSet(LiveOf(owner[o]))
  BY <1>4, ServiceAssumption, FS_Subset
<1>6. Cardinality(LiveOf(owner[o])') = Cardinality(LiveOf(owner[o])) - 1
  <2> DEFINE L == LiveOf(owner[o])
  <2>1. o \in L /\ IsFiniteSet(L)
    BY <1>4, <1>5
  <2> HIDE DEF L
  <2>2. Cardinality(L \ {o}) = Cardinality(L) - 1
    BY <2>1, FS_RemoveElement
  <2> QED
    BY <1>4, <2>2 DEF L
<1> QED
  BY <1>1, <1>2, <1>3, <1>6 DEF ActiveBook

\* Operations enter and leave the book of their session, ...
LEMMA ActiveBookStep ==
  ASSUME TypeOK, Shape, Books, QueueShape, Clocks, ServiceNext
  PROVE  ActiveBook'
<1>1. /\ DOMAIN pc = Threads /\ WorkerShape /\ ActiveBook
      /\ state \in [Ops -> Live \cup Terminal \cup {"none", "evicted"}]
      /\ owner \in [Ops -> Sessions \cup {Nobody}]
      /\ active \in [Sessions -> Nat]
      /\ \A s \in Sessions : IsFiniteSet(LiveOf(s))
  <2>1. \A s \in Sessions : LiveOf(s) \in SUBSET Ops
    BY DEF LiveOf
  <2> QED
    BY <2>1, ServiceAssumption, FS_Subset DEF TypeOK, Shape, Books
<1> USE DEF opVars, sessionVars, clockVars, noticeVars, boundVars, Go
<1>2. ASSUME NEW s \in Sessions, RemoveSession(s) PROVE  ActiveBook'
  <2>1. PICK F \in SUBSET Ops : Cancels(F)
    BY <1>2, CancelSteps DEF Clocks
  <2>2. \A x \in Ops : state'[x] \in Live <=> state[x] \in Live
    BY <2>1 DEF Cancels, Live
  <2>3. owner' = owner /\ active' = active
    BY <1>2 DEF RemoveSession
  <2>4. \A x \in Sessions : LiveOf(x)' = LiveOf(x)
    BY <2>2, <2>3 DEF LiveOf
  <2> QED
    BY <1>1, <2>3, <2>4 DEF ActiveBook
<1>3. ASSUME NEW r \in Requests, SubmitWithoutThread(r) PROVE  ActiveBook'
  <2>1. PICK gone \in Evictions :
           state' = [x \in Ops |-> IF x \in gone THEN "evicted" ELSE state[x]]
    BY <1>3 DEF SubmitWithoutThread
  <2>2. \A x \in Ops : state'[x] \in Live <=> state[x] \in Live
    BY <2>1, EvictionFacts DEF Live, Terminal
  <2>3. owner' = owner /\ active' = active
    BY <1>3 DEF SubmitWithoutThread
  <2>4. \A x \in Sessions : LiveOf(x)' = LiveOf(x)
    BY <2>2, <2>3 DEF LiveOf
  <2> QED
    BY <1>1, <2>3, <2>4 DEF ActiveBook
<1>4. ASSUME NEW r \in Requests, NEW o \in Ops, Submit(r, o)
      PROVE  ActiveBook'
  <2>1. PICK gone \in Evictions : state' = [x \in Ops |->
          IF x \in gone THEN "evicted"
          ELSE IF x = o THEN "kQueued" ELSE state[x]]
    BY <1>4 DEF Submit
  <2>2. state[o] = "none" /\ \A x \in gone : state[x] \in Terminal
    BY <1>4, EvictionFacts DEF Submit
  <2>3. SessionOf[r] \in Sessions
    BY ThreadKinds
  <2>4. /\ owner' = [owner EXCEPT ![o] = SessionOf[r]]
        /\ active' = [active EXCEPT ![SessionOf[r]] = active[SessionOf[r]] + 1]
    BY <1>4 DEF Submit
  <2>5. /\ owner' = [owner EXCEPT ![o] = SessionOf[r]]
        /\ active'[SessionOf[r]] = active[SessionOf[r]] + 1
        /\ \A x \in Sessions : x # SessionOf[r] => active'[x] = active[x]
    BY <1>1, <2>3, <2>4
  <2>6. \A x \in Ops \ {o} : /\ state'[x] \in Live <=> state[x] \in Live
                            /\ owner'[x] = owner[x]
    BY <1>1, <2>1, <2>2, <2>5 DEF Live, Terminal
  <2>7. /\ state'[o] \in Live /\ owner'[o] = SessionOf[r]
        /\ state[o] \notin Live
    BY <1>1, <2>1, <2>2, <2>5 DEF Live, Terminal
  <2>8. ASSUME NEW x \in Sessions, x # SessionOf[r]
        PROVE  LiveOf(x)' = LiveOf(x)
    BY <1>1, <2>5, <2>6, <2>7, <2>8 DEF LiveOf
  <2>9. /\ LiveOf(SessionOf[r])' = LiveOf(SessionOf[r]) \cup {o}
        /\ o \notin LiveOf(SessionOf[r])
    BY <1>1, <2>5, <2>6, <2>7 DEF LiveOf
  <2>10. Cardinality(LiveOf(SessionOf[r])') =
           Cardinality(LiveOf(SessionOf[r])) + 1
    BY <1>1, <2>3, <2>9, FS_AddElement
  <2> QED
    BY <1>1, <2>3, <2>5, <2>8, <2>10 DEF ActiveBook
<1>5. ASSUME NEW r \in Requests, NEW o \in Ops, CancelOperation(r, o)
      PROVE  ActiveBook'
  <2>1. PICK F \in SUBSET Ops : Cancels(F)
    BY <1>5, CancelSteps DEF Clocks
  <2>2. \A x \in Ops : state'[x] \in Live <=> state[x] \in Live
    BY <2>1 DEF Cancels, Live
  <2>3. owner' = owner /\ active' = active
    BY <1>5 DEF CancelOperation
  <2>4. \A x \in Sessions : LiveOf(x)' = LiveOf(x)
    BY <2>2, <2>3 DEF LiveOf
  <2> QED
    BY <1>1, <2>3, <2>4 DEF ActiveBook
<1>6. ASSUME NEW o \in Ops, StartOperation(o) PROVE  ActiveBook'
  <2>1. state[o] \in Live /\ owner' = owner
    BY <1>1, <1>6 DEF StartOperation, WorkerShape, Live
  <2>2. CASE cancelled[o] \/ stop[o]
    <3>1. CompleteLocked(o, "kCancelled") /\ "kCancelled" \in Terminal
      BY <1>6, <2>2 DEF StartOperation, Terminal
    <3> QED
      BY <1>1, <2>1, <3>1, CompletionIsBooked DEF Books
  <2>3. CASE ~(cancelled[o] \/ stop[o])
    <3>1. state' = [state EXCEPT ![o] = "kRunning"] /\ active' = active
      BY <1>6, <2>3 DEF StartOperation
    <3>2. \A x \in Sessions : LiveOf(x)' = LiveOf(x)
      BY <1>1, <2>1, <3>1 DEF LiveOf, Live
    <3> QED
      BY <1>1, <3>1, <3>2 DEF ActiveBook
  <2> QED
    BY <2>2, <2>3
<1>7. ASSUME NEW o \in Ops, FinishOperation(o) PROVE  ActiveBook'
  <2>1. PICK how \in Terminal : CompleteLocked(o, how)
    BY <1>7 DEF FinishOperation
  <2>2. state[o] \in Live /\ owner' = owner
    BY <1>1, <1>7 DEF FinishOperation, WorkerShape
  <2> QED
    BY <1>1, <2>1, <2>2, CompletionIsBooked DEF Books
<1>8. ASSUME Shutdown PROVE  ActiveBook'
  <2>1. PICK F \in SUBSET Ops : Cancels(F)
    BY <1>8, CancelSteps DEF Clocks
  <2>2. \A x \in Ops : state'[x] \in Live <=> state[x] \in Live
    BY <2>1 DEF Cancels, Live
  <2>3. owner' = owner /\ active' = active
    BY <1>8 DEF Shutdown
  <2>4. \A x \in Sessions : LiveOf(x)' = LiveOf(x)
    BY <2>2, <2>3 DEF LiveOf
  <2> QED
    BY <1>1, <2>3, <2>4 DEF ActiveBook
<1> USE DEF ActiveBook, LiveOf
<1>9. ASSUME NEW s \in Sessions,
             \/ RegisterSession(s) \/ SessionRemoved(s) \/ SessionLost(s)
             \/ RemoveTimedOut(s)
      PROVE  ActiveBook'
  BY <1>1, <1>9 DEF RegisterSession, SessionRemoved, SessionLost,
    RemoveTimedOut
<1>10. ASSUME NEW r \in Requests,
             \/ BeginRequest(r) \/ HandlerEnds(r) \/ EndRequest(r)
             \/ CreateSubscription(r) \/ CancelSubscription(r)
             \/ SubmitFull(r)
      PROVE  ActiveBook'
  BY <1>1, <1>10 DEF BeginRequest, HandlerEnds, EndRequest,
    CreateSubscription, CancelSubscription, SubmitFull
<1>11. ASSUME NEW o \in Ops,
              \/ ReportProgress(o) \/ WorkerExited(o)
      PROVE  ActiveBook'
  BY <1>1, <1>11 DEF ReportProgress, WorkerExited
<1>12. ASSUME NEW t \in Threads,
              \/ RequestStop(t) \/ Drain(t) \/ PickNotification(t)
              \/ HandlerTakes(t) \/ HandlerThrows(t) \/ JoinWorkers(t)
      PROVE  ActiveBook'
  BY <1>1, <1>12 DEF RequestStop, Drain, PickNotification, HandlerTakes,
    HandlerThrows, JoinWorkers
<1>13. ASSUME \/ Publish \/ CloseRunSubscriptions \/ FinalizeShutdown
              \/ Destroy \/ Destroyed
      PROVE  ActiveBook'
  BY <1>1, <1>13 DEF Publish, CloseRunSubscriptions, FinalizeShutdown,
    Destroy, Destroyed, serviceVars
<1> QED
  BY <1>2, <1>3, <1>4, <1>5, <1>6, <1>7, <1>8, <1>9, <1>10, <1>11, <1>12,
    <1>13 DEF ServiceNext, SessionStep, RequestStep, WorkerStep, ThreadStep

\* ... requests too, ...
LEMMA WaiterBookStep ==
  ASSUME TypeOK, Shape, Books, ServiceNext
  PROVE  WaiterBook'
<1>1. /\ DOMAIN pc = Threads /\ waiters \in [Sessions -> Nat]
      /\ PcShape /\ WaiterBook
  BY DEF TypeOK, Shape, Books
<1> USE DEF opVars, sessionVars, clockVars, noticeVars, boundVars, Go
<1>2. ASSUME NEW s \in Sessions,
             \/ RemoveSession(s) \/ SessionRemoved(s) \/ SessionLost(s)
             \/ RemoveTimedOut(s)
      PROVE  WaiterBook'
  <2>1. waiters' = waiters
    BY <1>2 DEF RemoveSession, SessionRemoved, SessionLost, RemoveTimedOut
  <2>2. \A x \in Requests :
          pc'[x] \in {"idle", "gone"} <=> pc[x] \in {"idle", "gone"}
    BY <1>1, <1>2, ThreadKinds DEF RemoveSession, SessionRemoved, SessionLost,
      RemoveTimedOut
  <2>3. \A x \in Sessions : Inside(x)' = Inside(x)
    BY <2>2 DEF Inside
  <2> QED
    BY <1>1, <2>1, <2>3 DEF WaiterBook
<1>3. ASSUME NEW r \in Requests, BeginRequest(r) PROVE  WaiterBook'
  <2>1. SessionOf[r] \in Sessions
    BY ThreadKinds
  <2>2. waiters' = [waiters EXCEPT ![SessionOf[r]] = waiters[SessionOf[r]] + 1]
    BY <1>3 DEF BeginRequest
  <2>3. /\ waiters'[SessionOf[r]] = waiters[SessionOf[r]] + 1
        /\ \A x \in Sessions : x # SessionOf[r] => waiters'[x] = waiters[x]
    BY <1>1, <2>1, <2>2
  <2>4. /\ \A x \in Requests \ {r} : pc'[x] = pc[x]
        /\ pc[r] = "idle" /\ pc'[r] = "inside"
    BY <1>1, <1>3, ThreadKinds DEF BeginRequest
  <2>5. \A x \in Sessions : x # SessionOf[r] => Inside(x)' = Inside(x)
    BY <2>4 DEF Inside
  <2>6. /\ Inside(SessionOf[r])' = Inside(SessionOf[r]) \cup {r}
        /\ r \notin Inside(SessionOf[r])
    BY <2>4 DEF Inside
  <2>7. IsFiniteSet(Inside(SessionOf[r]))
    BY <1>1, <2>1 DEF WaiterBook
  <2>8. /\ IsFiniteSet(Inside(SessionOf[r])')
        /\ Cardinality(Inside(SessionOf[r])') =
             Cardinality(Inside(SessionOf[r])) + 1
    BY <2>6, <2>7, FS_AddElement
  <2> QED
    BY <1>1, <2>1, <2>3, <2>5, <2>8 DEF WaiterBook
<1>4. ASSUME NEW r \in Requests,
             \/ HandlerEnds(r) \/ CreateSubscription(r)
             \/ CancelSubscription(r) \/ SubmitWithoutThread(r)
             \/ SubmitFull(r)
      PROVE  WaiterBook'
  <2>1. waiters' = waiters
    BY <1>4 DEF HandlerEnds, CreateSubscription, CancelSubscription,
      SubmitWithoutThread, SubmitFull
  <2>2. \A x \in Requests :
          pc'[x] \in {"idle", "gone"} <=> pc[x] \in {"idle", "gone"}
    BY <1>1, <1>4, ThreadKinds DEF HandlerEnds, DeliverMore,
      CreateSubscription, CancelSubscription, SubmitWithoutThread,
      SubmitAllowed, SubmitFull
  <2>3. \A x \in Sessions : Inside(x)' = Inside(x)
    BY <2>2 DEF Inside
  <2> QED
    BY <1>1, <2>1, <2>3 DEF WaiterBook
<1>5. ASSUME NEW r \in Requests, EndRequest(r) PROVE  WaiterBook'
  <2>1. SessionOf[r] \in Sessions
    BY ThreadKinds
  <2>2. waiters' = [waiters EXCEPT ![SessionOf[r]] = waiters[SessionOf[r]] - 1]
    BY <1>5 DEF EndRequest
  <2>3. /\ waiters'[SessionOf[r]] = waiters[SessionOf[r]] - 1
        /\ \A x \in Sessions : x # SessionOf[r] => waiters'[x] = waiters[x]
    BY <1>1, <2>1, <2>2
  <2>4. /\ \A x \in Requests \ {r} : pc'[x] = pc[x]
        /\ pc[r] = "leave" /\ pc'[r] = "gone"
    BY <1>1, <1>5, ThreadKinds DEF EndRequest
  <2>5. \A x \in Sessions : x # SessionOf[r] => Inside(x)' = Inside(x)
    BY <2>4 DEF Inside
  <2>6. /\ Inside(SessionOf[r])' = Inside(SessionOf[r]) \ {r}
        /\ r \in Inside(SessionOf[r])
    BY <2>4 DEF Inside
  <2>7. IsFiniteSet(Inside(SessionOf[r]))
    BY <1>1, <2>1 DEF WaiterBook
  <2>8. /\ IsFiniteSet(Inside(SessionOf[r])')
        /\ Cardinality(Inside(SessionOf[r])') =
             Cardinality(Inside(SessionOf[r])) - 1
    BY <2>6, <2>7, FS_RemoveElement
  <2> QED
    BY <1>1, <2>1, <2>3, <2>5, <2>8 DEF WaiterBook
<1>6. ASSUME NEW r \in Requests, NEW o \in Ops,
             \/ Submit(r, o) \/ CancelOperation(r, o)
      PROVE  WaiterBook'
  <2>1. waiters' = waiters
    BY <1>6 DEF Submit, CancelOperation
  <2>2. \A x \in Requests :
          pc'[x] \in {"idle", "gone"} <=> pc[x] \in {"idle", "gone"}
    BY <1>1, <1>6, ThreadKinds DEF Submit, SubmitAllowed, CancelOperation
  <2>3. \A x \in Sessions : Inside(x)' = Inside(x)
    BY <2>2 DEF Inside
  <2> QED
    BY <1>1, <2>1, <2>3 DEF WaiterBook
<1>7. ASSUME NEW o \in Ops,
             \/ StartOperation(o) \/ ReportProgress(o)
             \/ FinishOperation(o) \/ WorkerExited(o)
      PROVE  WaiterBook'
  <2>1. waiters' = waiters
    BY <1>7 DEF StartOperation, ReportProgress, FinishOperation, WorkerExited
  <2>2. \A x \in Requests :
          pc'[x] \in {"idle", "gone"} <=> pc[x] \in {"idle", "gone"}
    BY <1>1, <1>7, ThreadKinds DEF StartOperation, ReportProgress,
      FinishOperation, WorkerExited
  <2>3. \A x \in Sessions : Inside(x)' = Inside(x)
    BY <2>2 DEF Inside
  <2> QED
    BY <1>1, <2>1, <2>3 DEF WaiterBook
<1>8. ASSUME NEW t \in Threads,
             \/ RequestStop(t) \/ HandlerTakes(t)
      PROVE  WaiterBook'
  <2>1. waiters' = waiters
    BY <1>8 DEF RequestStop, HandlerTakes
  <2>2. \A x \in Requests :
          pc'[x] \in {"idle", "gone"} <=> pc[x] \in {"idle", "gone"}
    BY <1>1, <1>8, ThreadKinds DEF RequestStop, HandlerTakes, DeliverMore
  <2>3. \A x \in Sessions : Inside(x)' = Inside(x)
    BY <2>2 DEF Inside
  <2> QED
    BY <1>1, <2>1, <2>3 DEF WaiterBook
<1>9. ASSUME NEW t \in Threads,
             \/ Drain(t) \/ PickNotification(t) \/ HandlerThrows(t)
      PROVE  WaiterBook'
  <2>1. waiters' = waiters
    BY <1>9 DEF Drain, PickNotification, HandlerThrows
  <2>2. \A x \in Requests :
          pc'[x] \in {"idle", "gone"} <=> pc[x] \in {"idle", "gone"}
    BY <1>1, <1>9, ThreadKinds, AfterFacts DEF Drain, PickNotification,
      HandlerThrows, DeliverMore
  <2>3. \A x \in Sessions : Inside(x)' = Inside(x)
    BY <2>2 DEF Inside
  <2> QED
    BY <1>1, <2>1, <2>3 DEF WaiterBook
<1>10. ASSUME NEW t \in Threads, JoinWorkers(t) PROVE  WaiterBook'
  <2>1. waiters' = waiters
    BY <1>10 DEF JoinWorkers
  <2>2. \A x \in Requests :
          pc'[x] \in {"idle", "gone"} <=> pc[x] \in {"idle", "gone"}
    BY <1>1, <1>10, ThreadKinds, JoinedFacts DEF JoinWorkers
  <2>3. \A x \in Sessions : Inside(x)' = Inside(x)
    BY <2>2 DEF Inside
  <2> QED
    BY <1>1, <2>1, <2>3 DEF WaiterBook
<1>11. ASSUME \/ Publish \/ Shutdown \/ FinalizeShutdown \/ Destroy
      PROVE  WaiterBook'
  <2>1. waiters' = waiters
    BY <1>11 DEF Publish, Shutdown, FinalizeShutdown, Destroy
  <2>2. \A x \in Requests :
          pc'[x] \in {"idle", "gone"} <=> pc[x] \in {"idle", "gone"}
    BY <1>1, <1>11, ThreadKinds DEF Publish, Shutdown, FinalizeShutdown,
      Destroy
  <2>3. \A x \in Sessions : Inside(x)' = Inside(x)
    BY <2>2 DEF Inside
  <2> QED
    BY <1>1, <2>1, <2>3 DEF WaiterBook
<1> USE DEF WaiterBook, Inside
<1>12. ASSUME NEW s \in Sessions, RegisterSession(s) PROVE  WaiterBook'
  BY <1>1, <1>12 DEF RegisterSession
<1>13. ASSUME \/ CloseRunSubscriptions \/ Destroyed
      PROVE  WaiterBook'
  BY <1>1, <1>13 DEF CloseRunSubscriptions, Destroyed, serviceVars
<1> QED
  BY <1>2, <1>3, <1>4, <1>5, <1>6, <1>7, <1>8, <1>9, <1>10, <1>11, <1>12,
    <1>13 DEF ServiceNext, SessionStep, RequestStep, WorkerStep, ThreadStep

\* A session whose counts are zero has nothing under way.
LEMMA QuietSession ==
  ASSUME Books, NEW s \in Sessions
  PROVE  /\ active[s] = 0 => LiveOf(s) = {}
         /\ waiters[s] = 0 => Inside(s) = {}
<1>1. LiveOf(s) \in SUBSET Ops
  BY DEF LiveOf
<1>2. IsFiniteSet(LiveOf(s)) /\ active[s] = Cardinality(LiveOf(s))
  BY <1>1, ServiceAssumption, FS_Subset DEF Books, ActiveBook
<1>3. IsFiniteSet(Inside(s)) /\ waiters[s] = Cardinality(Inside(s))
  BY DEF Books, WaiterBook
<1> QED
  BY <1>2, <1>3, FS_EmptySet

\* Finitely many sessions are registered.
LEMMA RegisteredStep ==
  ASSUME TypeOK, Books, ServiceNext
  PROVE  IsFiniteSet(registered)'
<1> USE DEF opVars, sessionVars, clockVars, noticeVars, boundVars, Go
<1>1. ASSUME NEW s \in Sessions, RegisterSession(s)
      PROVE  IsFiniteSet(registered)'
  BY <1>1, FS_AddElement DEF RegisterSession, Books
<1>2. ASSUME NEW s \in Sessions, SessionRemoved(s)
      PROVE  IsFiniteSet(registered)'
  BY <1>2, FS_RemoveElement DEF SessionRemoved, EraseSession, Books
<1>3. ASSUME FinalizeShutdown PROVE  IsFiniteSet(registered)'
  BY <1>3, FS_EmptySet DEF FinalizeShutdown
<1> USE DEF Books
<1>4. ASSUME NEW s \in Sessions,
             \/ RemoveSession(s) \/ SessionLost(s) \/ RemoveTimedOut(s)
      PROVE  IsFiniteSet(registered)'
  BY <1>4 DEF RemoveSession, SessionLost, RemoveTimedOut
<1>5. ASSUME NEW r \in Requests,
             \/ BeginRequest(r) \/ HandlerEnds(r) \/ EndRequest(r)
             \/ CreateSubscription(r) \/ CancelSubscription(r)
             \/ SubmitWithoutThread(r) \/ SubmitFull(r)
      PROVE  IsFiniteSet(registered)'
  BY <1>5 DEF BeginRequest, HandlerEnds, EndRequest, CreateSubscription,
    CancelSubscription, SubmitWithoutThread, SubmitFull
<1>6. ASSUME NEW r \in Requests, NEW o \in Ops,
             \/ Submit(r, o) \/ CancelOperation(r, o)
      PROVE  IsFiniteSet(registered)'
  BY <1>6 DEF Submit, CancelOperation
<1>7. ASSUME NEW o \in Ops,
             \/ StartOperation(o) \/ ReportProgress(o)
             \/ FinishOperation(o) \/ WorkerExited(o)
      PROVE  IsFiniteSet(registered)'
  BY <1>7 DEF StartOperation, ReportProgress, FinishOperation, WorkerExited
<1>8. ASSUME NEW t \in Threads,
             \/ RequestStop(t) \/ Drain(t) \/ PickNotification(t)
             \/ HandlerTakes(t) \/ HandlerThrows(t) \/ JoinWorkers(t)
      PROVE  IsFiniteSet(registered)'
  BY <1>8 DEF RequestStop, Drain, PickNotification, HandlerTakes,
    HandlerThrows, JoinWorkers
<1>9. ASSUME \/ Publish \/ CloseRunSubscriptions \/ Shutdown \/ Destroy
             \/ Destroyed
      PROVE  IsFiniteSet(registered)'
  BY <1>9 DEF Publish, CloseRunSubscriptions, Shutdown, Destroy, Destroyed,
    serviceVars
<1> QED
  BY <1>1, <1>2, <1>3, <1>4, <1>5, <1>6, <1>7, <1>8, <1>9 DEF ServiceNext,
    SessionStep, RequestStep, WorkerStep, ThreadStep

\* No step leaves a live operation without its session, ...
LEMMA LiveRegisteredStep ==
  ASSUME TypeOK, Shape, Books, Workers, QueueShape, Clocks, ServiceNext
  PROVE  LiveRegistered'
<1>1. /\ DOMAIN pc = Threads /\ WorkerShape /\ LiveRegistered
      /\ state \in [Ops -> Live \cup Terminal \cup {"none", "evicted"}]
      /\ owner \in [Ops -> Sessions \cup {Nobody}]
      /\ registered \subseteq Sessions
  BY DEF TypeOK, Shape, Books
<1> USE DEF opVars, sessionVars, clockVars, noticeVars, boundVars, Go
<1>2. ASSUME NEW s \in Sessions, RemoveSession(s) PROVE  LiveRegistered'
  <2>1. PICK F \in SUBSET Ops : Cancels(F)
    BY <1>2, CancelSteps DEF Clocks
  <2>2. \A x \in Ops : state'[x] \in Live <=> state[x] \in Live
    BY <2>1 DEF Cancels, Live
  <2> QED
    BY <1>1, <1>2, <2>2 DEF RemoveSession, LiveRegistered
<1>3. ASSUME NEW s \in Sessions, SessionRemoved(s) PROVE  LiveRegistered'
  <2>1. s \in Sessions /\ active[s] = 0
    BY <1>3 DEF SessionRemoved, SessionStopped
  <2>2. LiveOf(s) = {}
    BY <2>1, QuietSession
  <2> QED
    BY <1>1, <1>3, <2>2 DEF SessionRemoved, EraseSession, LiveRegistered,
      LiveOf
<1>4. ASSUME NEW r \in Requests, SubmitWithoutThread(r) PROVE  LiveRegistered'
  <2>1. \A x \in Ops : state'[x] \in Live => state[x] \in Live
    BY <1>4 DEF SubmitWithoutThread, Live
  <2> QED
    BY <1>1, <1>4, <2>1 DEF SubmitWithoutThread, LiveRegistered
<1>5. ASSUME NEW r \in Requests, NEW o \in Ops, Submit(r, o)
      PROVE  LiveRegistered'
  <2>1. PICK gone \in Evictions : state' = [x \in Ops |->
          IF x \in gone THEN "evicted"
          ELSE IF x = o THEN "kQueued" ELSE state[x]]
    BY <1>5 DEF Submit
  <2>2. \A x \in Ops \ {o} : state'[x] \in Live => state[x] \in Live
    BY <2>1 DEF Live
  <2> QED
    BY <1>1, <1>5, <2>2 DEF Submit, SubmitAllowed, LiveRegistered
<1>6. ASSUME NEW r \in Requests, NEW o \in Ops, CancelOperation(r, o)
      PROVE  LiveRegistered'
  <2>1. PICK F \in SUBSET Ops : Cancels(F)
    BY <1>6, CancelSteps DEF Clocks
  <2>2. \A x \in Ops : state'[x] \in Live <=> state[x] \in Live
    BY <2>1 DEF Cancels, Live
  <2> QED
    BY <1>1, <1>6, <2>2 DEF CancelOperation, LiveRegistered
<1>7. ASSUME NEW o \in Ops, StartOperation(o) PROVE  LiveRegistered'
  <2>1. state[o] \in Live /\ owner' = owner /\ registered' = registered
    BY <1>1, <1>7 DEF StartOperation, WorkerShape, Live
  <2>2. \A x \in Ops \ {o} : state'[x] = state[x]
    BY <1>1, <1>7 DEF StartOperation, CompleteLocked
  <2> QED
    BY <1>1, <2>1, <2>2 DEF LiveRegistered
<1>8. ASSUME Shutdown PROVE  LiveRegistered'
  <2>1. PICK F \in SUBSET Ops : Cancels(F)
    BY <1>8, CancelSteps DEF Clocks
  <2>2. \A x \in Ops : state'[x] \in Live <=> state[x] \in Live
    BY <2>1 DEF Cancels, Live
  <2> QED
    BY <1>1, <1>8, <2>2 DEF Shutdown, LiveRegistered
<1>9. ASSUME FinalizeShutdown PROVE  LiveRegistered'
  <2>1. pc["shutdown"] = "wait" /\ phase = "kStopping"
    BY <1>9 DEF FinalizeShutdown, Shape, ShutdownShape
  <2>2. \A o \in Ops : state[o] \notin Live
    BY <2>1 DEF Workers, HandlesHeld, LiveAreHeld, Closer, Delivering
  <2> QED
    BY <1>9, <2>2 DEF FinalizeShutdown, LiveRegistered
<1> USE DEF LiveRegistered, Live, Terminal
<1>10. ASSUME NEW s \in Sessions, RegisterSession(s) PROVE  LiveRegistered'
  BY <1>1, <1>10 DEF RegisterSession
<1>11. ASSUME NEW o \in Ops, FinishOperation(o) PROVE  LiveRegistered'
  BY <1>1, <1>11 DEF FinishOperation, CompleteLocked
<1>12. ASSUME NEW s \in Sessions,
              \/ SessionLost(s) \/ RemoveTimedOut(s)
      PROVE  LiveRegistered'
  BY <1>1, <1>12 DEF SessionLost, RemoveTimedOut
<1>13. ASSUME NEW r \in Requests,
              \/ BeginRequest(r) \/ HandlerEnds(r) \/ EndRequest(r)
              \/ CreateSubscription(r) \/ CancelSubscription(r)
              \/ SubmitFull(r)
      PROVE  LiveRegistered'
  BY <1>1, <1>13 DEF BeginRequest, HandlerEnds, EndRequest,
    CreateSubscription, CancelSubscription, SubmitFull
<1>14. ASSUME NEW o \in Ops,
              \/ ReportProgress(o) \/ WorkerExited(o)
      PROVE  LiveRegistered'
  BY <1>1, <1>14 DEF ReportProgress, WorkerExited
<1>15. ASSUME NEW t \in Threads,
              \/ RequestStop(t) \/ Drain(t) \/ PickNotification(t)
              \/ HandlerTakes(t) \/ HandlerThrows(t) \/ JoinWorkers(t)
      PROVE  LiveRegistered'
  BY <1>1, <1>15 DEF RequestStop, Drain, PickNotification, HandlerTakes,
    HandlerThrows, JoinWorkers
<1>16. ASSUME \/ Publish \/ CloseRunSubscriptions \/ Destroy \/ Destroyed
      PROVE  LiveRegistered'
  BY <1>1, <1>16 DEF Publish, CloseRunSubscriptions, Destroy, Destroyed,
    serviceVars
<1> QED
  BY <1>2, <1>3, <1>4, <1>5, <1>6, <1>7, <1>8, <1>9, <1>10, <1>11, <1>12,
    <1>13, <1>14, <1>15, <1>16 DEF ServiceNext, SessionStep, RequestStep,
    WorkerStep, ThreadStep

\* ... or a request without one.
LEMMA InsideRegisteredStep ==
  ASSUME TypeOK, Shape, Books, ServiceNext
  PROVE  InsideRegistered'
<1>1. /\ DOMAIN pc = Threads /\ PcShape /\ InsideRegistered
      /\ registered \subseteq Sessions
  BY DEF TypeOK, Shape, Books
<1> USE DEF opVars, sessionVars, clockVars, noticeVars, boundVars, Go
<1>2. ASSUME NEW s \in Sessions,
             \/ RemoveSession(s) \/ SessionLost(s) \/ RemoveTimedOut(s)
      PROVE  InsideRegistered'
  <2>1. \A x \in Requests :
          pc[x] \in {"idle", "gone"} => pc'[x] \in {"idle", "gone"}
    BY <1>1, <1>2, ThreadKinds DEF RemoveSession, SessionLost, RemoveTimedOut
  <2> QED
    BY <1>1, <1>2, <2>1 DEF RemoveSession, InsideRegistered, SessionLost,
      RemoveTimedOut
<1>3. ASSUME NEW s \in Sessions, SessionRemoved(s) PROVE  InsideRegistered'
  <2>1. s \in Sessions /\ waiters[s] = 0
    BY <1>3 DEF SessionRemoved, SessionStopped
  <2>2. Inside(s) = {}
    BY <2>1, QuietSession
  <2>3. \A x \in Requests : pc'[x] = pc[x]
    BY <1>1, <1>3, ThreadKinds DEF SessionRemoved
  <2> QED
    BY <1>1, <1>3, <2>2, <2>3 DEF SessionRemoved, EraseSession,
      InsideRegistered, Inside
<1>4. ASSUME NEW r \in Requests,
             \/ HandlerEnds(r) \/ EndRequest(r) \/ CreateSubscription(r)
             \/ CancelSubscription(r) \/ SubmitWithoutThread(r)
             \/ SubmitFull(r)
      PROVE  InsideRegistered'
  <2>1. \A x \in Requests :
          pc[x] \in {"idle", "gone"} => pc'[x] \in {"idle", "gone"}
    BY <1>1, <1>4, ThreadKinds DEF HandlerEnds, DeliverMore, EndRequest,
      CreateSubscription, CancelSubscription, SubmitWithoutThread,
      SubmitAllowed, SubmitFull
  <2> QED
    BY <1>1, <1>4, <2>1 DEF HandlerEnds, InsideRegistered, EndRequest,
      CreateSubscription, CancelSubscription, SubmitWithoutThread, SubmitFull
<1>5. ASSUME NEW r \in Requests, NEW o \in Ops,
             \/ Submit(r, o) \/ CancelOperation(r, o)
      PROVE  InsideRegistered'
  <2>1. \A x \in Requests :
          pc[x] \in {"idle", "gone"} => pc'[x] \in {"idle", "gone"}
    BY <1>1, <1>5, ThreadKinds DEF Submit, SubmitAllowed, CancelOperation
  <2> QED
    BY <1>1, <1>5, <2>1 DEF Submit, InsideRegistered, CancelOperation
<1>6. ASSUME NEW o \in Ops,
             \/ StartOperation(o) \/ ReportProgress(o)
             \/ FinishOperation(o) \/ WorkerExited(o)
      PROVE  InsideRegistered'
  <2>1. \A x \in Requests :
          pc[x] \in {"idle", "gone"} => pc'[x] \in {"idle", "gone"}
    BY <1>1, <1>6, ThreadKinds DEF StartOperation, ReportProgress,
      FinishOperation, WorkerExited
  <2> QED
    BY <1>1, <1>6, <2>1 DEF StartOperation, InsideRegistered, ReportProgress,
      FinishOperation, WorkerExited
<1>7. ASSUME NEW t \in Threads,
             \/ RequestStop(t) \/ HandlerTakes(t)
      PROVE  InsideRegistered'
  <2>1. \A x \in Requests :
          pc[x] \in {"idle", "gone"} => pc'[x] \in {"idle", "gone"}
    BY <1>1, <1>7, ThreadKinds DEF RequestStop, HandlerTakes, DeliverMore
  <2> QED
    BY <1>1, <1>7, <2>1 DEF RequestStop, InsideRegistered, HandlerTakes
<1>8. ASSUME NEW t \in Threads,
             \/ Drain(t) \/ PickNotification(t) \/ HandlerThrows(t)
      PROVE  InsideRegistered'
  <2>1. \A x \in Requests :
          pc[x] \in {"idle", "gone"} => pc'[x] \in {"idle", "gone"}
    BY <1>1, <1>8, ThreadKinds, AfterFacts DEF Drain, PickNotification,
      HandlerThrows, DeliverMore
  <2> QED
    BY <1>1, <1>8, <2>1 DEF Drain, InsideRegistered, PickNotification,
      HandlerThrows
<1>9. ASSUME NEW t \in Threads, JoinWorkers(t) PROVE  InsideRegistered'
  <2>1. \A x \in Requests :
          pc[x] \in {"idle", "gone"} => pc'[x] \in {"idle", "gone"}
    BY <1>1, <1>9, ThreadKinds, JoinedFacts DEF JoinWorkers
  <2> QED
    BY <1>1, <1>9, <2>1 DEF JoinWorkers, InsideRegistered
<1>10. ASSUME \/ Publish \/ Shutdown \/ Destroy
      PROVE  InsideRegistered'
  <2>1. \A x \in Requests :
          pc[x] \in {"idle", "gone"} => pc'[x] \in {"idle", "gone"}
    BY <1>1, <1>10, ThreadKinds DEF Publish, Shutdown, Destroy
  <2> QED
    BY <1>1, <1>10, <2>1 DEF Publish, InsideRegistered, Shutdown, Destroy
<1>11. ASSUME FinalizeShutdown PROVE  InsideRegistered'
  <2>1. \A s \in registered : Inside(s) = {}
    BY <1>1, <1>11, QuietSession DEF FinalizeShutdown, SessionWaitersDrained
  <2>2. \A x \in Requests : pc[x] \in {"idle", "gone"}
    BY <1>1, <2>1 DEF Inside, InsideRegistered
  <2>3. \A x \in Requests : pc'[x] = pc[x]
    BY <1>1, <1>11, ThreadKinds DEF FinalizeShutdown
  <2> QED
    BY <2>2, <2>3 DEF InsideRegistered
<1> USE DEF InsideRegistered
<1>12. ASSUME NEW s \in Sessions, RegisterSession(s) PROVE  InsideRegistered'
  BY <1>1, <1>12, ThreadKinds DEF RegisterSession
<1>13. ASSUME NEW r \in Requests, BeginRequest(r) PROVE  InsideRegistered'
  BY <1>1, <1>13, ThreadKinds DEF BeginRequest
<1>14. ASSUME \/ CloseRunSubscriptions \/ Destroyed
      PROVE  InsideRegistered'
  BY <1>1, <1>14 DEF CloseRunSubscriptions, Destroyed, serviceVars
<1> QED
  BY <1>2, <1>3, <1>4, <1>5, <1>6, <1>7, <1>8, <1>9, <1>10, <1>11, <1>12,
    <1>13, <1>14 DEF ServiceNext, SessionStep, RequestStep, WorkerStep,
    ThreadStep

\* A session that is gone stays away.
LEMMA DepartedStep ==
  ASSUME TypeOK, Shape, Departed, ServiceNext
  PROVE  Departed'
<1>1. DOMAIN pc = Threads /\ PcShape /\ registered \subseteq Sessions
  BY DEF TypeOK, Shape
<1> USE DEF opVars, sessionVars, clockVars, noticeVars, boundVars, Go
<1>2. ASSUME NEW t \in Threads,
             \/ Drain(t) \/ PickNotification(t) \/ HandlerThrows(t)
      PROVE  Departed'
  <2>1. \A x \in Sessions : pc'[x] \in {"join", "removed"} =>
                              pc[x] \in {"join", "removed"}
    BY <1>1, <1>2, ThreadKinds, AfterFacts DEF Drain, PickNotification,
      HandlerThrows, DeliverMore
  <2> QED
    BY <1>2, <2>1 DEF Drain, Departed, PickNotification, HandlerThrows
<1>3. ASSUME NEW t \in Threads, JoinWorkers(t) PROVE  Departed'
  <2>1. \A x \in Sessions : pc'[x] \in {"join", "removed"} =>
                              pc[x] \in {"join", "removed"}
    BY <1>1, <1>3, ThreadKinds, JoinedFacts DEF JoinWorkers
  <2> QED
    BY <1>3, <2>1 DEF JoinWorkers, Departed
<1> USE DEF Departed
<1>4. ASSUME NEW s \in Sessions, RegisterSession(s) PROVE  Departed'
  BY <1>1, <1>4, ThreadKinds DEF RegisterSession
<1>5. ASSUME NEW s \in Sessions, RemoveSession(s) PROVE  Departed'
  BY <1>1, <1>5, ThreadKinds DEF RemoveSession
<1>6. ASSUME NEW s \in Sessions, SessionRemoved(s) PROVE  Departed'
  BY <1>1, <1>6, ThreadKinds DEF SessionRemoved, EraseSession, Take,
    SessionStopped
<1>7. ASSUME NEW s \in Sessions, SessionLost(s) PROVE  Departed'
  BY <1>1, <1>7, ThreadKinds DEF SessionLost, Take
<1>8. ASSUME NEW s \in Sessions, RemoveTimedOut(s) PROVE  Departed'
  BY <1>1, <1>8, ThreadKinds DEF RemoveTimedOut
<1>9. ASSUME NEW r \in Requests, BeginRequest(r) PROVE  Departed'
  BY <1>1, <1>9, ThreadKinds DEF BeginRequest
<1>10. ASSUME NEW r \in Requests, HandlerEnds(r) PROVE  Departed'
  BY <1>1, <1>10, ThreadKinds DEF HandlerEnds
<1>11. ASSUME NEW r \in Requests, EndRequest(r) PROVE  Departed'
  BY <1>1, <1>11, ThreadKinds DEF EndRequest
<1>12. ASSUME NEW r \in Requests, CreateSubscription(r) PROVE  Departed'
  BY <1>1, <1>12, ThreadKinds DEF CreateSubscription
<1>13. ASSUME NEW r \in Requests, CancelSubscription(r) PROVE  Departed'
  BY <1>1, <1>13, ThreadKinds DEF CancelSubscription
<1>14. ASSUME NEW r \in Requests, SubmitWithoutThread(r) PROVE  Departed'
  BY <1>1, <1>14, ThreadKinds DEF SubmitWithoutThread, SubmitAllowed, Take
<1>15. ASSUME NEW r \in Requests, SubmitFull(r) PROVE  Departed'
  BY <1>1, <1>15, ThreadKinds DEF SubmitFull, SubmitAllowed, Take
<1>16. ASSUME NEW r \in Requests, NEW o \in Ops, Submit(r, o) PROVE  Departed'
  BY <1>1, <1>16, ThreadKinds DEF Submit, SubmitAllowed
<1>17. ASSUME NEW r \in Requests, NEW o \in Ops, CancelOperation(r, o)
      PROVE  Departed'
  BY <1>1, <1>17, ThreadKinds DEF CancelOperation
<1>18. ASSUME NEW o \in Ops, StartOperation(o) PROVE  Departed'
  BY <1>1, <1>18, ThreadKinds DEF StartOperation, CompleteLocked
<1>19. ASSUME NEW o \in Ops, ReportProgress(o) PROVE  Departed'
  BY <1>1, <1>19, ThreadKinds DEF ReportProgress
<1>20. ASSUME NEW o \in Ops, FinishOperation(o) PROVE  Departed'
  BY <1>1, <1>20, ThreadKinds DEF FinishOperation, CompleteLocked
<1>21. ASSUME NEW o \in Ops, WorkerExited(o) PROVE  Departed'
  BY <1>1, <1>21, ThreadKinds DEF WorkerExited
<1>22. ASSUME NEW t \in Threads, RequestStop(t) PROVE  Departed'
  BY <1>1, <1>22, ThreadKinds DEF RequestStop
<1>23. ASSUME NEW t \in Threads, HandlerTakes(t) PROVE  Departed'
  BY <1>1, <1>23, ThreadKinds DEF HandlerTakes, RetireSlot, DeliverMore
<1>24. ASSUME Publish PROVE  Departed'
  BY <1>1, <1>24, ThreadKinds DEF Publish
<1>25. ASSUME Shutdown PROVE  Departed'
  BY <1>1, <1>25, ThreadKinds DEF Shutdown
<1>26. ASSUME FinalizeShutdown PROVE  Departed'
  BY <1>1, <1>26, ThreadKinds DEF FinalizeShutdown
<1>27. ASSUME Destroy PROVE  Departed'
  BY <1>1, <1>27, ThreadKinds DEF Destroy
<1>28. ASSUME \/ CloseRunSubscriptions \/ Destroyed
      PROVE  Departed'
  BY <1>1, <1>28 DEF CloseRunSubscriptions, Destroyed, serviceVars
<1> QED
  BY <1>2, <1>3, <1>4, <1>5, <1>6, <1>7, <1>8, <1>9, <1>10, <1>11, <1>12,
    <1>13, <1>14, <1>15, <1>16, <1>17, <1>18, <1>19, <1>20, <1>21, <1>22,
    <1>23, <1>24, <1>25, <1>26, <1>27, <1>28 DEF ServiceNext, SessionStep,
    RequestStep, WorkerStep, ThreadStep

-----------------------------------------------------------------------------
(* The workers.                                                            *)

\* A record holds a thread only while the service runs, ...
LEMMA HandleStep ==
  ASSUME TypeOK, Shape, Workers, QueueShape, Clocks, ServiceNext
  PROVE  HandlesHeld'
<1>1. /\ DOMAIN pc = Threads /\ HandlesHeld
      /\ state \in [Ops -> Live \cup Terminal \cup {"none", "evicted"}]
      /\ handle \in [Ops -> BOOLEAN]
      /\ pc["shutdown"] = "idle" <=> phase = "kRunning"
  BY DEF TypeOK, Shape, ShutdownShape, Workers
<1> USE DEF opVars, sessionVars, clockVars, noticeVars, boundVars, Go
<1>2. ASSUME NEW s \in Sessions, RemoveSession(s) PROVE  HandlesHeld'
  <2>1. PICK F \in SUBSET Ops : Cancels(F)
    BY <1>2, CancelSteps DEF Clocks
  <2>2. \A x \in Ops : x \in Retained => x \in Retained'
    BY <2>1 DEF Cancels, Live, Retained
  <2> QED
    BY <1>1, <1>2, <2>2 DEF RemoveSession, HandlesHeld
<1>3. ASSUME NEW r \in Requests, SubmitWithoutThread(r) PROVE  HandlesHeld'
  <2>1. PICK gone \in Evictions :
          /\ state' = [x \in Ops |->
                          IF x \in gone THEN "evicted" ELSE state[x]]
          /\ Take(r, Finished \cup gone)
    BY <1>3 DEF SubmitWithoutThread
  <2>2. \A x \in Ops : handle'[x] => handle[x] /\ x \notin gone
    BY <2>1 DEF Take
  <2>3. \A x \in Ops : x \in Retained /\ x \notin gone => x \in Retained'
    BY <2>1 DEF Retained
  <2> QED
    BY <1>1, <1>3, <2>2, <2>3 DEF SubmitWithoutThread, HandlesHeld
<1>4. ASSUME NEW r \in Requests, NEW o \in Ops, Submit(r, o)
      PROVE  HandlesHeld'
  <2>1. PICK gone \in Evictions :
          /\ state' = [x \in Ops |-> IF x \in gone THEN "evicted" ELSE
                                    IF x = o THEN "kQueued" ELSE state[x]]
          /\ handle' = [x \in Ops |-> x = o \/ (handle[x] /\
                                               x \notin Finished \cup gone)]
    BY <1>4 DEF Submit
  <2>2. o \notin gone
    BY <1>4, EvictionFacts DEF Submit, Terminal
  <2>3. phase = "kRunning" /\ phase' = phase
    BY <1>4 DEF Submit, SubmitAllowed
  <2>4. ASSUME NEW x \in Ops, handle'[x] PROVE x \in Retained'
    <3>1. CASE x = o
      BY <2>1, <2>2, <3>1 DEF Retained, Live
    <3>2. CASE x # o
      <4>1. x \notin gone /\ handle[x]
        BY <2>1, <2>4, <3>2
      <4> QED
        BY <1>1, <2>1, <3>2, <4>1 DEF Retained, HandlesHeld
    <3> QED
      BY <3>1, <3>2
  <2> QED
    BY <2>3, <2>4 DEF HandlesHeld
<1>5. ASSUME NEW r \in Requests, NEW o \in Ops, CancelOperation(r, o)
      PROVE  HandlesHeld'
  <2>1. PICK F \in SUBSET Ops : Cancels(F)
    BY <1>5, CancelSteps DEF Clocks
  <2>2. \A x \in Ops : x \in Retained => x \in Retained'
    BY <2>1 DEF Cancels, Live, Retained
  <2> QED
    BY <1>1, <1>5, <2>2 DEF CancelOperation, HandlesHeld
<1>6. ASSUME NEW o \in Ops,
             \/ StartOperation(o) \/ FinishOperation(o)
      PROVE  HandlesHeld'
  <2>1. \A x \in Ops : x \in Retained => x \in Retained'
    BY <1>1, <1>6 DEF StartOperation, CompleteLocked, Retained, Live,
      Terminal, FinishOperation
  <2> QED
    BY <1>1, <1>6, <2>1 DEF StartOperation, HandlesHeld, FinishOperation
<1>7. ASSUME Shutdown PROVE  HandlesHeld'
  BY <1>7 DEF Shutdown, HandlesHeld
<1> USE DEF HandlesHeld, Retained
<1>8. ASSUME NEW s \in Sessions, SessionRemoved(s) PROVE  HandlesHeld'
  BY <1>1, <1>8 DEF SessionRemoved, EraseSession, Take, SessionStopped
<1>9. ASSUME NEW s \in Sessions, SessionLost(s) PROVE  HandlesHeld'
  BY <1>1, <1>9 DEF SessionLost, Take
<1>10. ASSUME NEW r \in Requests, SubmitFull(r) PROVE  HandlesHeld'
  BY <1>1, <1>10 DEF SubmitFull, SubmitAllowed, Take
<1>11. ASSUME FinalizeShutdown PROVE  HandlesHeld'
  BY <1>1, <1>11 DEF FinalizeShutdown
<1>12. ASSUME NEW s \in Sessions,
              \/ RegisterSession(s) \/ RemoveTimedOut(s)
      PROVE  HandlesHeld'
  BY <1>1, <1>12 DEF RegisterSession, RemoveTimedOut
<1>13. ASSUME NEW r \in Requests,
              \/ BeginRequest(r) \/ HandlerEnds(r) \/ EndRequest(r)
              \/ CreateSubscription(r) \/ CancelSubscription(r)
      PROVE  HandlesHeld'
  BY <1>1, <1>13 DEF BeginRequest, HandlerEnds, EndRequest,
    CreateSubscription, CancelSubscription
<1>14. ASSUME NEW o \in Ops,
              \/ ReportProgress(o) \/ WorkerExited(o)
      PROVE  HandlesHeld'
  BY <1>1, <1>14 DEF ReportProgress, WorkerExited
<1>15. ASSUME NEW t \in Threads,
              \/ RequestStop(t) \/ Drain(t) \/ PickNotification(t)
              \/ HandlerTakes(t) \/ HandlerThrows(t) \/ JoinWorkers(t)
      PROVE  HandlesHeld'
  BY <1>1, <1>15 DEF RequestStop, Drain, PickNotification, HandlerTakes,
    HandlerThrows, JoinWorkers
<1>16. ASSUME \/ Publish \/ CloseRunSubscriptions \/ Destroy \/ Destroyed
      PROVE  HandlesHeld'
  BY <1>1, <1>16 DEF Publish, CloseRunSubscriptions, Destroy, Destroyed,
    serviceVars
<1> QED
  BY <1>2, <1>3, <1>4, <1>5, <1>6, <1>7, <1>8, <1>9, <1>10, <1>11, <1>12,
    <1>13, <1>14, <1>15, <1>16 DEF ServiceNext, SessionStep, RequestStep,
    WorkerStep, ThreadStep

\* An operation that is done stays so.
LEMMA DoneStays ==
  ASSUME TypeOK, Shape, QueueShape, Clocks, ServiceNext
  PROVE  \A x \in Ops : state[x] \in Done => state'[x] \in Done
<1>1. /\ WorkerShape
      /\ state \in [Ops -> Live \cup Terminal \cup {"none", "evicted"}]
  BY DEF TypeOK, Shape
<1> USE DEF opVars, sessionVars, clockVars, noticeVars, boundVars, Go
<1>2. ASSUME NEW s \in Sessions, RemoveSession(s)
      PROVE  \A x \in Ops : state[x] \in Done => state'[x] \in Done
  <2>1. PICK F \in SUBSET Ops : Cancels(F)
    BY <1>2, CancelSteps DEF Clocks
  <2> QED
    BY <1>1, <2>1 DEF Cancels, Done, Live, Terminal
<1>3. ASSUME NEW r \in Requests, SubmitWithoutThread(r)
      PROVE  \A x \in Ops : state[x] \in Done => state'[x] \in Done
  BY <1>1, <1>3, EvictionFacts DEF SubmitWithoutThread, Done, Terminal
<1>4. ASSUME NEW r \in Requests, NEW o \in Ops, Submit(r, o)
      PROVE  \A x \in Ops : state[x] \in Done => state'[x] \in Done
  BY <1>1, <1>4, EvictionFacts DEF Submit, Done, Terminal
<1>5. ASSUME NEW r \in Requests, NEW o \in Ops, CancelOperation(r, o)
      PROVE  \A x \in Ops : state[x] \in Done => state'[x] \in Done
  <2>1. PICK F \in SUBSET Ops : Cancels(F)
    BY <1>5, CancelSteps DEF Clocks
  <2> QED
    BY <1>1, <2>1 DEF Cancels, Done, Live, Terminal
<1>6. ASSUME NEW o \in Ops,
             \/ StartOperation(o) \/ FinishOperation(o)
      PROVE  \A x \in Ops : state[x] \in Done => state'[x] \in Done
  <2>1. state[o] \in Live
    BY <1>1, <1>6 DEF StartOperation, WorkerShape, Live, FinishOperation
  <2> QED
    BY <1>1, <1>6, <2>1 DEF StartOperation, CompleteLocked, Done, Live,
      Terminal, FinishOperation
<1>7. ASSUME Shutdown
      PROVE  \A x \in Ops : state[x] \in Done => state'[x] \in Done
  <2>1. PICK F \in SUBSET Ops : Cancels(F)
    BY <1>7, CancelSteps DEF Clocks
  <2> QED
    BY <1>1, <2>1 DEF Cancels, Done, Live, Terminal
<1> USE DEF Done
<1>8. ASSUME NEW s \in Sessions,
             \/ RegisterSession(s) \/ SessionRemoved(s) \/ SessionLost(s)
             \/ RemoveTimedOut(s)
      PROVE  \A x \in Ops : state[x] \in Done => state'[x] \in Done
  BY <1>1, <1>8 DEF RegisterSession, SessionRemoved, SessionLost,
    RemoveTimedOut
<1>9. ASSUME NEW r \in Requests,
             \/ BeginRequest(r) \/ HandlerEnds(r) \/ EndRequest(r)
             \/ CreateSubscription(r) \/ CancelSubscription(r)
             \/ SubmitFull(r)
      PROVE  \A x \in Ops : state[x] \in Done => state'[x] \in Done
  BY <1>1, <1>9 DEF BeginRequest, HandlerEnds, EndRequest, CreateSubscription,
    CancelSubscription, SubmitFull
<1>10. ASSUME NEW o \in Ops,
             \/ ReportProgress(o) \/ WorkerExited(o)
      PROVE  \A x \in Ops : state[x] \in Done => state'[x] \in Done
  BY <1>1, <1>10 DEF ReportProgress, WorkerExited
<1>11. ASSUME NEW t \in Threads,
              \/ RequestStop(t) \/ Drain(t) \/ PickNotification(t)
              \/ HandlerTakes(t) \/ HandlerThrows(t) \/ JoinWorkers(t)
      PROVE  \A x \in Ops : state[x] \in Done => state'[x] \in Done
  BY <1>1, <1>11 DEF RequestStop, Drain, PickNotification, HandlerTakes,
    HandlerThrows, JoinWorkers
<1>12. ASSUME \/ Publish \/ CloseRunSubscriptions \/ FinalizeShutdown
              \/ Destroy \/ Destroyed
      PROVE  \A x \in Ops : state[x] \in Done => state'[x] \in Done
  BY <1>1, <1>12 DEF Publish, CloseRunSubscriptions, FinalizeShutdown,
    Destroy, Destroyed, serviceVars
<1> QED
  BY <1>2, <1>3, <1>4, <1>5, <1>6, <1>7, <1>8, <1>9, <1>10, <1>11, <1>12 DEF
    ServiceNext, SessionStep, RequestStep, WorkerStep, ThreadStep

\* ... the workers that requests and removals wait for are done, ...
LEMMA JoinedStep ==
  ASSUME TypeOK, Shape, Books, Workers, QueueShape, Clocks, ServiceNext
  PROVE  JoinedAreDone'
<1>1. /\ DOMAIN pc = Threads /\ DOMAIN target = Threads /\ PcShape
      /\ JoinedAreDone
  BY DEF TypeOK, Shape, Workers
<1>2. \A x \in Ops : state[x] \in Done => state'[x] \in Done
  BY DoneStays
<1> USE DEF opVars, sessionVars, clockVars, noticeVars, boundVars, Go
<1>3. ASSUME NEW s \in Sessions,
             \/ RemoveSession(s) \/ RemoveTimedOut(s)
      PROVE  JoinedAreDone'
  <2>1. \A x \in Requests \cup Sessions :
           pc'[x] = "join" => pc[x] = "join" /\ target'[x] = target[x]
    BY <1>1, <1>3, ThreadKinds DEF RemoveSession, RemoveTimedOut
  <2> QED
    BY <1>1, <1>2, <2>1 DEF JoinedAreDone, Done
<1>4. ASSUME NEW s \in Sessions,
             \/ SessionRemoved(s) \/ SessionLost(s)
      PROVE  JoinedAreDone'
  <2>1. /\ pc' = [pc EXCEPT ![s] = "join"] /\ state' = state
        /\ target' = [target EXCEPT ![s] = {o \in OpsOf(s) : handle[o]}]
    BY <1>4 DEF SessionRemoved, Take, SessionLost
  <2>2. LiveOf(s) = {}
    BY <1>4, QuietSession DEF SessionRemoved, SessionStopped, SessionLost,
      Books, LiveRegistered, LiveOf
  <2>3. \A o \in OpsOf(s) : state[o] \in Done
    BY <2>2 DEF OpsOf, Retained, LiveOf, Done
  <2>4. \A x \in Requests \cup Sessions :
           x # s => (pc'[x] = pc[x] /\ target'[x] = target[x])
    BY <1>1, <2>1, ThreadKinds
  <2>5. target'[s] \subseteq OpsOf(s)
    BY <1>1, <2>1, ThreadKinds
  <2> QED
    BY <1>1, <2>1, <2>3, <2>4, <2>5 DEF JoinedAreDone, Done
<1>5. ASSUME NEW r \in Requests,
             \/ BeginRequest(r) \/ HandlerEnds(r) \/ EndRequest(r)
             \/ CreateSubscription(r) \/ CancelSubscription(r)
      PROVE  JoinedAreDone'
  <2>1. \A x \in Requests \cup Sessions :
           pc'[x] = "join" => pc[x] = "join" /\ target'[x] = target[x]
    BY <1>1, <1>5, ThreadKinds DEF BeginRequest, HandlerEnds, DeliverMore,
      EndRequest, CreateSubscription, CancelSubscription
  <2> QED
    BY <1>1, <1>2, <2>1 DEF JoinedAreDone, Done
<1>6. ASSUME NEW r \in Requests, SubmitWithoutThread(r) PROVE  JoinedAreDone'
  <2>1. PICK gone \in Evictions : target' =
           [target EXCEPT ![r] = {x \in Finished \cup gone : handle[x]}]
    BY <1>6 DEF SubmitWithoutThread, Take
  <2>2. \A x \in Finished \cup gone : x \in Ops /\ state[x] \in Done
    BY EvictionFacts DEF Finished, Retained, Done
  <2>3. \A x \in target'[r] : x \in Ops /\ state'[x] \in Done
    BY <1>1, <1>2, <2>1, <2>2, ThreadKinds
  <2>4. \A x \in Requests \cup Sessions :
           x # r => (pc'[x] = pc[x] /\ target'[x] = target[x])
    BY <1>1, <1>6, <2>1, ThreadKinds DEF SubmitWithoutThread
  <2> QED
    BY <1>1, <1>2, <2>3, <2>4 DEF JoinedAreDone, Done
<1>7. ASSUME NEW r \in Requests, SubmitFull(r) PROVE  JoinedAreDone'
  <2>1. target' = [target EXCEPT ![r] = {x \in Finished : handle[x]}]
    BY <1>7 DEF SubmitFull, Take
  <2>2. \A x \in target'[r] : x \in Ops /\ state'[x] \in Done
    BY <1>1, <1>7, <2>1, ThreadKinds DEF SubmitFull, Finished, Retained, Done
  <2>3. \A x \in Requests \cup Sessions :
           x # r => (pc'[x] = pc[x] /\ target'[x] = target[x])
    BY <1>1, <1>7, <2>1, ThreadKinds DEF SubmitFull
  <2> QED
    BY <1>1, <1>2, <2>2, <2>3 DEF JoinedAreDone, Done
<1>8. ASSUME NEW r \in Requests, NEW o \in Ops, Submit(r, o)
      PROVE  JoinedAreDone'
  <2>1. PICK gone \in Evictions : target' =
           [target EXCEPT ![r] = {x \in Finished \cup gone : handle[x]}]
    BY <1>8 DEF Submit
  <2>2. \A x \in Finished \cup gone : x \in Ops /\ state[x] \in Done
    BY EvictionFacts DEF Finished, Retained, Done
  <2>3. \A x \in target'[r] : x \in Ops /\ state'[x] \in Done
    BY <1>1, <1>2, <2>1, <2>2, ThreadKinds
  <2>4. \A x \in Requests \cup Sessions :
           x # r => (pc'[x] = pc[x] /\ target'[x] = target[x])
    BY <1>1, <1>8, <2>1, ThreadKinds DEF Submit
  <2> QED
    BY <1>1, <1>2, <2>3, <2>4 DEF JoinedAreDone, Done
<1>9. ASSUME NEW r \in Requests, NEW o \in Ops, CancelOperation(r, o)
      PROVE  JoinedAreDone'
  <2>1. \A x \in Requests \cup Sessions :
           pc'[x] = "join" => pc[x] = "join" /\ target'[x] = target[x]
    BY <1>1, <1>9, ThreadKinds DEF CancelOperation
  <2> QED
    BY <1>1, <1>2, <2>1 DEF JoinedAreDone, Done
<1>10. ASSUME NEW o \in Ops,
             \/ StartOperation(o) \/ ReportProgress(o)
             \/ FinishOperation(o) \/ WorkerExited(o)
      PROVE  JoinedAreDone'
  <2>1. \A x \in Requests \cup Sessions :
           pc'[x] = "join" => pc[x] = "join" /\ target'[x] = target[x]
    BY <1>1, <1>10, ThreadKinds DEF StartOperation, ReportProgress,
      FinishOperation, WorkerExited
  <2> QED
    BY <1>1, <1>2, <2>1 DEF JoinedAreDone, Done
<1>11. ASSUME NEW t \in Threads,
             \/ RequestStop(t) \/ HandlerTakes(t)
      PROVE  JoinedAreDone'
  <2>1. \A x \in Requests \cup Sessions :
           pc'[x] = "join" => pc[x] = "join" /\ target'[x] = target[x]
    BY <1>1, <1>11, ThreadKinds DEF RequestStop, HandlerTakes, DeliverMore
  <2> QED
    BY <1>1, <1>2, <2>1 DEF JoinedAreDone, Done
<1>12. ASSUME NEW t \in Threads,
              \/ Drain(t) \/ PickNotification(t) \/ HandlerThrows(t)
      PROVE  JoinedAreDone'
  <2>1. \A x \in Requests \cup Sessions :
           pc'[x] = "join" => pc[x] = "join" /\ target'[x] = target[x]
    BY <1>1, <1>12, ThreadKinds, AfterFacts DEF Drain, PickNotification,
      HandlerThrows, DeliverMore
  <2> QED
    BY <1>1, <1>2, <2>1 DEF JoinedAreDone, Done
<1>13. ASSUME NEW t \in Threads, JoinWorkers(t) PROVE  JoinedAreDone'
  <2>1. \A x \in Requests \cup Sessions :
           pc'[x] = "join" => pc[x] = "join" /\ target'[x] = target[x]
    BY <1>1, <1>13, ThreadKinds, JoinedFacts DEF JoinWorkers
  <2> QED
    BY <1>1, <1>2, <2>1 DEF JoinedAreDone, Done
<1>14. ASSUME \/ Publish \/ Shutdown \/ FinalizeShutdown \/ Destroy
      PROVE  JoinedAreDone'
  <2>1. \A x \in Requests \cup Sessions :
           pc'[x] = "join" => pc[x] = "join" /\ target'[x] = target[x]
    BY <1>1, <1>14, ThreadKinds DEF Publish, Shutdown, FinalizeShutdown,
      Destroy
  <2> QED
    BY <1>1, <1>2, <2>1 DEF JoinedAreDone, Done
<1> USE DEF JoinedAreDone
<1>15. ASSUME NEW s \in Sessions, RegisterSession(s) PROVE  JoinedAreDone'
  BY <1>1, <1>15 DEF RegisterSession
<1>16. ASSUME \/ CloseRunSubscriptions \/ Destroyed
      PROVE  JoinedAreDone'
  BY <1>1, <1>16 DEF CloseRunSubscriptions, Destroyed, serviceVars
<1> QED
  BY <1>3, <1>4, <1>5, <1>6, <1>7, <1>8, <1>9, <1>10, <1>11, <1>12, <1>13,
    <1>14, <1>15, <1>16 DEF ServiceNext, SessionStep, RequestStep, WorkerStep,
    ThreadStep

\* ... a live operation keeps its thread, ...
LEMMA LiveStep ==
  ASSUME TypeOK, Shape, Books, Workers, QueueShape, Clocks, ServiceNext
  PROVE  LiveAreHeld'
<1>1. /\ DOMAIN pc = Threads /\ DOMAIN target = Threads
      /\ PcShape /\ ShutdownShape /\ WorkerShape /\ LiveAreHeld
      /\ state \in [Ops -> Live \cup Terminal \cup {"none", "evicted"}]
      /\ phase \in {"kRunning", "kStopping", "kComplete"}
  BY DEF TypeOK, Shape, Workers
<1> USE DEF opVars, sessionVars, clockVars, noticeVars, boundVars, Go
<1>2. ASSUME NEW s \in Sessions, RemoveSession(s) PROVE  LiveAreHeld'
  <2>1. PICK F \in SUBSET Ops : Cancels(F)
    BY <1>2, CancelSteps DEF Clocks
  <2>2. \A x \in Ops : state'[x] \in Live <=> state[x] \in Live
    BY <2>1 DEF Cancels, Live
  <2>3. /\ handle' = handle /\ pc'["shutdown"] = pc["shutdown"]
        /\ target'["shutdown"] = target["shutdown"]
    BY <1>1, <1>2, ThreadKinds DEF RemoveSession
  <2> QED
    BY <1>1, <2>2, <2>3 DEF LiveAreHeld, Closer
<1>3. ASSUME NEW s \in Sessions,
             \/ SessionRemoved(s) \/ SessionLost(s)
      PROVE  LiveAreHeld'
  <2>1. LiveOf(s) = {}
    BY <1>3, QuietSession DEF SessionRemoved, SessionStopped, SessionLost,
      Books, LiveRegistered, LiveOf
  <2>2. \A x \in Ops : state[x] \in Live /\ handle[x] => handle'[x]
    BY <1>3, <2>1 DEF SessionRemoved, Take, OpsOf, Retained, LiveOf,
      SessionLost
  <2>3. /\ state' = state /\ pc'["shutdown"] = pc["shutdown"]
        /\ target'["shutdown"] = target["shutdown"]
    BY <1>1, <1>3, ThreadKinds DEF SessionRemoved, Take, SessionLost
  <2> QED
    BY <1>1, <2>2, <2>3 DEF LiveAreHeld, Closer
<1>4. ASSUME NEW r \in Requests, SubmitWithoutThread(r) PROVE  LiveAreHeld'
  <2>1. PICK gone \in Evictions :
          /\ state' = [x \in Ops |->
                          IF x \in gone THEN "evicted" ELSE state[x]]
          /\ handle' = [x \in Ops |-> handle[x] /\ x \notin Finished \cup gone]
    BY <1>4 DEF SubmitWithoutThread, Take
  <2>2. \A x \in Ops : state'[x] \in Live => state[x] \in Live /\ x \notin gone
    BY <2>1 DEF Live
  <2>3. \A x \in Ops : state'[x] \in Live /\ handle[x] => handle'[x]
    BY <2>1, <2>2 DEF Finished, Live, Terminal
  <2>4. /\ pc'["shutdown"] = pc["shutdown"]
        /\ target'["shutdown"] = target["shutdown"]
    BY <1>1, <1>4, ThreadKinds DEF SubmitWithoutThread, Take
  <2> QED
    BY <1>1, <2>2, <2>3, <2>4 DEF LiveAreHeld, Closer
<1>5. ASSUME NEW r \in Requests, SubmitFull(r) PROVE  LiveAreHeld'
  <2>1. \A x \in Ops : state'[x] \in Live => state[x] \in Live
    BY <1>5 DEF SubmitFull
  <2>2. \A x \in Ops : state'[x] \in Live /\ handle[x] => handle'[x]
    BY <1>5 DEF SubmitFull, Take, Finished, Live, Terminal
  <2>3. /\ pc'["shutdown"] = pc["shutdown"]
        /\ target'["shutdown"] = target["shutdown"]
    BY <1>1, <1>5, ThreadKinds DEF SubmitFull, Take
  <2> QED
    BY <1>1, <2>1, <2>2, <2>3 DEF LiveAreHeld, Closer
<1>6. ASSUME NEW r \in Requests, NEW o \in Ops, Submit(r, o)
      PROVE  LiveAreHeld'
  <2>1. PICK gone \in Evictions :
          /\ state' = [x \in Ops |-> IF x \in gone THEN "evicted" ELSE
                                    IF x = o THEN "kQueued" ELSE state[x]]
          /\ handle' = [x \in Ops |-> x = o \/ (handle[x] /\
                                               x \notin Finished \cup gone)]
    BY <1>6 DEF Submit
  <2>2. \A x \in Ops : state'[x] \in Live =>
                          x = o \/ (state[x] \in Live /\ x \notin gone)
    BY <2>1 DEF Live
  <2>3. \A x \in Ops : state'[x] \in Live /\ (x = o \/ handle[x]) => handle'[x]
    BY <2>1, <2>2 DEF Finished, Live, Terminal
  <2>4. /\ pc'["shutdown"] = pc["shutdown"]
        /\ target'["shutdown"] = target["shutdown"]
    BY <1>1, <1>6, ThreadKinds DEF Submit
  <2> QED
    BY <1>1, <2>2, <2>3, <2>4 DEF LiveAreHeld, Closer
<1>7. ASSUME NEW r \in Requests, NEW o \in Ops, CancelOperation(r, o)
      PROVE  LiveAreHeld'
  <2>1. PICK F \in SUBSET Ops : Cancels(F)
    BY <1>7, CancelSteps DEF Clocks
  <2>2. \A x \in Ops : state'[x] \in Live <=> state[x] \in Live
    BY <2>1 DEF Cancels, Live
  <2>3. /\ handle' = handle /\ pc'["shutdown"] = pc["shutdown"]
        /\ target'["shutdown"] = target["shutdown"]
    BY <1>1, <1>7, ThreadKinds DEF CancelOperation
  <2> QED
    BY <1>1, <2>2, <2>3 DEF LiveAreHeld, Closer
<1>8. ASSUME NEW o \in Ops,
             \/ StartOperation(o) \/ FinishOperation(o)
      PROVE  LiveAreHeld'
  <2>1. state[o] \in Live /\ \A x \in Ops \ {o} : state'[x] = state[x]
    BY <1>1, <1>8 DEF StartOperation, CompleteLocked, WorkerShape, Live,
      FinishOperation
  <2>2. /\ handle' = handle /\ pc'["shutdown"] = pc["shutdown"]
        /\ target'["shutdown"] = target["shutdown"]
    BY <1>1, <1>8, ThreadKinds DEF StartOperation, FinishOperation
  <2> QED
    BY <1>1, <2>1, <2>2 DEF LiveAreHeld, Closer
<1>9. ASSUME NEW t \in Threads,
             \/ Drain(t) \/ HandlerThrows(t)
      PROVE  LiveAreHeld'
  <2>1. \/ pc' = [pc EXCEPT ![t] = After(t)]
        \/ pc' = [pc EXCEPT ![t] = "deliver"]
    BY <1>9 DEF Drain, HandlerThrows, DeliverMore
  <2>2. /\ UNCHANGED <<state, handle, target>>
        /\ pc[t] \in Delivering \cup {"drain"}
    BY <1>9 DEF Drain, Delivering, HandlerThrows
  <2>3. Closer => Closer' \/ target["shutdown"] = {}
    BY <1>1, <2>1, <2>2, ThreadKinds, AfterFacts DEF Closer, Delivering,
      ShutdownShape
  <2> QED
    BY <1>1, <2>2, <2>3 DEF LiveAreHeld
<1>10. ASSUME NEW t \in Threads, PickNotification(t) PROVE  LiveAreHeld'
  <2>1. \/ pc' = [pc EXCEPT ![t] = After(t)]
        \/ pc' = [pc EXCEPT ![t] = "handler"]
    BY <1>10 DEF PickNotification
  <2>2. /\ UNCHANGED <<state, handle, target>>
        /\ pc[t] \in Delivering \cup {"drain"}
    BY <1>10 DEF PickNotification, Delivering
  <2>3. Closer => Closer' \/ target["shutdown"] = {}
    BY <1>1, <2>1, <2>2, ThreadKinds, AfterFacts DEF Closer, Delivering,
      ShutdownShape
  <2> QED
    BY <1>1, <2>2, <2>3 DEF LiveAreHeld
<1>11. ASSUME NEW t \in Threads, JoinWorkers(t) PROVE  LiveAreHeld'
  <2>1. /\ UNCHANGED <<state, handle>>
        /\ \A o \in target[t] \cap Ops : pc[o] = "exited"
        /\ target' = [target EXCEPT ![t] = {}]
    BY <1>11 DEF JoinWorkers
  <2>2. \A o \in target[t] \cap Ops : state[o] \notin Live
    BY <1>1, <2>1 DEF WorkerShape
  <2>3. t # "shutdown" => /\ pc'["shutdown"] = pc["shutdown"]
                          /\ target'["shutdown"] = target["shutdown"]
    BY <1>1, <1>11, <2>1, ThreadKinds, JoinedFacts
  <2> QED
    BY <1>1, <2>1, <2>2, <2>3 DEF LiveAreHeld, Closer
<1>12. ASSUME Shutdown PROVE  LiveAreHeld'
  <2>1. PICK F \in SUBSET Ops : Cancels(F)
    BY <1>12, CancelSteps DEF Clocks
  <2>2. \A x \in Ops : state'[x] \in Live => state[x] \in Live
    BY <2>1 DEF Cancels, Live
  <2>3. ~Closer
    BY <1>12 DEF Shutdown, Closer, Delivering
  <2>4. \A x \in Ops : state[x] \in Live => handle[x] /\ x \in Retained
    BY <1>1, <2>3 DEF LiveAreHeld, Retained
  <2>5. /\ pc'["shutdown"] = "stop"
        /\ {x \in Retained : handle[x]} \subseteq target'["shutdown"]
    BY <1>1, <1>12, ThreadKinds DEF Shutdown
  <2> QED
    BY <2>2, <2>4, <2>5 DEF LiveAreHeld, Closer
<1> USE DEF LiveAreHeld, Closer, Delivering
<1>13. ASSUME NEW s \in Sessions, RemoveTimedOut(s) PROVE  LiveAreHeld'
  BY <1>1, <1>13, ThreadKinds DEF RemoveTimedOut
<1>14. ASSUME NEW r \in Requests, BeginRequest(r) PROVE  LiveAreHeld'
  BY <1>1, <1>14, ThreadKinds DEF BeginRequest
<1>15. ASSUME NEW r \in Requests, HandlerEnds(r) PROVE  LiveAreHeld'
  BY <1>1, <1>15, ThreadKinds DEF HandlerEnds
<1>16. ASSUME NEW r \in Requests, EndRequest(r) PROVE  LiveAreHeld'
  BY <1>1, <1>16, ThreadKinds DEF EndRequest
<1>17. ASSUME NEW r \in Requests, CreateSubscription(r) PROVE  LiveAreHeld'
  BY <1>1, <1>17, ThreadKinds DEF CreateSubscription
<1>18. ASSUME NEW r \in Requests, CancelSubscription(r) PROVE  LiveAreHeld'
  BY <1>1, <1>18, ThreadKinds DEF CancelSubscription
<1>19. ASSUME NEW o \in Ops, ReportProgress(o) PROVE  LiveAreHeld'
  BY <1>1, <1>19, ThreadKinds DEF ReportProgress
<1>20. ASSUME NEW o \in Ops, WorkerExited(o) PROVE  LiveAreHeld'
  BY <1>1, <1>20, ThreadKinds DEF WorkerExited
<1>21. ASSUME NEW t \in Threads, RequestStop(t) PROVE  LiveAreHeld'
  BY <1>1, <1>21, ThreadKinds DEF RequestStop
<1>22. ASSUME NEW t \in Threads, HandlerTakes(t) PROVE  LiveAreHeld'
  BY <1>1, <1>22, ThreadKinds DEF HandlerTakes, RetireSlot, DeliverMore
<1>23. ASSUME Publish PROVE  LiveAreHeld'
  BY <1>1, <1>23, ThreadKinds DEF Publish
<1>24. ASSUME FinalizeShutdown PROVE  LiveAreHeld'
  BY <1>1, <1>24, ThreadKinds DEF FinalizeShutdown
<1>25. ASSUME Destroy PROVE  LiveAreHeld'
  BY <1>1, <1>25, ThreadKinds DEF Destroy
<1>26. ASSUME NEW s \in Sessions, RegisterSession(s) PROVE  LiveAreHeld'
  BY <1>1, <1>26 DEF RegisterSession
<1>27. ASSUME \/ CloseRunSubscriptions \/ Destroyed
      PROVE  LiveAreHeld'
  BY <1>1, <1>27 DEF CloseRunSubscriptions, Destroyed, serviceVars
<1> QED
  BY <1>2, <1>3, <1>4, <1>5, <1>6, <1>7, <1>8, <1>9, <1>10, <1>11, <1>12,
    <1>13, <1>14, <1>15, <1>16, <1>17, <1>18, <1>19, <1>20, <1>21, <1>22,
    <1>23, <1>24, <1>25, <1>26, <1>27 DEF ServiceNext, SessionStep,
    RequestStep, WorkerStep, ThreadStep

\* ... and a worker that has not exited has somebody to join it.
LEMMA WorkersJoinedStep ==
  ASSUME TypeOK, Shape, Workers, ServiceNext
  PROVE  WorkersJoined'
<1>1. /\ DOMAIN pc = Threads /\ DOMAIN target = Threads
      /\ PcShape /\ ShutdownShape /\ WorkersJoined
      /\ phase \in {"kRunning", "kStopping", "kComplete"}
  BY DEF TypeOK, Shape, Workers
<1> USE DEF opVars, sessionVars, clockVars, noticeVars, boundVars, Go
<1>2. ASSUME NEW s \in Sessions,
             \/ RemoveSession(s) \/ RemoveTimedOut(s)
      PROVE  WorkersJoined'
  <2>1. \A x \in Ops : pc'[x] \notin {"idle", "exited"} =>
                         pc[x] \notin {"idle", "exited"}
    BY <1>1, <1>2, ThreadKinds DEF RemoveSession, RemoveTimedOut
  <2>2. \A x \in Requests \cup Sessions :
           pc[x] = "join" => pc'[x] = "join" /\ target'[x] = target[x]
    BY <1>1, <1>2, ThreadKinds DEF RemoveSession, RemoveTimedOut
  <2>3. Closer /\ target["shutdown"] # {} =>
           Closer' /\ target'["shutdown"] = target["shutdown"]
    BY <1>1, <1>2, ThreadKinds DEF RemoveSession, Closer, Delivering,
      RemoveTimedOut
  <2>4. handle' = handle
    BY <1>2 DEF RemoveSession, RemoveTimedOut
  <2> QED
    BY <1>1, <2>1, <2>2, <2>3, <2>4 DEF WorkersJoined, Joined
<1>3. ASSUME NEW s \in Sessions,
             \/ SessionRemoved(s) \/ SessionLost(s)
      PROVE  WorkersJoined'
  <2>1. /\ pc' = [pc EXCEPT ![s] = "join"]
        /\ handle' = [o \in Ops |-> handle[o] /\ o \notin OpsOf(s)]
        /\ target' = [target EXCEPT ![s] = {o \in OpsOf(s) : handle[o]}]
        /\ pc[s] = "wait"
    BY <1>3 DEF SessionRemoved, Take, SessionLost
  <2>2. /\ \A x \in Ops : pc'[x] = pc[x]
        /\ \A x \in Requests \cup Sessions : pc[x] = "join" =>
              pc'[x] = "join" /\ target'[x] = target[x]
        /\ pc'["shutdown"] = pc["shutdown"]
        /\ target'["shutdown"] = target["shutdown"]
        /\ pc'[s] = "join" /\ target'[s] = {o \in OpsOf(s) : handle[o]}
    BY <1>1, <2>1, ThreadKinds
  <2>3. \A x \in Ops : handle[x] => handle'[x] \/ x \in target'[s]
    BY <2>1, <2>2
  <2> QED
    BY <1>1, <2>2, <2>3 DEF WorkersJoined, Joined, Closer
<1>4. ASSUME NEW r \in Requests,
             \/ BeginRequest(r) \/ HandlerEnds(r) \/ EndRequest(r)
             \/ CreateSubscription(r) \/ CancelSubscription(r)
      PROVE  WorkersJoined'
  <2>1. \A x \in Ops : pc'[x] \notin {"idle", "exited"} =>
                         pc[x] \notin {"idle", "exited"}
    BY <1>1, <1>4, ThreadKinds DEF BeginRequest, HandlerEnds, DeliverMore,
      EndRequest, CreateSubscription, CancelSubscription
  <2>2. \A x \in Requests \cup Sessions :
           pc[x] = "join" => pc'[x] = "join" /\ target'[x] = target[x]
    BY <1>1, <1>4, ThreadKinds DEF BeginRequest, HandlerEnds, DeliverMore,
      EndRequest, CreateSubscription, CancelSubscription
  <2>3. Closer /\ target["shutdown"] # {} =>
           Closer' /\ target'["shutdown"] = target["shutdown"]
    BY <1>1, <1>4, ThreadKinds DEF BeginRequest, Closer, Delivering,
      HandlerEnds, DeliverMore, EndRequest, CreateSubscription,
      CancelSubscription
  <2>4. handle' = handle
    BY <1>4 DEF BeginRequest, HandlerEnds, EndRequest, CreateSubscription,
      CancelSubscription
  <2> QED
    BY <1>1, <2>1, <2>2, <2>3, <2>4 DEF WorkersJoined, Joined
<1>5. ASSUME NEW r \in Requests, SubmitWithoutThread(r) PROVE  WorkersJoined'
  <2>1. PICK gone \in Evictions : Take(r, Finished \cup gone)
    BY <1>5 DEF SubmitWithoutThread
  <2>2. /\ pc[r] = "inside" /\ target' = [target EXCEPT ![r] =
                                   {x \in Finished \cup gone : handle[x]}]
    BY <1>5, <2>1 DEF SubmitWithoutThread, SubmitAllowed, Take
  <2>3. /\ \A x \in Ops : pc'[x] = pc[x]
        /\ \A x \in Requests \cup Sessions : pc[x] = "join" =>
              pc'[x] = "join" /\ target'[x] = target[x]
        /\ pc'["shutdown"] = pc["shutdown"]
        /\ target'["shutdown"] = target["shutdown"]
        /\ pc'[r] = "join"
        /\ target'[r] = {x \in Finished \cup gone : handle[x]}
    BY <1>1, <1>5, <2>2, ThreadKinds DEF SubmitWithoutThread
  <2>4. \A x \in Ops : handle[x] => handle'[x] \/ x \in target'[r]
    BY <2>1, <2>3 DEF Take
  <2> QED
    BY <1>1, <2>3, <2>4 DEF WorkersJoined, Joined, Closer
<1>6. ASSUME NEW r \in Requests, SubmitFull(r) PROVE  WorkersJoined'
  <2>1. Take(r, Finished)
    BY <1>6 DEF SubmitFull
  <2>2. /\ pc[r] = "inside" /\ target' = [target EXCEPT ![r] =
                                   {x \in Finished : handle[x]}]
    BY <1>6, <2>1 DEF SubmitFull, SubmitAllowed, Take
  <2>3. /\ \A x \in Ops : pc'[x] = pc[x]
        /\ \A x \in Requests \cup Sessions : pc[x] = "join" =>
              pc'[x] = "join" /\ target'[x] = target[x]
        /\ pc'["shutdown"] = pc["shutdown"]
        /\ target'["shutdown"] = target["shutdown"]
        /\ pc'[r] = "join" /\ target'[r] = {x \in Finished : handle[x]}
    BY <1>1, <1>6, <2>2, ThreadKinds DEF SubmitFull
  <2>4. \A x \in Ops : handle[x] => handle'[x] \/ x \in target'[r]
    BY <2>1, <2>3 DEF Take
  <2> QED
    BY <1>1, <2>3, <2>4 DEF WorkersJoined, Joined, Closer
<1>7. ASSUME NEW r \in Requests, NEW o \in Ops, Submit(r, o)
      PROVE  WorkersJoined'
  <2>1. PICK gone \in Evictions :
          /\ handle' = [x \in Ops |-> x = o \/ (handle[x] /\
                                               x \notin Finished \cup gone)]
          /\ target' = [target EXCEPT ![r] = {x \in Finished \cup gone :
                                                handle[x]}]
    BY <1>7 DEF Submit
  <2>2. /\ pc[r] = "inside" /\ target' = [target EXCEPT ![r] =
                                   {x \in Finished \cup gone : handle[x]}]
    BY <1>7, <2>1 DEF Submit, SubmitAllowed, Take
  <2>3. /\ \A x \in Ops : x # o => pc'[x] = pc[x]
        /\ \A x \in Requests \cup Sessions : pc[x] = "join" =>
              pc'[x] = "join" /\ target'[x] = target[x]
        /\ pc'["shutdown"] = pc["shutdown"]
        /\ target'["shutdown"] = target["shutdown"]
        /\ pc'[r] = "join"
        /\ target'[r] = {x \in Finished \cup gone : handle[x]}
    BY <1>1, <1>7, <2>2, ThreadKinds DEF Submit
  <2>4. \A x \in Ops : handle[x] => handle'[x] \/ x \in target'[r]
    BY <2>1, <2>3 DEF Take
  <2>5. handle'[o]
    BY <2>1
  <2> QED
    BY <1>1, <2>3, <2>4, <2>5 DEF WorkersJoined, Joined, Closer
<1>8. ASSUME NEW r \in Requests, NEW o \in Ops, CancelOperation(r, o)
      PROVE  WorkersJoined'
  <2>1. \A x \in Ops : pc'[x] \notin {"idle", "exited"} =>
                         pc[x] \notin {"idle", "exited"}
    BY <1>1, <1>8, ThreadKinds DEF CancelOperation
  <2>2. \A x \in Requests \cup Sessions :
           pc[x] = "join" => pc'[x] = "join" /\ target'[x] = target[x]
    BY <1>1, <1>8, ThreadKinds DEF CancelOperation
  <2>3. Closer /\ target["shutdown"] # {} =>
           Closer' /\ target'["shutdown"] = target["shutdown"]
    BY <1>1, <1>8, ThreadKinds DEF CancelOperation, Closer, Delivering
  <2>4. handle' = handle
    BY <1>8 DEF CancelOperation
  <2> QED
    BY <1>1, <2>1, <2>2, <2>3, <2>4 DEF WorkersJoined, Joined
<1>9. ASSUME NEW o \in Ops,
             \/ StartOperation(o) \/ ReportProgress(o)
             \/ FinishOperation(o) \/ WorkerExited(o)
      PROVE  WorkersJoined'
  <2>1. \A x \in Ops : pc'[x] \notin {"idle", "exited"} =>
                         pc[x] \notin {"idle", "exited"}
    BY <1>1, <1>9, ThreadKinds DEF StartOperation, ReportProgress,
      FinishOperation, WorkerExited
  <2>2. \A x \in Requests \cup Sessions :
           pc[x] = "join" => pc'[x] = "join" /\ target'[x] = target[x]
    BY <1>1, <1>9, ThreadKinds DEF StartOperation, ReportProgress,
      FinishOperation, WorkerExited
  <2>3. Closer /\ target["shutdown"] # {} =>
           Closer' /\ target'["shutdown"] = target["shutdown"]
    BY <1>1, <1>9, ThreadKinds DEF StartOperation, Closer, Delivering,
      ReportProgress, FinishOperation, WorkerExited
  <2>4. handle' = handle
    BY <1>9 DEF StartOperation, ReportProgress, FinishOperation, WorkerExited
  <2> QED
    BY <1>1, <2>1, <2>2, <2>3, <2>4 DEF WorkersJoined, Joined
<1>10. ASSUME NEW t \in Threads,
             \/ RequestStop(t) \/ HandlerTakes(t)
      PROVE  WorkersJoined'
  <2>1. \A x \in Ops : pc'[x] \notin {"idle", "exited"} =>
                         pc[x] \notin {"idle", "exited"}
    BY <1>1, <1>10, ThreadKinds DEF RequestStop, HandlerTakes, DeliverMore
  <2>2. \A x \in Requests \cup Sessions :
           pc[x] = "join" => pc'[x] = "join" /\ target'[x] = target[x]
    BY <1>1, <1>10, ThreadKinds DEF RequestStop, HandlerTakes, DeliverMore
  <2>3. Closer /\ target["shutdown"] # {} =>
           Closer' /\ target'["shutdown"] = target["shutdown"]
    BY <1>1, <1>10, ThreadKinds DEF RequestStop, Closer, Delivering,
      HandlerTakes, DeliverMore
  <2>4. handle' = handle
    BY <1>10 DEF RequestStop, HandlerTakes
  <2> QED
    BY <1>1, <2>1, <2>2, <2>3, <2>4 DEF WorkersJoined, Joined
<1>11. ASSUME NEW t \in Threads,
              \/ Drain(t) \/ PickNotification(t) \/ HandlerThrows(t)
      PROVE  WorkersJoined'
  <2>1. \A x \in Ops : pc'[x] \notin {"idle", "exited"} =>
                         pc[x] \notin {"idle", "exited"}
    BY <1>1, <1>11, ThreadKinds, AfterFacts DEF Drain, PickNotification,
      HandlerThrows, DeliverMore
  <2>2. \A x \in Requests \cup Sessions :
           pc[x] = "join" => pc'[x] = "join" /\ target'[x] = target[x]
    BY <1>1, <1>11, ThreadKinds, AfterFacts DEF Drain, PickNotification,
      HandlerThrows, DeliverMore
  <2>3. Closer /\ target["shutdown"] # {} =>
           Closer' /\ target'["shutdown"] = target["shutdown"]
    BY <1>1, <1>11, ThreadKinds, AfterFacts DEF Drain, Closer, Delivering,
      ShutdownShape, PickNotification, HandlerThrows, DeliverMore
  <2>4. handle' = handle
    BY <1>11 DEF Drain, PickNotification, HandlerThrows
  <2> QED
    BY <1>1, <2>1, <2>2, <2>3, <2>4 DEF WorkersJoined, Joined
<1>12. ASSUME NEW t \in Threads, JoinWorkers(t) PROVE  WorkersJoined'
  <2>1. /\ handle' = handle /\ pc[t] = "join"
        /\ \A o \in target[t] \cap Ops : pc[o] = "exited"
        /\ target' = [target EXCEPT ![t] = {}]
    BY <1>12 DEF JoinWorkers
  <2>2. /\ \A x \in Threads : x # t => pc'[x] = pc[x] /\ target'[x] = target[x]
        /\ \A x \in Ops : pc'[x] = pc[x]
    BY <1>1, <1>12, <2>1, ThreadKinds, JoinedFacts
  <2>3. ASSUME NEW x \in Ops, x \notin target[t], Joined(x) PROVE Joined(x)'
    <3>1. CASE Closer /\ x \in target["shutdown"]
      <4>1. "shutdown" # t
        BY <2>3, <3>1
      <4> QED
        BY <2>2, <3>1, <4>1, ThreadKinds DEF Joined, Closer
    <3>2. CASE \E u \in Requests \cup Sessions :
                  pc[u] = "join" /\ x \in target[u]
      <4>1. PICK u \in Requests \cup Sessions :
                    pc[u] = "join" /\ x \in target[u]
        BY <3>2
      <4>2. u # t /\ u \in Threads
        BY <2>3, <4>1, ThreadKinds
      <4> QED
        BY <2>2, <4>1, <4>2 DEF Joined
    <3> QED
      BY <2>3, <3>1, <3>2 DEF Joined
  <2> QED
    BY <1>1, <2>1, <2>2, <2>3 DEF WorkersJoined
<1>13. ASSUME \/ Publish \/ FinalizeShutdown \/ Destroy
      PROVE  WorkersJoined'
  <2>1. \A x \in Ops : pc'[x] \notin {"idle", "exited"} =>
                         pc[x] \notin {"idle", "exited"}
    BY <1>1, <1>13, ThreadKinds DEF Publish, FinalizeShutdown, Destroy
  <2>2. \A x \in Requests \cup Sessions :
           pc[x] = "join" => pc'[x] = "join" /\ target'[x] = target[x]
    BY <1>1, <1>13, ThreadKinds DEF Publish, FinalizeShutdown, Destroy
  <2>3. Closer /\ target["shutdown"] # {} =>
           Closer' /\ target'["shutdown"] = target["shutdown"]
    BY <1>1, <1>13, ThreadKinds DEF Publish, Closer, Delivering,
      FinalizeShutdown, Destroy
  <2>4. handle' = handle
    BY <1>13 DEF Publish, FinalizeShutdown, Destroy
  <2> QED
    BY <1>1, <2>1, <2>2, <2>3, <2>4 DEF WorkersJoined, Joined
<1>14. ASSUME Shutdown PROVE  WorkersJoined'
  <2>1. /\ pc["shutdown"] = "idle" /\ pc' = [pc EXCEPT !["shutdown"] = "stop"]
        /\ target' = [target EXCEPT !["shutdown"] =
                        {o \in Retained : handle[o]} \cup registered]
    BY <1>14 DEF Shutdown
  <2>2. /\ \A x \in Ops : pc'[x] = pc[x]
        /\ \A x \in Requests \cup Sessions :
              pc'[x] = pc[x] /\ target'[x] = target[x]
        /\ pc'["shutdown"] = "stop"
        /\ {o \in Retained : handle[o]} \subseteq target'["shutdown"]
    BY <1>1, <2>1, ThreadKinds
  <2>3. \A x \in Ops : handle[x] => x \in target'["shutdown"]
    BY <2>2 DEF Workers, HandlesHeld
  <2>4. ~Closer
    BY <2>1 DEF Closer, Delivering
  <2> QED
    BY <1>1, <2>2, <2>3, <2>4 DEF WorkersJoined, Joined, Closer
<1> USE DEF WorkersJoined, Joined, Closer
<1>15. ASSUME NEW s \in Sessions, RegisterSession(s) PROVE  WorkersJoined'
  BY <1>1, <1>15 DEF RegisterSession
<1>16. ASSUME \/ CloseRunSubscriptions \/ Destroyed
      PROVE  WorkersJoined'
  BY <1>1, <1>16 DEF CloseRunSubscriptions, Destroyed, serviceVars
<1> QED
  BY <1>2, <1>3, <1>4, <1>5, <1>6, <1>7, <1>8, <1>9, <1>10, <1>11, <1>12,
    <1>13, <1>14, <1>15, <1>16 DEF ServiceNext, SessionStep, RequestStep,
    WorkerStep, ThreadStep


-----------------------------------------------------------------------------
(***************************************************************************)
(* The notifications, and the theorems: every step keeps the invariant,    *)
(* and what the service promises follows from it.                          *)
(***************************************************************************)

-----------------------------------------------------------------------------
(* The queue and who delivers from it.                                     *)

\* Every step leaves one entry of the queue for each key with a pending
\* notification.
LEMMA QueueStep ==
  ASSUME TypeOK, OneDelivers, Books, QueueShape, Clocks, InHand, ServiceNext
  PROVE  QueueKept
<1>1. ASSUME NEW s \in Sessions, RemoveSession(s) PROVE  QueueKept
  BY <1>1, CancelSteps DEF Clocks
<1>2. ASSUME NEW s \in Sessions, SessionRemoved(s) PROVE  QueueKept
  <2>1. slot' = [x \in Keys |-> IF x = s THEN 0 ELSE slot[x]]
    BY <1>2, ThreadKinds DEF SessionRemoved, EraseSession, TypeOK
  <2>2. order' = Without(s)
    BY <1>2 DEF SessionRemoved, EraseSession
  <2> QED
    BY <2>1, <2>2, DropFacts
<1>3. ASSUME NEW s \in Sessions, SessionLost(s) PROVE  QueueKept
  <2>1. PICK k \in {s, Nobody} :
          /\ slot' = [x \in Keys |-> IF x = k THEN 0 ELSE slot[x]]
          /\ order' = Without(k)
    BY <1>3 DEF SessionLost
  <2> QED
    BY <2>1, DropFacts
<1>4. ASSUME NEW r \in Requests, CreateSubscription(r) PROVE  QueueKept
  <2>1. slot' = [x \in Keys |-> IF x = SessionOf[r] THEN 0 ELSE slot[x]]
    BY <1>4, ThreadKinds DEF CreateSubscription, TypeOK
  <2>2. order' = Without(SessionOf[r])
    BY <1>4 DEF CreateSubscription
  <2> QED
    BY <2>1, <2>2, DropFacts
<1>5. ASSUME NEW r \in Requests, NEW o \in Ops, CancelOperation(r, o)
      PROVE  QueueKept
  BY <1>5, CancelSteps DEF Clocks
<1>6. ASSUME NEW o \in Ops,
             \/ StartOperation(o) \/ ReportProgress(o)
             \/ FinishOperation(o)
      PROVE  QueueKept
  BY <1>6, WorkerSteps DEF Clocks
<1>7. ASSUME NEW t \in Threads, PickNotification(t) PROVE  QueueKept
  <2>1. CASE UNCHANGED <<slot, order>>
    BY <2>1 DEF QueueKept, QueueShape, TypeOK
  <2>2. CASE ~UNCHANGED <<slot, order>>
    <3>1. /\ order # <<>> /\ order' = Tail(order)
          /\ slot' = [slot EXCEPT ![Head(order)] = 0]
      BY <1>7, <2>2 DEF PickNotification, TakeOut
    <3> QED
      BY <3>1, PopFacts
  <2> QED
    BY <2>1, <2>2
<1>8. ASSUME NEW t \in Threads, HandlerTakes(t) PROVE  QueueKept
  <2>1. CASE UNCHANGED <<slot, order>>
    BY <2>1 DEF QueueKept, QueueShape, TypeOK
  <2>2. CASE ~UNCHANGED <<slot, order>>
    <3> DEFINE k == inflight[t].key
    <3>1. /\ order' = Without(k) /\ slot' = [slot EXCEPT ![k] = 0]
      BY <1>8, <2>2 DEF HandlerTakes, RetireSlot
    <3>2. slot' = [x \in Keys |-> IF x = k THEN 0 ELSE slot[x]]
      BY <3>1 DEF TypeOK
    <3> HIDE DEF k
    <3> QED
      BY <3>1, <3>2, DropFacts
  <2> QED
    BY <2>1, <2>2
<1>9. ASSUME NEW t \in Threads, HandlerThrows(t) PROVE  QueueKept
  <2>1. CASE UNCHANGED <<slot, order>>
    BY <2>1 DEF QueueKept, QueueShape, TypeOK
  <2>2. CASE ~UNCHANGED <<slot, order>>
    <3> DEFINE k == inflight[t].key
    <3>1. /\ pc[t] = "handler" /\ k \in Ops /\ slot' = slot
          /\ order' = Append(Without(k), k)
      BY <1>9, <2>2 DEF HandlerThrows, noticeVars
    <3>2. inflight[t].sequence \in Nat /\ delivered[k] \in Nat
      BY <3>1 DEF TypeOK
    <3>3. slot[k] \in Nat /\ k \in Keys
      BY <3>1, ThreadKinds DEF TypeOK
    <3>4. slot[k] # 0
      BY <3>1, <3>2, <3>3 DEF InHand
    <3> HIDE DEF k
    <3> QED
      BY <3>1, <3>3, <3>4, RequeueFacts
  <2> QED
    BY <2>1, <2>2
<1>10. ASSUME Publish PROVE  QueueKept
  BY <1>10, PublishFacts DEF Books
<1>11. ASSUME Shutdown PROVE  QueueKept
  BY <1>11, CancelSteps DEF Clocks
<1> USE DEF QueueKept, QueueShape, TypeOK, opVars, sessionVars, clockVars,
  noticeVars, boundVars, Go
<1>12. ASSUME NEW s \in Sessions,
              \/ RegisterSession(s) \/ RemoveTimedOut(s)
      PROVE  QueueKept
  BY <1>12 DEF RegisterSession, RemoveTimedOut
<1>13. ASSUME NEW r \in Requests,
              \/ BeginRequest(r) \/ HandlerEnds(r) \/ EndRequest(r)
              \/ CancelSubscription(r) \/ SubmitWithoutThread(r)
              \/ SubmitFull(r)
      PROVE  QueueKept
  BY <1>13 DEF BeginRequest, HandlerEnds, EndRequest, CancelSubscription,
    SubmitWithoutThread, SubmitFull
<1>14. ASSUME NEW r \in Requests, NEW o \in Ops, Submit(r, o) PROVE  QueueKept
  BY <1>14 DEF Submit
<1>15. ASSUME NEW o \in Ops, WorkerExited(o) PROVE  QueueKept
  BY <1>15 DEF WorkerExited
<1>16. ASSUME NEW t \in Threads,
              \/ RequestStop(t) \/ Drain(t) \/ JoinWorkers(t)
      PROVE  QueueKept
  BY <1>16 DEF RequestStop, Drain, JoinWorkers
<1>17. ASSUME \/ CloseRunSubscriptions \/ FinalizeShutdown \/ Destroy
              \/ Destroyed
      PROVE  QueueKept
  BY <1>17 DEF CloseRunSubscriptions, FinalizeShutdown, Destroy, Destroyed,
    serviceVars
<1> QED
  BY <1>1, <1>2, <1>3, <1>4, <1>5, <1>6, <1>7, <1>8, <1>9, <1>10, <1>11,
    <1>12, <1>13, <1>14, <1>15, <1>16, <1>17 DEF ServiceNext, SessionStep,
    RequestStep, WorkerStep, ThreadStep

\* One thread at a time delivers.
LEMMA OneDeliversStep ==
  ASSUME TypeOK, Shape, OneDelivers, ServiceNext
  PROVE  OneDelivers'
<1>1. /\ DOMAIN pc = Threads /\ DOMAIN inflight = Threads /\ PcShape
      /\ Delivering = {"deliver", "handler"} /\ Nobody \notin Threads
  BY ThreadKinds DEF TypeOK, Shape, Delivering
<1> USE DEF opVars, sessionVars, clockVars, noticeVars, boundVars, Go
<1>2. ASSUME NEW s \in Sessions,
             \/ RemoveSession(s) \/ SessionRemoved(s) \/ SessionLost(s)
             \/ RemoveTimedOut(s)
      PROVE  OneDelivers'
  <2>1. \A x \in Threads : pc'[x] # pc[x] =>
           pc[x] \notin Delivering /\ pc'[x] \notin Delivering
    BY <1>1, <1>2, ThreadKinds DEF RemoveSession, SessionRemoved, SessionLost,
      RemoveTimedOut
  <2>2. UNCHANGED <<drainer, inflight>>
    BY <1>2 DEF RemoveSession, SessionRemoved, SessionLost, RemoveTimedOut
  <2> QED
    BY <1>1, <2>1, <2>2 DEF OneDelivers
<1>3. ASSUME NEW r \in Requests,
             \/ BeginRequest(r) \/ HandlerEnds(r) \/ EndRequest(r)
             \/ CreateSubscription(r) \/ CancelSubscription(r)
             \/ SubmitWithoutThread(r) \/ SubmitFull(r)
      PROVE  OneDelivers'
  <2>1. \A x \in Threads : pc'[x] # pc[x] =>
           pc[x] \notin Delivering /\ pc'[x] \notin Delivering
    BY <1>1, <1>3, ThreadKinds DEF BeginRequest, HandlerEnds, EndRequest,
      CreateSubscription, CancelSubscription, SubmitWithoutThread,
      SubmitAllowed, SubmitFull
  <2>2. UNCHANGED <<drainer, inflight>>
    BY <1>3 DEF BeginRequest, HandlerEnds, EndRequest, CreateSubscription,
      CancelSubscription, SubmitWithoutThread, SubmitFull
  <2> QED
    BY <1>1, <2>1, <2>2 DEF OneDelivers
<1>4. ASSUME NEW r \in Requests, NEW o \in Ops, Submit(r, o)
      PROVE  OneDelivers'
  <2>1. pc[r] = "inside" /\ pc[o] = "idle"
    BY <1>4 DEF Submit, SubmitAllowed, Shape, WorkerShape
  <2>2. \A x \in Threads : pc'[x] # pc[x] =>
           pc[x] \notin Delivering /\ pc'[x] \notin Delivering
    BY <1>1, <1>4, <2>1, ThreadKinds DEF Submit
  <2>3. UNCHANGED <<drainer, inflight>>
    BY <1>4 DEF Submit
  <2> QED
    BY <1>1, <2>2, <2>3 DEF OneDelivers
<1>5. ASSUME NEW r \in Requests, NEW o \in Ops, CancelOperation(r, o)
      PROVE  OneDelivers'
  <2>1. \A x \in Threads : pc'[x] # pc[x] =>
           pc[x] \notin Delivering /\ pc'[x] \notin Delivering
    BY <1>1, <1>5, ThreadKinds DEF CancelOperation
  <2>2. UNCHANGED <<drainer, inflight>>
    BY <1>5 DEF CancelOperation
  <2> QED
    BY <1>1, <2>1, <2>2 DEF OneDelivers
<1>6. ASSUME NEW o \in Ops,
             \/ StartOperation(o) \/ ReportProgress(o)
             \/ FinishOperation(o) \/ WorkerExited(o)
      PROVE  OneDelivers'
  <2>1. \A x \in Threads : pc'[x] # pc[x] =>
           pc[x] \notin Delivering /\ pc'[x] \notin Delivering
    BY <1>1, <1>6, ThreadKinds DEF StartOperation, ReportProgress,
      FinishOperation, WorkerExited
  <2>2. UNCHANGED <<drainer, inflight>>
    BY <1>6 DEF StartOperation, ReportProgress, FinishOperation, WorkerExited
  <2> QED
    BY <1>1, <2>1, <2>2 DEF OneDelivers
<1>7. ASSUME NEW t \in Threads, RequestStop(t) PROVE  OneDelivers'
  <2>1. \A x \in Threads : pc'[x] # pc[x] =>
           pc[x] \notin Delivering /\ pc'[x] \notin Delivering
    BY <1>1, <1>7, ThreadKinds DEF RequestStop
  <2>2. UNCHANGED <<drainer, inflight>>
    BY <1>7 DEF RequestStop
  <2> QED
    BY <1>1, <2>1, <2>2 DEF OneDelivers
<1>8. ASSUME NEW t \in Threads, Drain(t) PROVE  OneDelivers'
  <2>1. UNCHANGED inflight /\ pc[t] = "drain"
    BY <1>8 DEF Drain
  <2>2. \/ pc' = [pc EXCEPT ![t] = After(t)] /\ drainer' = drainer
        \/ /\ pc' = [pc EXCEPT ![t] = "deliver"] /\ drainer' = t
           /\ drainer = Nobody
    BY <1>8 DEF Drain
  <2>3. After(t) \notin Delivering
    BY <1>1, AfterFacts, ThreadKinds
  <2> QED
    BY <1>1, <2>1, <2>2, <2>3 DEF OneDelivers
<1>9. ASSUME NEW t \in Threads, PickNotification(t) PROVE  OneDelivers'
  <2>1. pc[t] = "deliver" /\ drainer = t
    BY <1>1, <1>9 DEF PickNotification, OneDelivers
  <2>2. After(t) \notin Delivering
    BY <1>1, AfterFacts, ThreadKinds
  <2>3. CASE order = <<>>
    <3>1. /\ pc' = [pc EXCEPT ![t] = After(t)] /\ drainer' = Nobody
          /\ inflight' = inflight
      BY <1>9, <2>3 DEF PickNotification
    <3> QED
      BY <1>1, <2>1, <2>2, <3>1 DEF OneDelivers
  <2>4. CASE order # <<>>
    <3>1. /\ pc' = [pc EXCEPT ![t] = "handler"] /\ drainer' = drainer
          /\ inflight' = [inflight EXCEPT ![t] =
                [key |-> Head(order), sequence |-> slot[Head(order)]]]
      BY <1>9, <2>4 DEF PickNotification
    <3>2. Head(order) \in Keys
      BY <2>4 DEF TypeOK
    <3>3. inflight'[t].key = Head(order)
      BY <1>1, <3>1
    <3>4. \A x \in Threads :
             x # t => inflight'[x] = inflight[x] /\ pc'[x] = pc[x]
      BY <1>1, <3>1
    <3>5. pc'[t] = "handler"
      BY <1>1, <3>1
    <3> QED
      BY <1>1, <2>1, <3>1, <3>2, <3>3, <3>4, <3>5 DEF OneDelivers
  <2> QED
    BY <2>3, <2>4
<1>10. ASSUME NEW t \in Threads,
             \/ HandlerTakes(t) \/ HandlerThrows(t)
      PROVE  OneDelivers'
  <2>1. pc[t] = "handler" /\ drainer = t
    BY <1>1, <1>10 DEF HandlerTakes, OneDelivers, HandlerThrows
  <2>2. After(t) \notin Delivering
    BY <1>1, AfterFacts, ThreadKinds
  <2>3. \/ pc' = [pc EXCEPT ![t] = After(t)] /\ drainer' = Nobody
        \/ pc' = [pc EXCEPT ![t] = "deliver"] /\ drainer' = drainer
    BY <1>10 DEF HandlerTakes, DeliverMore, HandlerThrows
  <2>4. inflight' = [inflight EXCEPT ![t] = Idle]
    BY <1>10 DEF HandlerTakes, HandlerThrows
  <2>5. /\ inflight'[t] = Idle
        /\ \A x \in Threads :
              x # t => inflight'[x] = inflight[x] /\ pc'[x] = pc[x]
    BY <1>1, <2>3, <2>4
  <2> QED
    BY <1>1, <2>1, <2>2, <2>3, <2>5 DEF OneDelivers
<1>11. ASSUME NEW t \in Threads, JoinWorkers(t) PROVE  OneDelivers'
  <2>1. \A x \in Threads : pc'[x] # pc[x] =>
           pc[x] \notin Delivering /\ pc'[x] \notin Delivering
    <3>1. PICK where \in {"leave", "removed", "wait"} :
             pc' = [pc EXCEPT ![t] = where]
      BY <1>1, <1>11, JoinedFacts
    <3>2. pc[t] = "join"
      BY <1>11 DEF JoinWorkers
    <3> QED
      BY <1>1, <3>1, <3>2
  <2>2. UNCHANGED <<drainer, inflight>>
    BY <1>11 DEF JoinWorkers
  <2> QED
    BY <1>1, <2>1, <2>2 DEF OneDelivers
<1>12. ASSUME \/ Publish \/ Shutdown \/ FinalizeShutdown \/ Destroy
      PROVE  OneDelivers'
  <2>1. \A x \in Threads : pc'[x] # pc[x] =>
           pc[x] \notin Delivering /\ pc'[x] \notin Delivering
    BY <1>1, <1>12, ThreadKinds DEF Publish, Shutdown, FinalizeShutdown,
      Destroy
  <2>2. UNCHANGED <<drainer, inflight>>
    BY <1>12 DEF Publish, Shutdown, FinalizeShutdown, Destroy
  <2> QED
    BY <1>1, <2>1, <2>2 DEF OneDelivers
<1> USE DEF OneDelivers
<1>13. ASSUME NEW s \in Sessions, RegisterSession(s) PROVE  OneDelivers'
  BY <1>1, <1>13 DEF RegisterSession
<1>14. ASSUME \/ CloseRunSubscriptions \/ Destroyed
      PROVE  OneDelivers'
  BY <1>1, <1>14 DEF CloseRunSubscriptions, Destroyed, serviceVars
<1> QED
  BY <1>2, <1>3, <1>4, <1>5, <1>6, <1>7, <1>8, <1>9, <1>10, <1>11, <1>12,
    <1>13, <1>14 DEF ServiceNext, SessionStep, RequestStep, WorkerStep,
    ThreadStep

\* No sequence is ahead of the clock, and the record knows what was heard.
LEMMA ClockStep ==
  ASSUME TypeOK, Books, QueueShape, OneDelivers, Clocks, InHand,
         QueueHoldsWhatIsUnheard, ServiceNext
  PROVE  Clocks'
<1>1. /\ sequence \in [Ops -> Nat] /\ delivered \in [Ops -> Nat]
      /\ heard \in [Keys -> Nat] /\ slot \in [Keys -> Nat]
      /\ nextState \in Nat /\ published \in Nat
  BY ServiceAssumption DEF TypeOK
<1> USE DEF opVars, sessionVars, clockVars, noticeVars, boundVars, Go
<1>2. ASSUME NEW s \in Sessions, RemoveSession(s) PROVE  Clocks'
  <2>1. PICK F \in SUBSET Ops : Cancels(F)
    BY <1>2, CancelSteps DEF Clocks
  <2>2. UNCHANGED <<heard, delivered, published>>
    BY <1>2 DEF RemoveSession
  <2>3. \A x \in Sessions : slot'[x] = slot[x]
    BY <2>1, ThreadKinds DEF Cancels, Advanced
  <2>4. nextState' \in Nat /\ nextState' >= nextState
    BY <2>1 DEF Cancels, Advanced
  <2>5. \A o \in Ops : sequence'[o] < nextState'
    BY <1>1, <2>1 DEF Cancels, Advanced, Clocks
  <2> QED
    BY <1>1, <2>2, <2>3, <2>4, <2>5 DEF Clocks
<1>3. ASSUME NEW s \in Sessions,
             \/ SessionRemoved(s) \/ SessionLost(s)
      PROVE  Clocks'
  <2>1. \A x \in Sessions : slot'[x] = slot[x] \/ slot'[x] = 0
    BY <1>1, <1>3, ThreadKinds DEF SessionRemoved, EraseSession, SessionLost
  <2> QED
    BY <1>1, <1>3, <2>1, ThreadKinds DEF SessionRemoved, Clocks, SessionLost
<1>4. ASSUME NEW r \in Requests, CreateSubscription(r) PROVE  Clocks'
  <2>1. \A s \in Sessions : slot'[s] = slot[s] \/ slot'[s] = 0
    BY <1>1, <1>4, ThreadKinds DEF CreateSubscription
  <2> QED
    BY <1>1, <1>4, <2>1, ThreadKinds DEF CreateSubscription, Clocks
<1>5. ASSUME NEW r \in Requests, NEW o \in Ops, CancelOperation(r, o)
      PROVE  Clocks'
  <2>1. PICK F \in SUBSET Ops : Cancels(F)
    BY <1>5, CancelSteps DEF Clocks
  <2>2. UNCHANGED <<heard, delivered, published>>
    BY <1>5 DEF CancelOperation
  <2>3. \A s \in Sessions : slot'[s] = slot[s]
    BY <2>1, ThreadKinds DEF Cancels, Advanced
  <2>4. nextState' \in Nat /\ nextState' >= nextState
    BY <2>1 DEF Cancels, Advanced
  <2>5. \A p \in Ops : sequence'[p] < nextState'
    BY <1>1, <2>1 DEF Cancels, Advanced, Clocks
  <2> QED
    BY <1>1, <2>2, <2>3, <2>4, <2>5 DEF Clocks
<1>6. ASSUME NEW o \in Ops,
             \/ StartOperation(o) \/ ReportProgress(o)
             \/ FinishOperation(o)
      PROVE  Clocks'
  <2>1. Advanced({o})
    BY <1>6, WorkerSteps DEF Clocks
  <2>2. UNCHANGED <<heard, delivered, published>>
    BY <1>6 DEF StartOperation, ReportProgress, FinishOperation
  <2>3. \A s \in Sessions : slot'[s] = slot[s]
    BY <2>1, ThreadKinds DEF Advanced
  <2>4. nextState' \in Nat /\ nextState' >= nextState
    BY <2>1 DEF Advanced
  <2>5. \A x \in Ops : sequence'[x] < nextState'
    BY <1>1, <2>1 DEF Advanced, Clocks
  <2> QED
    BY <1>1, <2>2, <2>3, <2>4, <2>5 DEF Clocks
<1>7. ASSUME NEW t \in Threads, PickNotification(t) PROVE  Clocks'
  <2>1. \A s \in Sessions : slot'[s] = slot[s] \/ slot'[s] = 0
    BY <1>1, <1>7, ThreadKinds DEF PickNotification, TakeOut
  <2> QED
    BY <1>1, <1>7, <2>1, ThreadKinds DEF PickNotification, Clocks
<1>8. ASSUME NEW t \in Threads, HandlerTakes(t) PROVE  Clocks'
  <2> DEFINE k == inflight[t].key
             n == inflight[t].sequence
  <2>1. /\ pc[t] = "handler" /\ k \in Keys /\ n \in Nat
    BY <1>8 DEF HandlerTakes, OneDelivers, TypeOK
  <2>2. /\ heard' = [heard EXCEPT ![k] = n]
        /\ UNCHANGED <<sequence, nextState, published>>
    BY <1>8 DEF HandlerTakes
  <2>3. CASE k \in Ops
    <3>1. /\ delivered[k] < n /\ n <= slot[k] /\ slot[k] \in Nat
          /\ k \notin Sessions /\ delivered[k] \in Nat
      BY <1>1, <2>1, <2>3, ThreadKinds DEF InHand
    <3>2. slot[k] # 0
      BY <2>1, <3>1
    <3>3. slot[k] = sequence[k] /\ k \in Retained
      BY <2>3, <3>2 DEF QueueHoldsWhatIsUnheard, Retained, TypeOK
    <3>4. delivered' = [delivered EXCEPT ![k] = n]
      BY <1>8, <2>3, <3>1, <3>3 DEF HandlerTakes
    <3>5. n < nextState
      BY <1>1, <2>1, <2>3, <3>1, <3>3 DEF Clocks
    <3>6. \A s \in Sessions : slot'[s] = slot[s] /\ heard'[s] = heard[s]
      BY <1>1, <1>8, <2>2, <3>1, ThreadKinds DEF HandlerTakes, RetireSlot
    <3> HIDE DEF k, n
    <3>7. \A o \in Ops : heard'[o] = delivered'[o] /\ delivered'[o] < nextState
      BY <1>1, <2>1, <2>2, <3>4, <3>5, ThreadKinds DEF Clocks
    <3> QED
      BY <1>1, <2>2, <3>6, <3>7 DEF Clocks
  <2>4. CASE k \in Sessions
    <3>1. heard[k] < n /\ n <= published /\ (slot[k] # 0 => n < slot[k])
      BY <2>1, <2>4 DEF InHand
    <3>2. UNCHANGED <<slot, delivered>>
      BY <1>8, <2>4, ThreadKinds DEF HandlerTakes
    <3> HIDE DEF k, n
    <3>3. \A o \in Ops : heard'[o] = heard[o]
      BY <1>1, <2>2, <2>4, ThreadKinds
    <3>4. \A s \in Sessions : /\ heard'[s] <= published
                              /\ slot[s] # 0 => heard'[s] < slot[s]
      BY <1>1, <2>1, <2>2, <2>4, <3>1, ThreadKinds DEF Clocks
    <3> QED
      BY <1>1, <2>2, <3>2, <3>3, <3>4 DEF Clocks
  <2> QED
    BY <2>1, <2>3, <2>4, ThreadKinds
<1>9. ASSUME Publish PROVE  Clocks'
  <2>1. PICK hits \in SUBSET registered : slot' =
            [k \in Keys |-> IF k \in hits THEN published + 1 ELSE slot[k]]
    BY <1>9, PublishFacts DEF Books
  <2>2. /\ published' = published + 1
        /\ UNCHANGED <<heard, delivered, sequence, nextState>>
    BY <1>9 DEF Publish
  <2>3. \A s \in Sessions : slot'[s] = slot[s] \/ slot'[s] = published + 1
    BY <2>1, ThreadKinds
  <2> QED
    BY <1>1, <2>2, <2>3, ThreadKinds DEF Clocks
<1>10. ASSUME Shutdown PROVE  Clocks'
  <2>1. PICK F \in SUBSET Ops : Cancels(F)
    BY <1>10, CancelSteps DEF Clocks
  <2>2. UNCHANGED <<heard, delivered, published>>
    BY <1>10 DEF Shutdown
  <2>3. \A s \in Sessions : slot'[s] = slot[s]
    BY <2>1, ThreadKinds DEF Cancels, Advanced
  <2>4. nextState' \in Nat /\ nextState' >= nextState
    BY <2>1 DEF Cancels, Advanced
  <2>5. \A o \in Ops : sequence'[o] < nextState'
    BY <1>1, <2>1 DEF Cancels, Advanced, Clocks
  <2> QED
    BY <1>1, <2>2, <2>3, <2>4, <2>5 DEF Clocks
<1> USE DEF Clocks
<1>11. ASSUME NEW r \in Requests, SubmitWithoutThread(r) PROVE  Clocks'
  BY <1>1, <1>11, ThreadKinds DEF SubmitWithoutThread, SubmitAllowed, Take
<1>12. ASSUME NEW r \in Requests, NEW o \in Ops, Submit(r, o) PROVE  Clocks'
  BY <1>1, <1>12, ThreadKinds DEF Submit, SubmitAllowed
<1>13. ASSUME NEW s \in Sessions,
              \/ RegisterSession(s) \/ RemoveTimedOut(s)
      PROVE  Clocks'
  BY <1>1, <1>13 DEF RegisterSession, RemoveTimedOut
<1>14. ASSUME NEW r \in Requests,
              \/ BeginRequest(r) \/ HandlerEnds(r) \/ EndRequest(r)
              \/ CancelSubscription(r) \/ SubmitFull(r)
      PROVE  Clocks'
  BY <1>1, <1>14 DEF BeginRequest, HandlerEnds, EndRequest,
    CancelSubscription, SubmitFull
<1>15. ASSUME NEW o \in Ops, WorkerExited(o) PROVE  Clocks'
  BY <1>1, <1>15 DEF WorkerExited
<1>16. ASSUME NEW t \in Threads,
              \/ RequestStop(t) \/ Drain(t) \/ HandlerThrows(t)
              \/ JoinWorkers(t)
      PROVE  Clocks'
  BY <1>1, <1>16 DEF RequestStop, Drain, HandlerThrows, JoinWorkers
<1>17. ASSUME \/ CloseRunSubscriptions \/ FinalizeShutdown \/ Destroy
              \/ Destroyed
      PROVE  Clocks'
  BY <1>1, <1>17 DEF CloseRunSubscriptions, FinalizeShutdown, Destroy,
    Destroyed, serviceVars
<1> QED
  BY <1>2, <1>3, <1>4, <1>5, <1>6, <1>7, <1>8, <1>9, <1>10, <1>11, <1>12,
    <1>13, <1>14, <1>15, <1>16, <1>17 DEF ServiceNext, SessionStep,
    RequestStep, WorkerStep, ThreadStep

\* What is pending of an operation only gets newer while it advances.
LEMMA AdvancedSlots ==
  ASSUME TypeOK, Clocks, QueueHoldsWhatIsUnheard,
         NEW F \in SUBSET Ops, Advanced(F)
  PROVE  /\ \A o \in Ops : slot'[o] >= slot[o] /\ slot'[o] \in Nat
         /\ \A s \in Sessions : slot'[s] = slot[s]
<1>1. /\ sequence \in [Ops -> Nat] /\ slot \in [Keys -> Nat]
      /\ nextState \in Nat /\ sequence' \in [Ops -> Nat]
  BY DEF TypeOK, Advanced
<1>2. ASSUME NEW o \in Ops PROVE slot'[o] >= slot[o] /\ slot'[o] \in Nat
  <2>1. slot[o] \in Nat /\ slot[o] <= nextState
    <3>1. slot[o] = 0 \/ slot[o] = sequence[o]
      BY DEF QueueHoldsWhatIsUnheard
    <3> QED
      BY <1>1, <3>1 DEF Clocks
  <2>2. CASE o \in F
    BY <1>1, <2>1, <2>2 DEF Advanced
  <2>3. CASE o \notin F
    BY <2>1, <2>3, ThreadKinds DEF Advanced
  <2> QED
    BY <2>2, <2>3
<1>3. \A s \in Sessions : slot'[s] = slot[s]
  BY ThreadKinds DEF Advanced
<1> QED
  BY <1>2, <1>3

\* What the handler is given is newer than what it had, and stays pending.
LEMMA InHandStep ==
  ASSUME TypeOK, Shape, Books, QueueShape, OneDelivers, Clocks, InHand,
         QueueHoldsWhatIsUnheard, ServiceNext
  PROVE  InHand'
<1>1. /\ DOMAIN pc = Threads /\ DOMAIN inflight = Threads /\ PcShape
      /\ delivered \in [Ops -> Nat] /\ heard \in [Keys -> Nat]
      /\ slot \in [Keys -> Nat] /\ published \in Nat
      /\ \A t \in Threads : inflight[t].sequence \in Nat
  BY ServiceAssumption DEF TypeOK, Shape
<1> USE DEF opVars, sessionVars, clockVars, noticeVars, boundVars, Go
<1>2. ASSUME NEW s \in Sessions, RemoveSession(s) PROVE  InHand'
  <2>1. PICK F \in SUBSET Ops : Cancels(F)
    BY <1>2, CancelSteps DEF Clocks
  <2>2. Advanced(F)
    BY <2>1 DEF Cancels
  <2>3. /\ \A o \in Ops : slot'[o] >= slot[o] /\ slot'[o] \in Nat
        /\ \A x \in Sessions : slot'[x] = slot[x]
    BY <2>2, AdvancedSlots
  <2>4. \A x \in Threads : pc'[x] = "handler" => pc[x] = "handler"
    BY <1>1, <1>2, ThreadKinds DEF RemoveSession
  <2>5. UNCHANGED <<inflight, delivered, heard, published>>
    BY <1>2 DEF RemoveSession
  <2> QED
    BY <1>1, <2>3, <2>4, <2>5, ThreadKinds DEF InHand
<1>3. ASSUME NEW s \in Sessions,
             \/ SessionRemoved(s) \/ SessionLost(s) \/ RemoveTimedOut(s)
      PROVE  InHand'
  <2>1. \A x \in Threads : pc'[x] = "handler" => pc[x] = "handler"
    BY <1>1, <1>3, ThreadKinds DEF SessionRemoved, SessionLost, RemoveTimedOut
  <2>2. UNCHANGED <<inflight, delivered, heard, published>>
    BY <1>3 DEF SessionRemoved, SessionLost, RemoveTimedOut
  <2>3. /\ \A x \in Ops : slot'[x] = slot[x]
        /\ \A x \in Sessions : slot'[x] = slot[x] \/ slot'[x] = 0
    BY <1>1, <1>3, ThreadKinds DEF SessionRemoved, EraseSession, SessionLost,
      RemoveTimedOut
  <2> QED
    BY <1>1, <2>1, <2>2, <2>3, ThreadKinds DEF InHand
<1>4. ASSUME NEW r \in Requests,
             \/ BeginRequest(r) \/ HandlerEnds(r) \/ EndRequest(r)
             \/ CreateSubscription(r) \/ CancelSubscription(r)
             \/ SubmitWithoutThread(r) \/ SubmitFull(r)
      PROVE  InHand'
  <2>1. \A x \in Threads : pc'[x] = "handler" => pc[x] = "handler"
    BY <1>1, <1>4, ThreadKinds DEF BeginRequest, HandlerEnds, DeliverMore,
      EndRequest, CreateSubscription, CancelSubscription, SubmitWithoutThread,
      SubmitFull
  <2>2. UNCHANGED <<inflight, delivered, heard, published>>
    BY <1>4 DEF BeginRequest, HandlerEnds, EndRequest, CreateSubscription,
      CancelSubscription, SubmitWithoutThread, SubmitFull
  <2>3. /\ \A x \in Ops : slot'[x] = slot[x]
        /\ \A x \in Sessions : slot'[x] = slot[x] \/ slot'[x] = 0
    BY <1>1, <1>4, ThreadKinds DEF BeginRequest, HandlerEnds, EndRequest,
      CreateSubscription, CancelSubscription, SubmitWithoutThread, SubmitFull
  <2> QED
    BY <1>1, <2>1, <2>2, <2>3, ThreadKinds DEF InHand
<1>5. ASSUME NEW r \in Requests, NEW o \in Ops, Submit(r, o) PROVE  InHand'
  <2>1. \A x \in Threads : pc'[x] = "handler" => pc[x] = "handler"
    BY <1>1, <1>5, ThreadKinds DEF Submit
  <2>2. UNCHANGED <<inflight, delivered, heard, published>>
    BY <1>5 DEF Submit
  <2>3. /\ \A x \in Ops : slot'[x] = slot[x]
        /\ \A x \in Sessions : slot'[x] = slot[x] \/ slot'[x] = 0
    BY <1>1, <1>5, ThreadKinds DEF Submit
  <2> QED
    BY <1>1, <2>1, <2>2, <2>3, ThreadKinds DEF InHand
<1>6. ASSUME NEW r \in Requests, NEW o \in Ops, CancelOperation(r, o)
      PROVE  InHand'
  <2>1. PICK F \in SUBSET Ops : Cancels(F)
    BY <1>6, CancelSteps DEF Clocks
  <2>2. Advanced(F)
    BY <2>1 DEF Cancels
  <2>3. /\ \A x \in Ops : slot'[x] >= slot[x] /\ slot'[x] \in Nat
        /\ \A x \in Sessions : slot'[x] = slot[x]
    BY <2>2, AdvancedSlots
  <2>4. \A x \in Threads : pc'[x] = "handler" => pc[x] = "handler"
    BY <1>1, <1>6, ThreadKinds DEF CancelOperation
  <2>5. UNCHANGED <<inflight, delivered, heard, published>>
    BY <1>6 DEF CancelOperation
  <2> QED
    BY <1>1, <2>3, <2>4, <2>5, ThreadKinds DEF InHand
<1>7. ASSUME NEW o \in Ops,
             \/ StartOperation(o) \/ ReportProgress(o)
             \/ FinishOperation(o)
      PROVE  InHand'
  <2>1. PICK F \in SUBSET Ops : F = {o}
    OBVIOUS
  <2>2. Advanced(F)
    BY <1>7, <2>1, WorkerSteps DEF Clocks
  <2>3. /\ \A x \in Ops : slot'[x] >= slot[x] /\ slot'[x] \in Nat
        /\ \A x \in Sessions : slot'[x] = slot[x]
    BY <2>2, AdvancedSlots
  <2>4. \A x \in Threads : pc'[x] = "handler" => pc[x] = "handler"
    BY <1>1, <1>7, ThreadKinds DEF StartOperation, ReportProgress,
      FinishOperation
  <2>5. UNCHANGED <<inflight, delivered, heard, published>>
    BY <1>7 DEF StartOperation, ReportProgress, FinishOperation
  <2> QED
    BY <1>1, <2>3, <2>4, <2>5, ThreadKinds DEF InHand
<1>8. ASSUME NEW o \in Ops, WorkerExited(o) PROVE  InHand'
  <2>1. \A x \in Threads : pc'[x] = "handler" => pc[x] = "handler"
    BY <1>1, <1>8, ThreadKinds DEF WorkerExited
  <2>2. UNCHANGED <<inflight, delivered, heard, published>>
    BY <1>8 DEF WorkerExited
  <2>3. /\ \A x \in Ops : slot'[x] = slot[x]
        /\ \A x \in Sessions : slot'[x] = slot[x] \/ slot'[x] = 0
    BY <1>1, <1>8, ThreadKinds DEF WorkerExited
  <2> QED
    BY <1>1, <2>1, <2>2, <2>3, ThreadKinds DEF InHand
<1>9. ASSUME NEW t \in Threads, RequestStop(t) PROVE  InHand'
  <2>1. \A x \in Threads : pc'[x] = "handler" => pc[x] = "handler"
    BY <1>1, <1>9, ThreadKinds DEF RequestStop
  <2>2. UNCHANGED <<inflight, delivered, heard, published>>
    BY <1>9 DEF RequestStop
  <2>3. /\ \A x \in Ops : slot'[x] = slot[x]
        /\ \A x \in Sessions : slot'[x] = slot[x] \/ slot'[x] = 0
    BY <1>1, <1>9, ThreadKinds DEF RequestStop
  <2> QED
    BY <1>1, <2>1, <2>2, <2>3, ThreadKinds DEF InHand
<1>10. ASSUME NEW t \in Threads, Drain(t) PROVE  InHand'
  <2>1. \A x \in Threads : pc'[x] = "handler" => pc[x] = "handler"
    <3>1. After(t) # "handler"
      BY AfterFacts, ThreadKinds
    <3> QED
      BY <1>1, <1>10, <3>1 DEF Drain
  <2>2. UNCHANGED <<inflight, delivered, heard, published>>
    BY <1>10 DEF Drain
  <2>3. /\ \A x \in Ops : slot'[x] = slot[x]
        /\ \A x \in Sessions : slot'[x] = slot[x] \/ slot'[x] = 0
    BY <1>1, <1>10, ThreadKinds DEF Drain
  <2> QED
    BY <1>1, <2>1, <2>2, <2>3, ThreadKinds DEF InHand
<1>11. ASSUME NEW t \in Threads, PickNotification(t) PROVE  InHand'
  <2>1. \A x \in Threads : x # t => pc[x] # "handler"
    BY <1>11 DEF PickNotification, OneDelivers, Delivering
  <2>2. CASE order = <<>>
    <3>1. After(t) # "handler"
      BY AfterFacts, ThreadKinds
    <3>2. \A x \in Threads : pc'[x] # "handler"
      BY <1>1, <1>11, <2>1, <2>2, <3>1 DEF PickNotification
    <3> QED
      BY <3>2 DEF InHand
  <2>3. CASE order # <<>>
    <3> DEFINE k == Head(order)
    <3>1. /\ inflight' = [inflight EXCEPT ![t] =
                            [key |-> k, sequence |-> slot[k]]]
          /\ TakeOut(k) /\ pc' = [pc EXCEPT ![t] = "handler"]
          /\ UNCHANGED <<delivered, heard, published>>
      BY <1>11, <2>3 DEF PickNotification
    <3>2. k \in Keys /\ k \in Entries(order)
      BY <2>3, TailEntries DEF QueueShape, TypeOK
    <3>3. slot[k] # 0 /\ slot[k] \in Nat
      BY <1>1, <3>2 DEF QueueShape
    <3> HIDE DEF k
    <3>4. /\ inflight'[t].key = k /\ inflight'[t].sequence = slot[k]
          /\ \A x \in Threads : x # t => pc'[x] # "handler"
      BY <1>1, <2>1, <3>1
    <3>5. CASE k \in Ops
      <4>1. slot' = slot /\ delivered[k] < slot[k] /\ k \notin Sessions
        BY <3>1, <3>3, <3>5, ThreadKinds DEF TakeOut, QueueHoldsWhatIsUnheard
      <4> QED
        BY <1>1, <3>1, <3>3, <3>4, <3>5, <4>1 DEF InHand
    <3>6. CASE k \in Sessions
      <4>1. slot'[k] = 0 /\ k \notin Ops
        BY <1>1, <3>1, <3>2, <3>6, ThreadKinds DEF TakeOut
      <4>2. heard[k] < slot[k] /\ slot[k] <= published
        BY <3>3, <3>6 DEF Clocks
      <4> QED
        BY <3>1, <3>4, <3>6, <4>1, <4>2 DEF InHand
    <3> QED
      BY <3>2, <3>5, <3>6, ThreadKinds
  <2> QED
    BY <2>2, <2>3
<1>12. ASSUME NEW t \in Threads,
              \/ HandlerTakes(t) \/ HandlerThrows(t)
      PROVE  InHand'
  <2>1. \A x \in Threads : x # t => pc[x] # "handler"
    BY <1>12 DEF HandlerTakes, OneDelivers, Delivering, HandlerThrows
  <2>2. After(t) # "handler"
    BY AfterFacts, ThreadKinds
  <2>3. \A x \in Threads : pc'[x] # "handler"
    BY <1>1, <1>12, <2>1, <2>2 DEF HandlerTakes, DeliverMore, HandlerThrows
  <2> QED
    BY <2>3 DEF InHand
<1>13. ASSUME NEW t \in Threads, JoinWorkers(t) PROVE  InHand'
  <2>1. \A x \in Threads : pc'[x] = "handler" => pc[x] = "handler"
    <3>1. PICK where \in {"leave", "removed", "wait"} :
             pc' = [pc EXCEPT ![t] = where]
      BY <1>1, <1>13, JoinedFacts
    <3> QED
      BY <1>1, <3>1
  <2>2. UNCHANGED <<inflight, delivered, heard, published>>
    BY <1>13 DEF JoinWorkers
  <2>3. /\ \A x \in Ops : slot'[x] = slot[x]
        /\ \A x \in Sessions : slot'[x] = slot[x] \/ slot'[x] = 0
    BY <1>1, <1>13, ThreadKinds DEF JoinWorkers
  <2> QED
    BY <1>1, <2>1, <2>2, <2>3, ThreadKinds DEF InHand
<1>14. ASSUME Publish PROVE  InHand'
  <2>1. PICK hits \in SUBSET registered : slot' =
            [k \in Keys |-> IF k \in hits THEN published + 1 ELSE slot[k]]
    BY <1>14, PublishFacts DEF Books
  <2>2. hits \subseteq Sessions
    BY DEF TypeOK
  <2>3. /\ \A x \in Ops : slot'[x] = slot[x]
        /\ \A x \in Sessions : slot'[x] = slot[x] \/ slot'[x] = published + 1
    BY <2>1, <2>2, ThreadKinds
  <2>4. published' = published + 1 /\ UNCHANGED <<inflight, delivered, heard>>
    BY <1>14 DEF Publish
  <2>5. \A x \in Threads : pc'[x] = "handler" => pc[x] = "handler"
    BY <1>1, <1>14, ThreadKinds DEF Publish
  <2> QED
    BY <1>1, <2>3, <2>4, <2>5, ThreadKinds DEF InHand
<1>15. ASSUME Shutdown PROVE  InHand'
  <2>1. PICK F \in SUBSET Ops : Cancels(F)
    BY <1>15, CancelSteps DEF Clocks
  <2>2. Advanced(F)
    BY <2>1 DEF Cancels
  <2>3. /\ \A o \in Ops : slot'[o] >= slot[o] /\ slot'[o] \in Nat
        /\ \A x \in Sessions : slot'[x] = slot[x]
    BY <2>2, AdvancedSlots
  <2>4. \A x \in Threads : pc'[x] = "handler" => pc[x] = "handler"
    BY <1>1, <1>15, ThreadKinds DEF Shutdown
  <2>5. UNCHANGED <<inflight, delivered, heard, published>>
    BY <1>15 DEF Shutdown
  <2> QED
    BY <1>1, <2>3, <2>4, <2>5, ThreadKinds DEF InHand
<1>16. ASSUME \/ FinalizeShutdown \/ Destroy
      PROVE  InHand'
  <2>1. \A x \in Threads : pc'[x] = "handler" => pc[x] = "handler"
    BY <1>1, <1>16, ThreadKinds DEF FinalizeShutdown, Destroy
  <2>2. UNCHANGED <<inflight, delivered, heard, published>>
    BY <1>16 DEF FinalizeShutdown, Destroy
  <2>3. /\ \A x \in Ops : slot'[x] = slot[x]
        /\ \A x \in Sessions : slot'[x] = slot[x] \/ slot'[x] = 0
    BY <1>1, <1>16, ThreadKinds DEF FinalizeShutdown, Destroy
  <2> QED
    BY <1>1, <2>1, <2>2, <2>3, ThreadKinds DEF InHand
<1> USE DEF InHand
<1>17. ASSUME NEW s \in Sessions, RegisterSession(s) PROVE  InHand'
  BY <1>1, <1>17 DEF RegisterSession
<1>18. ASSUME \/ CloseRunSubscriptions \/ Destroyed
      PROVE  InHand'
  BY <1>1, <1>18 DEF CloseRunSubscriptions, Destroyed, serviceVars
<1> QED
  BY <1>2, <1>3, <1>4, <1>5, <1>6, <1>7, <1>8, <1>9, <1>10, <1>11, <1>12,
    <1>13, <1>14, <1>15, <1>16, <1>17, <1>18 DEF ServiceNext, SessionStep,
    RequestStep, WorkerStep, ThreadStep

\* A notification of a subscription goes when its session does.
LEMMA SessionQueueStep ==
  ASSUME TypeOK, Shape, Books, QueueShape, Clocks, QueueHoldsWhatIsUnheard,
         SessionQueue, ServiceNext
  PROVE  SessionQueue'
<1>1. /\ slot \in [Keys -> Nat] /\ ShutdownShape /\ SessionQueue
      /\ registered \subseteq Sessions
  BY DEF TypeOK, Shape
<1> USE DEF opVars, sessionVars, clockVars, noticeVars, boundVars, Go
<1>2. ASSUME NEW s \in Sessions, RemoveSession(s) PROVE  SessionQueue'
  <2>1. PICK F \in SUBSET Ops : Cancels(F)
    BY <1>2, CancelSteps DEF Clocks
  <2>2. Advanced(F)
    BY <2>1 DEF Cancels
  <2>3. \A x \in Sessions : slot'[x] = slot[x]
    BY <2>2, AdvancedSlots
  <2> QED
    BY <1>1, <1>2, <2>3 DEF RemoveSession, SessionQueue, ShutdownShape
<1>3. ASSUME NEW s \in Sessions, SessionRemoved(s) PROVE  SessionQueue'
  <2>1. \A x \in Sessions : slot'[x] = slot[x] \/ slot'[x] = 0
    BY <1>1, <1>3, ThreadKinds DEF SessionRemoved, EraseSession,
      SessionStopped
  <2> QED
    BY <1>1, <1>3, <2>1, ThreadKinds DEF SessionRemoved, EraseSession,
      SessionQueue
<1>4. ASSUME NEW s \in Sessions, SessionLost(s) PROVE  SessionQueue'
  <2>1. \A x \in Sessions : slot'[x] = slot[x] \/ slot'[x] = 0
    BY <1>1, <1>4, ThreadKinds DEF SessionLost
  <2> QED
    BY <1>1, <1>4, <2>1 DEF SessionLost, SessionQueue
<1>5. ASSUME NEW r \in Requests, CreateSubscription(r) PROVE  SessionQueue'
  <2>1. \A x \in Sessions : slot'[x] = slot[x] \/ slot'[x] = 0
    BY <1>1, <1>5, ThreadKinds DEF CreateSubscription
  <2> QED
    BY <1>1, <1>5, <2>1 DEF CreateSubscription, SessionQueue
<1>6. ASSUME NEW r \in Requests, NEW o \in Ops, CancelOperation(r, o)
      PROVE  SessionQueue'
  <2>1. PICK F \in SUBSET Ops : Cancels(F)
    BY <1>6, CancelSteps DEF Clocks
  <2>2. Advanced(F)
    BY <2>1 DEF Cancels
  <2>3. \A x \in Sessions : slot'[x] = slot[x]
    BY <2>2, AdvancedSlots
  <2> QED
    BY <1>1, <1>6, <2>3 DEF CancelOperation, SessionQueue, ShutdownShape
<1>7. ASSUME NEW o \in Ops,
             \/ StartOperation(o) \/ ReportProgress(o)
             \/ FinishOperation(o)
      PROVE  SessionQueue'
  <2>1. PICK F \in SUBSET Ops : F = {o}
    OBVIOUS
  <2>2. Advanced(F)
    BY <1>7, <2>1, WorkerSteps DEF Clocks
  <2>3. \A x \in Sessions : slot'[x] = slot[x]
    BY <2>2, AdvancedSlots
  <2> QED
    BY <1>1, <1>7, <2>3 DEF StartOperation, SessionQueue, ShutdownShape,
      ReportProgress, FinishOperation
<1>8. ASSUME NEW t \in Threads,
             \/ PickNotification(t) \/ HandlerTakes(t)
      PROVE  SessionQueue'
  <2>1. \A x \in Sessions : slot'[x] = slot[x] \/ slot'[x] = 0
    BY <1>1, <1>8, ThreadKinds DEF PickNotification, TakeOut, HandlerTakes,
      RetireSlot, DeliverMore
  <2> QED
    BY <1>1, <1>8, <2>1 DEF PickNotification, SessionQueue, HandlerTakes
<1>9. ASSUME Publish PROVE  SessionQueue'
  <2>1. PICK hits \in SUBSET registered : slot' =
            [k \in Keys |-> IF k \in hits THEN published + 1 ELSE slot[k]]
    BY <1>9, PublishFacts DEF Books
  <2>2. \A x \in Sessions : x \in registered \/ slot'[x] = slot[x]
    BY <2>1, ThreadKinds
  <2> QED
    BY <1>1, <1>9, <2>2 DEF Publish, SessionQueue
<1>10. ASSUME Shutdown PROVE  SessionQueue'
  <2>1. PICK F \in SUBSET Ops : Cancels(F)
    BY <1>10, CancelSteps DEF Clocks
  <2>2. Advanced(F)
    BY <2>1 DEF Cancels
  <2>3. \A x \in Sessions : slot'[x] = slot[x]
    BY <2>2, AdvancedSlots
  <2> QED
    BY <1>1, <1>10, <2>3 DEF Shutdown, SessionQueue, ShutdownShape
<1> USE DEF SessionQueue
<1>11. ASSUME NEW s \in Sessions, RegisterSession(s) PROVE  SessionQueue'
  BY <1>1, <1>11, ThreadKinds DEF RegisterSession
<1>12. ASSUME FinalizeShutdown PROVE  SessionQueue'
  BY <1>1, <1>12, ThreadKinds DEF FinalizeShutdown
<1>13. ASSUME NEW s \in Sessions, RemoveTimedOut(s) PROVE  SessionQueue'
  BY <1>1, <1>13 DEF RemoveTimedOut
<1>14. ASSUME NEW r \in Requests,
              \/ BeginRequest(r) \/ HandlerEnds(r) \/ EndRequest(r)
              \/ CancelSubscription(r) \/ SubmitWithoutThread(r)
              \/ SubmitFull(r)
      PROVE  SessionQueue'
  BY <1>1, <1>14 DEF BeginRequest, HandlerEnds, EndRequest,
    CancelSubscription, SubmitWithoutThread, SubmitFull
<1>15. ASSUME NEW r \in Requests, NEW o \in Ops, Submit(r, o)
      PROVE  SessionQueue'
  BY <1>1, <1>15 DEF Submit
<1>16. ASSUME NEW o \in Ops, WorkerExited(o) PROVE  SessionQueue'
  BY <1>1, <1>16 DEF WorkerExited
<1>17. ASSUME NEW t \in Threads,
              \/ RequestStop(t) \/ Drain(t) \/ HandlerThrows(t)
              \/ JoinWorkers(t)
      PROVE  SessionQueue'
  BY <1>1, <1>17 DEF RequestStop, Drain, HandlerThrows, JoinWorkers
<1>18. ASSUME \/ CloseRunSubscriptions \/ Destroy \/ Destroyed
      PROVE  SessionQueue'
  BY <1>1, <1>18 DEF CloseRunSubscriptions, Destroy, Destroyed, serviceVars
<1> QED
  BY <1>2, <1>3, <1>4, <1>5, <1>6, <1>7, <1>8, <1>9, <1>10, <1>11, <1>12,
    <1>13, <1>14, <1>15, <1>16, <1>17, <1>18 DEF ServiceNext, SessionStep,
    RequestStep, WorkerStep, ThreadStep

\* The queue goes on holding what is not heard.
LEMMA UnheardStep ==
  ASSUME TypeOK, Shape, Books, QueueShape, OneDelivers, Clocks, InHand,
         QueueHoldsWhatIsUnheard, ServiceNext
  PROVE  QueueHoldsWhatIsUnheard'
<1>1. /\ slot \in [Keys -> Nat] /\ WorkerShape
      /\ sequence \in [Ops -> Nat] /\ delivered \in [Ops -> Nat]
      /\ state \in [Ops -> Live \cup Terminal \cup {"none", "evicted"}]
      /\ nextState \in Nat
  BY DEF TypeOK, Shape
<1> USE DEF opVars, sessionVars, clockVars, noticeVars, boundVars, Go
<1>2. ASSUME NEW s \in Sessions, RemoveSession(s)
      PROVE  QueueHoldsWhatIsUnheard'
  <2>1. PICK F \in SUBSET Ops : Cancels(F)
    BY <1>2, CancelSteps DEF Clocks
  <2>2. Advanced(F)
    BY <2>1 DEF Cancels
  <2>3. /\ delivered' = delivered
        /\ \A x \in Ops : x \notin F => /\ state'[x] = state[x]
                                        /\ sequence'[x] = sequence[x]
                                        /\ slot'[x] = slot[x]
    BY <1>1, <1>2, <2>1, <2>2, ThreadKinds DEF RemoveSession, Cancels,
      Advanced
  <2>4. \A x \in F : state'[x] \notin {"none", "kQueued", "evicted"}
    BY <1>1, <1>2, <2>1 DEF Cancels
  <2>5. \A x \in F : /\ slot'[x] = sequence'[x] /\ delivered[x] < sequence'[x]
    BY <1>1, <2>2 DEF Advanced, Clocks
  <2> QED
    BY <2>3, <2>4, <2>5 DEF QueueHoldsWhatIsUnheard
<1>3. ASSUME NEW s \in Sessions,
             \/ SessionRemoved(s) \/ SessionLost(s)
      PROVE  QueueHoldsWhatIsUnheard'
  <2>1. \A x \in Ops : slot'[x] = slot[x]
    BY <1>1, <1>3, ThreadKinds DEF SessionRemoved, EraseSession,
      SessionStopped, SessionLost
  <2> QED
    BY <1>3, <2>1 DEF SessionRemoved, QueueHoldsWhatIsUnheard, SessionLost
<1>4. ASSUME NEW r \in Requests, CreateSubscription(r)
      PROVE  QueueHoldsWhatIsUnheard'
  <2>1. \A x \in Ops : slot'[x] = slot[x]
    BY <1>1, <1>4, ThreadKinds DEF CreateSubscription
  <2> QED
    BY <1>4, <2>1 DEF CreateSubscription, QueueHoldsWhatIsUnheard
<1>5. ASSUME NEW r \in Requests, SubmitWithoutThread(r)
      PROVE  QueueHoldsWhatIsUnheard'
  <2>1. PICK gone \in Evictions : 
           state' = [x \in Ops |-> IF x \in gone THEN "evicted" ELSE state[x]]
    BY <1>5 DEF SubmitWithoutThread
  <2>2. \A x \in gone : x \in Ops /\ slot[x] = 0
    <3> SUFFICES ASSUME NEW x \in gone PROVE x \in Ops /\ slot[x] = 0
      OBVIOUS
    <3>1. x \in Ops /\ state[x] \in Terminal /\ delivered[x] >= sequence[x]
      BY EvictionFacts
    <3> QED
      BY <1>1, <3>1 DEF QueueHoldsWhatIsUnheard, Terminal
  <2>3. UNCHANGED <<slot, delivered, sequence>>
    BY <1>5 DEF SubmitWithoutThread
  <2> QED
    BY <2>1, <2>2, <2>3 DEF QueueHoldsWhatIsUnheard
<1>6. ASSUME NEW r \in Requests, NEW o \in Ops, Submit(r, o)
      PROVE  QueueHoldsWhatIsUnheard'
  <2>1. PICK gone \in Evictions : state' = [x \in Ops |->
          IF x \in gone THEN "evicted"
          ELSE IF x = o THEN "kQueued" ELSE state[x]]
    BY <1>6 DEF Submit
  <2>2. \A x \in gone : x \in Ops /\ slot[x] = 0
    <3> SUFFICES ASSUME NEW x \in gone PROVE x \in Ops /\ slot[x] = 0
      OBVIOUS
    <3>1. x \in Ops /\ state[x] \in Terminal /\ delivered[x] >= sequence[x]
      BY EvictionFacts
    <3> QED
      BY <1>1, <3>1 DEF QueueHoldsWhatIsUnheard, Terminal
  <2>3. /\ slot[o] = 0
        /\ \A x \in Ops : x # o => sequence'[x] = sequence[x]
        /\ UNCHANGED <<slot, delivered>>
    BY <1>1, <1>6 DEF Submit, QueueHoldsWhatIsUnheard
  <2> QED
    BY <2>1, <2>2, <2>3 DEF QueueHoldsWhatIsUnheard
<1>7. ASSUME NEW r \in Requests, NEW o \in Ops, CancelOperation(r, o)
      PROVE  QueueHoldsWhatIsUnheard'
  <2>1. PICK F \in SUBSET Ops : Cancels(F)
    BY <1>7, CancelSteps DEF Clocks
  <2>2. Advanced(F)
    BY <2>1 DEF Cancels
  <2>3. /\ delivered' = delivered
        /\ \A x \in Ops : x \notin F => /\ state'[x] = state[x]
                                        /\ sequence'[x] = sequence[x]
                                        /\ slot'[x] = slot[x]
    BY <1>1, <1>7, <2>1, <2>2, ThreadKinds DEF CancelOperation, Cancels,
      Advanced
  <2>4. \A x \in F : state'[x] \notin {"none", "kQueued", "evicted"}
    BY <1>1, <1>7, <2>1 DEF Cancels
  <2>5. \A x \in F : /\ slot'[x] = sequence'[x] /\ delivered[x] < sequence'[x]
    BY <1>1, <2>2 DEF Advanced, Clocks
  <2> QED
    BY <2>3, <2>4, <2>5 DEF QueueHoldsWhatIsUnheard
<1>8. ASSUME NEW o \in Ops,
             \/ StartOperation(o) \/ FinishOperation(o)
      PROVE  QueueHoldsWhatIsUnheard'
  <2>1. PICK F \in SUBSET Ops : F = {o}
    OBVIOUS
  <2>2. Advanced(F)
    BY <1>8, <2>1, WorkerSteps DEF Clocks
  <2>3. /\ delivered' = delivered
        /\ \A x \in Ops : x \notin F => /\ state'[x] = state[x]
                                        /\ sequence'[x] = sequence[x]
                                        /\ slot'[x] = slot[x]
    BY <1>1, <1>8, <2>1, <2>2, ThreadKinds DEF StartOperation, CompleteLocked,
      Advanced, FinishOperation
  <2>4. \A x \in F : state'[x] \notin {"none", "kQueued", "evicted"}
    BY <1>1, <1>8, <2>1 DEF StartOperation, CompleteLocked, Terminal,
      FinishOperation
  <2>5. \A x \in F : /\ slot'[x] = sequence'[x] /\ delivered[x] < sequence'[x]
    BY <1>1, <2>2 DEF Advanced, Clocks
  <2> QED
    BY <2>3, <2>4, <2>5 DEF QueueHoldsWhatIsUnheard
<1>9. ASSUME NEW o \in Ops, ReportProgress(o) PROVE  QueueHoldsWhatIsUnheard'
  <2>1. PICK F \in SUBSET Ops : F = {o}
    OBVIOUS
  <2>2. Advanced(F)
    BY <1>9, <2>1, WorkerSteps DEF Clocks
  <2>3. /\ delivered' = delivered
        /\ \A x \in Ops : x \notin F => /\ state'[x] = state[x]
                                        /\ sequence'[x] = sequence[x]
                                        /\ slot'[x] = slot[x]
    BY <1>1, <1>9, <2>1, <2>2, ThreadKinds DEF ReportProgress, Advanced
  <2>4. state[o] \notin {"none", "kQueued", "evicted"} /\ state' = state
    BY <1>1, <1>9 DEF ReportProgress, WorkerShape, Live
  <2>5. \A x \in F : state'[x] \notin {"none", "kQueued", "evicted"}
    BY <2>1, <2>4
  <2>6. \A x \in F : /\ slot'[x] = sequence'[x] /\ delivered[x] < sequence'[x]
    BY <1>1, <2>2 DEF Advanced, Clocks
  <2> QED
    BY <2>3, <2>5, <2>6 DEF QueueHoldsWhatIsUnheard
<1>10. ASSUME NEW t \in Threads, PickNotification(t)
      PROVE  QueueHoldsWhatIsUnheard'
  <2>1. \A x \in Ops : slot'[x] = slot[x]
    BY <1>1, <1>10, ThreadKinds DEF PickNotification, TakeOut
  <2> QED
    BY <1>10, <2>1 DEF PickNotification, QueueHoldsWhatIsUnheard
<1>11. ASSUME NEW t \in Threads, HandlerTakes(t)
      PROVE  QueueHoldsWhatIsUnheard'
  <2> DEFINE k == inflight[t].key
             n == inflight[t].sequence
  <2>1. /\ pc[t] = "handler" /\ k \in Keys /\ n \in Nat
    BY <1>11 DEF HandlerTakes, OneDelivers, TypeOK
  <2>2. UNCHANGED <<state, sequence>>
    BY <1>11 DEF HandlerTakes
  <2>3. CASE k \notin Ops
    BY <1>11, <2>2, <2>3 DEF HandlerTakes, QueueHoldsWhatIsUnheard
  <2>4. CASE k \in Ops
    <3>1. /\ delivered[k] < n /\ n <= slot[k] /\ slot[k] \in Nat
          /\ delivered[k] \in Nat
      BY <1>1, <2>1, <2>4 DEF InHand
    <3>2. slot[k] # 0
      BY <2>1, <3>1
    <3>3. /\ slot[k] = sequence[k] /\ k \in Retained
          /\ state[k] \notin {"none", "kQueued", "evicted"}
      BY <1>1, <2>4, <3>2 DEF QueueHoldsWhatIsUnheard, Retained
    <3>4. delivered' = [delivered EXCEPT ![k] = n] /\ RetireSlot(k, n)
      BY <1>11, <2>4, <3>1, <3>3 DEF HandlerTakes
    <3> HIDE DEF k, n
    <3>5. \A x \in Ops :
             x # k => slot'[x] = slot[x] /\ delivered'[x] = delivered[x]
      BY <1>1, <3>4, ThreadKinds DEF RetireSlot
    <3>6. CASE slot[k] <= n
      <4>1. n = slot[k]
        BY <2>1, <3>1, <3>6
      <4>2. slot'[k] = 0 /\ delivered'[k] = n
        BY <1>1, <2>1, <2>4, <3>4, <3>6 DEF RetireSlot
      <4> QED
        BY <2>2, <3>3, <3>5, <4>1, <4>2 DEF QueueHoldsWhatIsUnheard
    <3>7. CASE ~(slot[k] <= n)
      <4>1. n < slot[k]
        BY <2>1, <3>1, <3>7
      <4>2. slot' = slot /\ delivered'[k] = n
        BY <1>1, <2>4, <3>4, <3>7 DEF RetireSlot
      <4> QED
        BY <2>2, <3>3, <3>5, <4>1, <4>2 DEF QueueHoldsWhatIsUnheard
    <3> QED
      BY <3>6, <3>7
  <2> QED
    BY <2>3, <2>4
<1>12. ASSUME Publish PROVE  QueueHoldsWhatIsUnheard'
  <2>1. PICK hits \in SUBSET registered : slot' =
            [k \in Keys |-> IF k \in hits THEN published + 1 ELSE slot[k]]
    BY <1>12, PublishFacts DEF Books
  <2>2. hits \subseteq Sessions
    BY DEF TypeOK
  <2>3. \A x \in Ops : slot'[x] = slot[x]
    BY <2>1, <2>2, ThreadKinds
  <2> QED
    BY <1>12, <2>3 DEF Publish, QueueHoldsWhatIsUnheard
<1>13. ASSUME Shutdown PROVE  QueueHoldsWhatIsUnheard'
  <2>1. PICK F \in SUBSET Ops : Cancels(F)
    BY <1>13, CancelSteps DEF Clocks
  <2>2. Advanced(F)
    BY <2>1 DEF Cancels
  <2>3. /\ delivered' = delivered
        /\ \A x \in Ops : x \notin F => /\ state'[x] = state[x]
                                        /\ sequence'[x] = sequence[x]
                                        /\ slot'[x] = slot[x]
    BY <1>1, <1>13, <2>1, <2>2, ThreadKinds DEF Shutdown, Cancels, Advanced
  <2>4. \A x \in F : state'[x] \notin {"none", "kQueued", "evicted"}
    BY <1>1, <1>13, <2>1 DEF Cancels
  <2>5. \A x \in F : /\ slot'[x] = sequence'[x] /\ delivered[x] < sequence'[x]
    BY <1>1, <2>2 DEF Advanced, Clocks
  <2> QED
    BY <2>3, <2>4, <2>5 DEF QueueHoldsWhatIsUnheard
<1> USE DEF QueueHoldsWhatIsUnheard
<1>14. ASSUME NEW s \in Sessions,
              \/ RegisterSession(s) \/ RemoveTimedOut(s)
      PROVE  QueueHoldsWhatIsUnheard'
  BY <1>1, <1>14 DEF RegisterSession, RemoveTimedOut
<1>15. ASSUME NEW r \in Requests,
              \/ BeginRequest(r) \/ HandlerEnds(r) \/ EndRequest(r)
              \/ CancelSubscription(r) \/ SubmitFull(r)
      PROVE  QueueHoldsWhatIsUnheard'
  BY <1>1, <1>15 DEF BeginRequest, HandlerEnds, EndRequest,
    CancelSubscription, SubmitFull
<1>16. ASSUME NEW o \in Ops, WorkerExited(o) PROVE  QueueHoldsWhatIsUnheard'
  BY <1>1, <1>16 DEF WorkerExited
<1>17. ASSUME NEW t \in Threads,
              \/ RequestStop(t) \/ Drain(t) \/ HandlerThrows(t)
              \/ JoinWorkers(t)
      PROVE  QueueHoldsWhatIsUnheard'
  BY <1>1, <1>17 DEF RequestStop, Drain, HandlerThrows, JoinWorkers
<1>18. ASSUME \/ CloseRunSubscriptions \/ FinalizeShutdown \/ Destroy
              \/ Destroyed
      PROVE  QueueHoldsWhatIsUnheard'
  BY <1>1, <1>18 DEF CloseRunSubscriptions, FinalizeShutdown, Destroy,
    Destroyed, serviceVars
<1> QED
  BY <1>2, <1>3, <1>4, <1>5, <1>6, <1>7, <1>8, <1>9, <1>10, <1>11, <1>12,
    <1>13, <1>14, <1>15, <1>16, <1>17, <1>18 DEF ServiceNext, SessionStep,
    RequestStep, WorkerStep, ThreadStep

\* Only what was heard is evicted, and stays so.
LEMMA EvictedStep ==
  ASSUME TypeOK, Shape, QueueShape, OneDelivers, Clocks, InHand,
         QueueHoldsWhatIsUnheard, EvictedWasHeard, ServiceNext
  PROVE  EvictedWasHeard'
<1>1. /\ heard \in [Keys -> Nat] /\ WorkerShape /\ nextState \in Nat
      /\ sequence \in [Ops -> Nat] /\ delivered \in [Ops -> Nat]
      /\ state \in [Ops -> Live \cup Terminal \cup {"none", "evicted"}]
  BY DEF TypeOK, Shape
<1> USE DEF opVars, sessionVars, clockVars, noticeVars, boundVars, Go
<1>2. ASSUME NEW s \in Sessions, RemoveSession(s) PROVE  EvictedWasHeard'
  <2>1. PICK F \in SUBSET Ops : Cancels(F)
    BY <1>2, CancelSteps DEF Clocks
  <2>2. Advanced(F)
    BY <2>1 DEF Cancels
  <2>3. /\ heard' = heard
        /\ \A x \in Ops : x \notin F => /\ state'[x] = state[x]
                                        /\ sequence'[x] = sequence[x]
    BY <1>1, <1>2, <2>1, <2>2 DEF RemoveSession, Cancels, Advanced
  <2>4. \A x \in F : state'[x] # "evicted"
    BY <1>1, <1>2, <2>1 DEF Cancels
  <2> QED
    BY <2>3, <2>4 DEF EvictedWasHeard
<1>3. ASSUME NEW r \in Requests, SubmitWithoutThread(r)
      PROVE  EvictedWasHeard'
  <2>1. PICK gone \in Evictions : 
           state' = [x \in Ops |-> IF x \in gone THEN "evicted" ELSE state[x]]
    BY <1>3 DEF SubmitWithoutThread
  <2>2. \A x \in gone : /\ x \in Ops /\ heard[x] = sequence[x]
                       /\ state[x] # "none"
    <3> SUFFICES ASSUME NEW x \in gone
                 PROVE  /\ x \in Ops /\ heard[x] = sequence[x]
                        /\ state[x] # "none"
      OBVIOUS
    <3>1. x \in Ops /\ state[x] \in Terminal /\ delivered[x] >= sequence[x]
      BY EvictionFacts
    <3>2. heard[x] = delivered[x]
      BY <3>1 DEF Clocks
    <3> QED
      BY <1>1, <3>1, <3>2 DEF QueueHoldsWhatIsUnheard, Terminal
  <2>3. heard' = heard /\ sequence' = sequence
    BY <1>1, <1>3 DEF SubmitWithoutThread
  <2> QED
    BY <2>1, <2>2, <2>3 DEF EvictedWasHeard
<1>4. ASSUME NEW r \in Requests, NEW o \in Ops, Submit(r, o)
      PROVE  EvictedWasHeard'
  <2>1. PICK gone \in Evictions : state' = [x \in Ops |->
          IF x \in gone THEN "evicted"
          ELSE IF x = o THEN "kQueued" ELSE state[x]]
    BY <1>4 DEF Submit
  <2>2. \A x \in gone : /\ x \in Ops /\ heard[x] = sequence[x]
                       /\ state[x] # "none"
    <3> SUFFICES ASSUME NEW x \in gone
                 PROVE  /\ x \in Ops /\ heard[x] = sequence[x]
                        /\ state[x] # "none"
      OBVIOUS
    <3>1. x \in Ops /\ state[x] \in Terminal /\ delivered[x] >= sequence[x]
      BY EvictionFacts
    <3>2. heard[x] = delivered[x]
      BY <3>1 DEF Clocks
    <3> QED
      BY <1>1, <3>1, <3>2 DEF QueueHoldsWhatIsUnheard, Terminal
  <2>3. /\ heard' = heard /\ state[o] = "none"
        /\ \A x \in Ops : x # o => sequence'[x] = sequence[x]
    BY <1>1, <1>4 DEF Submit
  <2> QED
    BY <2>1, <2>2, <2>3 DEF EvictedWasHeard
<1>5. ASSUME NEW r \in Requests, NEW o \in Ops, CancelOperation(r, o)
      PROVE  EvictedWasHeard'
  <2>1. PICK F \in SUBSET Ops : Cancels(F)
    BY <1>5, CancelSteps DEF Clocks
  <2>2. Advanced(F)
    BY <2>1 DEF Cancels
  <2>3. /\ heard' = heard
        /\ \A x \in Ops : x \notin F => /\ state'[x] = state[x]
                                        /\ sequence'[x] = sequence[x]
    BY <1>1, <1>5, <2>1, <2>2 DEF CancelOperation, Cancels, Advanced
  <2>4. \A x \in F : state'[x] # "evicted"
    BY <1>1, <1>5, <2>1 DEF Cancels
  <2> QED
    BY <2>3, <2>4 DEF EvictedWasHeard
<1>6. ASSUME NEW o \in Ops,
             \/ StartOperation(o) \/ ReportProgress(o)
             \/ FinishOperation(o)
      PROVE  EvictedWasHeard'
  <2>1. PICK F \in SUBSET Ops : F = {o}
    OBVIOUS
  <2>2. Advanced(F)
    BY <1>6, <2>1, WorkerSteps DEF Clocks
  <2>3. /\ heard' = heard
        /\ \A x \in Ops : x \notin F => /\ state'[x] = state[x]
                                        /\ sequence'[x] = sequence[x]
    BY <1>1, <1>6, <2>1, <2>2 DEF StartOperation, CompleteLocked, Advanced,
      ReportProgress, FinishOperation
  <2>4. \A x \in F : state'[x] # "evicted"
    BY <1>1, <1>6, <2>1 DEF StartOperation, CompleteLocked, Terminal,
      ReportProgress, WorkerShape, Live, FinishOperation
  <2> QED
    BY <2>3, <2>4 DEF EvictedWasHeard
<1>7. ASSUME NEW t \in Threads, HandlerTakes(t) PROVE  EvictedWasHeard'
  <2> DEFINE k == inflight[t].key
  <2>1. pc[t] = "handler" /\ k \in Keys /\ inflight[t].sequence \in Nat
    BY <1>7 DEF HandlerTakes, OneDelivers, TypeOK
  <2>2. k \in Ops => state[k] # "evicted"
    <3>1. k \in Ops => /\ delivered[k] < inflight[t].sequence
                       /\ inflight[t].sequence <= slot[k]
      BY <2>1 DEF InHand
    <3>2. k \in Ops => slot[k] # 0
      BY <1>1, <2>1, <3>1
    <3> QED
      BY <3>2 DEF QueueHoldsWhatIsUnheard
  <2>3. /\ UNCHANGED <<state, sequence>>
        /\ heard' = [heard EXCEPT ![k] = inflight[t].sequence]
    BY <1>7 DEF HandlerTakes
  <2> HIDE DEF k
  <2> QED
    BY <1>1, <2>2, <2>3, ThreadKinds DEF EvictedWasHeard
<1>8. ASSUME Shutdown PROVE  EvictedWasHeard'
  <2>1. PICK F \in SUBSET Ops : Cancels(F)
    BY <1>8, CancelSteps DEF Clocks
  <2>2. Advanced(F)
    BY <2>1 DEF Cancels
  <2>3. /\ heard' = heard
        /\ \A x \in Ops : x \notin F => /\ state'[x] = state[x]
                                        /\ sequence'[x] = sequence[x]
    BY <1>1, <1>8, <2>1, <2>2 DEF Shutdown, Cancels, Advanced
  <2>4. \A x \in F : state'[x] # "evicted"
    BY <1>1, <1>8, <2>1 DEF Cancels
  <2> QED
    BY <2>3, <2>4 DEF EvictedWasHeard
<1> USE DEF EvictedWasHeard
<1>9. ASSUME NEW s \in Sessions,
             \/ RegisterSession(s) \/ SessionRemoved(s) \/ SessionLost(s)
             \/ RemoveTimedOut(s)
      PROVE  EvictedWasHeard'
  BY <1>1, <1>9 DEF RegisterSession, SessionRemoved, SessionLost,
    RemoveTimedOut
<1>10. ASSUME NEW r \in Requests,
             \/ BeginRequest(r) \/ HandlerEnds(r) \/ EndRequest(r)
             \/ CreateSubscription(r) \/ CancelSubscription(r)
             \/ SubmitFull(r)
      PROVE  EvictedWasHeard'
  BY <1>1, <1>10 DEF BeginRequest, HandlerEnds, EndRequest,
    CreateSubscription, CancelSubscription, SubmitFull
<1>11. ASSUME NEW o \in Ops, WorkerExited(o) PROVE  EvictedWasHeard'
  BY <1>1, <1>11 DEF WorkerExited
<1>12. ASSUME NEW t \in Threads,
              \/ RequestStop(t) \/ Drain(t) \/ PickNotification(t)
              \/ HandlerThrows(t) \/ JoinWorkers(t)
      PROVE  EvictedWasHeard'
  BY <1>1, <1>12 DEF RequestStop, Drain, PickNotification, HandlerThrows,
    JoinWorkers
<1>13. ASSUME \/ Publish \/ CloseRunSubscriptions \/ FinalizeShutdown
              \/ Destroy \/ Destroyed
      PROVE  EvictedWasHeard'
  BY <1>1, <1>13 DEF Publish, CloseRunSubscriptions, FinalizeShutdown,
    Destroy, Destroyed, serviceVars
<1> QED
  BY <1>2, <1>3, <1>4, <1>5, <1>6, <1>7, <1>8, <1>9, <1>10, <1>11, <1>12,
    <1>13 DEF ServiceNext, SessionStep, RequestStep, WorkerStep, ThreadStep

\* A queue is empty when nothing is pending.
LEMMA EmptyQueue ==
  ASSUME order \in Seq(Keys), QueueShape
  PROVE  order # <<>> <=> \E k \in Keys : slot[k] # 0
<1>1. Entries(order) \in SUBSET Keys
  BY DEF Entries
<1>2. order = <<>> <=> Entries(order) = {}
  BY EmptyEntries
<1> QED
  BY <1>1, <1>2 DEF QueueShape

\* The same of the state after a step.
LEMMA NonEmptyNext ==
  ASSUME order' \in Seq(Keys), QueueShape'
  PROVE  order' # <<>> => \E k \in Keys : slot'[k] # 0
<1>1. Entries(order') \in SUBSET Keys
  BY DEF Entries
<1>2. order' = <<>> <=> Entries(order') = {}
  BY EmptyEntries
<1> QED
  BY <1>1, <1>2 DEF QueueShape

\* Whoever adds to the queue is on its way to deliver.
LEMMA StrandedStep ==
  ASSUME TypeOK, Shape, QueueShape, OneDelivers, NoStrandedNotification,
         QueueKept, ServiceNext
  PROVE  NoStrandedNotification'
<1>1. /\ DOMAIN pc = Threads /\ slot \in [Keys -> Nat] /\ order \in Seq(Keys)
      /\ failures \in Nat
  BY ServiceAssumption DEF TypeOK
<1>2. order' \in Seq(Keys) /\ slot' \in [Keys -> Nat] /\ QueueShape'
  BY DEF QueueKept
<1> USE DEF opVars, sessionVars, clockVars, noticeVars, boundVars, Go
<1>3. ASSUME NEW s \in Sessions, RemoveSession(s)
      PROVE  NoStrandedNotification'
  <2>1. s \in Threads /\ pc'[s] \in {"stop", "drain"}
    BY <1>1, <1>3, ThreadKinds DEF RemoveSession
  <2> QED
    BY <2>1 DEF NoStrandedNotification
<1>4. ASSUME NEW s \in Sessions,
             \/ SessionRemoved(s) \/ SessionLost(s)
      PROVE  NoStrandedNotification'
  <2>1. \A x \in Threads : pc[x] \in {"stop", "drain"} => pc'[x] = pc[x]
    BY <1>1, <1>4, ThreadKinds DEF SessionRemoved, SessionLost
  <2>2. drainer' = drainer /\ failures' = failures
    BY <1>4 DEF SessionRemoved, SessionLost
  <2>3. \A k \in Keys : slot'[k] # 0 => slot[k] # 0
    BY <1>1, <1>4, ThreadKinds DEF SessionRemoved, EraseSession,
      SessionStopped, SessionLost
  <2>4. order' # <<>> => order # <<>>
    <3>1. order # <<>> <=> \E k \in Keys : slot[k] # 0
      BY <1>1, EmptyQueue
    <3>2. order' # <<>> => \E k \in Keys : slot'[k] # 0
      BY <1>2, NonEmptyNext
    <3> QED
      BY <2>3, <3>1, <3>2
  <2> QED
    BY <2>1, <2>2, <2>4 DEF NoStrandedNotification
<1>5. ASSUME NEW s \in Sessions, RemoveTimedOut(s)
      PROVE  NoStrandedNotification'
  <2>1. \A x \in Threads : pc[x] \in {"stop", "drain"} => pc'[x] = pc[x]
    BY <1>1, <1>5, ThreadKinds DEF RemoveTimedOut
  <2>2. drainer' = drainer /\ failures' = failures
    BY <1>5 DEF RemoveTimedOut
  <2>3. order' = order
    BY <1>5 DEF RemoveTimedOut
  <2> QED
    BY <2>1, <2>2, <2>3 DEF NoStrandedNotification
<1>6. ASSUME NEW r \in Requests,
             \/ BeginRequest(r) \/ HandlerEnds(r) \/ EndRequest(r)
             \/ CancelSubscription(r) \/ SubmitWithoutThread(r)
             \/ SubmitFull(r)
      PROVE  NoStrandedNotification'
  <2>1. \A x \in Threads : pc[x] \in {"stop", "drain"} => pc'[x] = pc[x]
    BY <1>1, <1>6, ThreadKinds DEF BeginRequest, HandlerEnds, EndRequest,
      CancelSubscription, SubmitWithoutThread, SubmitAllowed, SubmitFull
  <2>2. drainer' = drainer /\ failures' = failures
    BY <1>6 DEF BeginRequest, HandlerEnds, EndRequest, CancelSubscription,
      SubmitWithoutThread, SubmitFull
  <2>3. order' = order
    BY <1>6 DEF BeginRequest, HandlerEnds, EndRequest, CancelSubscription,
      SubmitWithoutThread, SubmitFull
  <2> QED
    BY <2>1, <2>2, <2>3 DEF NoStrandedNotification
<1>7. ASSUME NEW r \in Requests, CreateSubscription(r)
      PROVE  NoStrandedNotification'
  <2>1. \A x \in Threads : pc[x] \in {"stop", "drain"} => pc'[x] = pc[x]
    BY <1>1, <1>7, ThreadKinds DEF CreateSubscription
  <2>2. drainer' = drainer /\ failures' = failures
    BY <1>7 DEF CreateSubscription
  <2>3. \A k \in Keys : slot'[k] # 0 => slot[k] # 0
    BY <1>1, <1>7, ThreadKinds DEF CreateSubscription
  <2>4. order' # <<>> => order # <<>>
    <3>1. order # <<>> <=> \E k \in Keys : slot[k] # 0
      BY <1>1, EmptyQueue
    <3>2. order' # <<>> => \E k \in Keys : slot'[k] # 0
      BY <1>2, NonEmptyNext
    <3> QED
      BY <2>3, <3>1, <3>2
  <2> QED
    BY <2>1, <2>2, <2>4 DEF NoStrandedNotification
<1>8. ASSUME NEW r \in Requests, NEW o \in Ops, Submit(r, o)
      PROVE  NoStrandedNotification'
  <2>1. pc[r] = "inside" /\ pc[o] = "idle"
    BY <1>8 DEF Submit, SubmitAllowed, Shape, WorkerShape
  <2>2. \A x \in Threads : pc[x] \in {"stop", "drain"} => pc'[x] = pc[x]
    BY <1>1, <1>8, <2>1, ThreadKinds DEF Submit, SubmitAllowed
  <2>3. drainer' = drainer /\ failures' = failures
    BY <1>8 DEF Submit
  <2>4. order' = order
    BY <1>8 DEF Submit
  <2> QED
    BY <2>2, <2>3, <2>4 DEF NoStrandedNotification
<1>9. ASSUME NEW r \in Requests, NEW o \in Ops, CancelOperation(r, o)
      PROVE  NoStrandedNotification'
  <2>1. r \in Threads /\ pc'[r] \in {"stop", "drain"}
    BY <1>1, <1>9, ThreadKinds DEF CancelOperation
  <2> QED
    BY <2>1 DEF NoStrandedNotification
<1>10. ASSUME NEW o \in Ops,
             \/ StartOperation(o) \/ ReportProgress(o)
             \/ FinishOperation(o)
      PROVE  NoStrandedNotification'
  <2>1. o \in Threads /\ pc'[o] \in {"stop", "drain"}
    BY <1>1, <1>10, ThreadKinds DEF StartOperation, ReportProgress,
      FinishOperation
  <2> QED
    BY <2>1 DEF NoStrandedNotification
<1>11. ASSUME NEW o \in Ops, WorkerExited(o) PROVE  NoStrandedNotification'
  <2>1. \A x \in Threads : pc[x] \in {"stop", "drain"} => pc'[x] = pc[x]
    BY <1>1, <1>11, ThreadKinds DEF WorkerExited
  <2>2. drainer' = drainer /\ failures' = failures
    BY <1>11 DEF WorkerExited
  <2>3. order' = order
    BY <1>11 DEF WorkerExited
  <2> QED
    BY <2>1, <2>2, <2>3 DEF NoStrandedNotification
<1>12. ASSUME NEW t \in Threads, RequestStop(t) PROVE  NoStrandedNotification'
  <2>1. t \in Threads /\ pc'[t] \in {"stop", "drain"}
    BY <1>1, <1>12, ThreadKinds DEF RequestStop
  <2> QED
    BY <2>1 DEF NoStrandedNotification
<1>13. ASSUME NEW t \in Threads, Drain(t) PROVE  NoStrandedNotification'
  <2>1. \/ drainer' = drainer /\ drainer # Nobody
        \/ order' = <<>>
        \/ drainer' = t
    BY <1>13 DEF Drain
  <2> QED
    BY <2>1, ThreadKinds DEF NoStrandedNotification
<1>14. ASSUME NEW t \in Threads, PickNotification(t)
      PROVE  NoStrandedNotification'
  <2>1. drainer = t
    BY <1>14 DEF PickNotification, OneDelivers, Delivering
  <2>2. order' = <<>> \/ drainer' = t
    BY <1>14, <2>1 DEF PickNotification
  <2> QED
    BY <2>2, ThreadKinds DEF NoStrandedNotification
<1>15. ASSUME NEW t \in Threads, HandlerTakes(t)
      PROVE  NoStrandedNotification'
  <2>1. drainer' = t
    BY <1>15 DEF HandlerTakes, DeliverMore, OneDelivers, Delivering
  <2> QED
    BY <2>1, ThreadKinds DEF NoStrandedNotification
<1>16. ASSUME NEW t \in Threads, HandlerThrows(t)
      PROVE  NoStrandedNotification'
  <2>1. failures' # 0
    BY <1>1, <1>16 DEF HandlerThrows
  <2> QED
    BY <2>1 DEF NoStrandedNotification
<1>17. ASSUME NEW t \in Threads, JoinWorkers(t) PROVE  NoStrandedNotification'
  <2>1. \A x \in Threads : pc[x] \in {"stop", "drain"} => pc'[x] = pc[x]
    BY <1>1, <1>17 DEF JoinWorkers
  <2>2. drainer' = drainer /\ failures' = failures
    BY <1>17 DEF JoinWorkers
  <2>3. order' = order
    BY <1>17 DEF JoinWorkers
  <2> QED
    BY <2>1, <2>2, <2>3 DEF NoStrandedNotification
<1>18. ASSUME Publish PROVE  NoStrandedNotification'
  <2>1. "publisher" \in Threads /\ pc'["publisher"] \in {"stop", "drain"}
    BY <1>1, <1>18, ThreadKinds DEF Publish
  <2> QED
    BY <2>1 DEF NoStrandedNotification
<1>19. ASSUME Shutdown PROVE  NoStrandedNotification'
  <2>1. "shutdown" \in Threads /\ pc'["shutdown"] \in {"stop", "drain"}
    BY <1>1, <1>19, ThreadKinds DEF Shutdown
  <2> QED
    BY <2>1 DEF NoStrandedNotification
<1>20. ASSUME \/ FinalizeShutdown \/ Destroy
      PROVE  NoStrandedNotification'
  <2>1. \A x \in Threads : pc[x] \in {"stop", "drain"} => pc'[x] = pc[x]
    BY <1>1, <1>20, ThreadKinds DEF FinalizeShutdown, Destroy
  <2>2. drainer' = drainer /\ failures' = failures
    BY <1>20 DEF FinalizeShutdown, Destroy
  <2>3. order' = order
    BY <1>20 DEF FinalizeShutdown, Destroy
  <2> QED
    BY <2>1, <2>2, <2>3 DEF NoStrandedNotification
<1> USE DEF NoStrandedNotification
<1>21. ASSUME NEW s \in Sessions, RegisterSession(s)
      PROVE  NoStrandedNotification'
  BY <1>1, <1>21 DEF RegisterSession
<1>22. ASSUME \/ CloseRunSubscriptions \/ Destroyed
      PROVE  NoStrandedNotification'
  BY <1>1, <1>22 DEF CloseRunSubscriptions, Destroyed, serviceVars
<1> QED
  BY <1>3, <1>4, <1>5, <1>6, <1>7, <1>8, <1>9, <1>10, <1>11, <1>12, <1>13,
    <1>14, <1>15, <1>16, <1>17, <1>18, <1>19, <1>20, <1>21, <1>22 DEF
    ServiceNext, SessionStep, RequestStep, WorkerStep, ThreadStep

-----------------------------------------------------------------------------
(* The invariant and what follows from it.                                 *)

\* The service starts with nothing registered, submitted or pending.
LEMMA InitiallyInvariant == ServiceInit => ServiceInv
<1> SUFFICES ASSUME ServiceInit PROVE ServiceInv
  OBVIOUS
<1>1. serviceBudget \in [callers : SUBSET Requests, progress : Nat,
                         failures : Nat, published : Nat, removals : Nat]
  BY ServiceAssumption DEF ServiceInit
<1>2. TypeOK
  <2>1. inflight \in [Threads -> [key : Keys \cup {Nobody}, sequence : Nat]]
    BY DEF ServiceInit, Idle
  <2>2. /\ cancelled \in [Ops -> BOOLEAN] /\ handle \in [Ops -> BOOLEAN]
        /\ stop \in [Keys -> BOOLEAN] /\ closing \in [Sessions -> BOOLEAN]
    BY DEF ServiceInit
  <2> QED
    BY <1>1, <2>1, <2>2 DEF ServiceInit, TypeOK
<1>3. /\ \A t \in Threads : /\ pc[t] = "idle" /\ inflight[t] = Idle
                            /\ target[t] = {}
      /\ \A o \in Ops : /\ state[o] = "none" /\ sequence[o] = 0
                        /\ delivered[o] = 0 /\ handle[o] = FALSE
      /\ \A k \in Keys : slot[k] = 0 /\ heard[k] = 0
      /\ \A s \in Sessions : active[s] = 0 /\ waiters[s] = 0
  BY ThreadKinds DEF ServiceInit
<1>4. /\ registered = {} /\ phase = "kRunning" /\ nextState = 1 /\ order = <<>>
      /\ drainer = Nobody /\ failures = 0 /\ published = 0
  BY DEF ServiceInit
<1>5. Shape
  BY <1>3, <1>4, ThreadKinds DEF Shape, PcShape, ShutdownShape, WorkerShape,
    Live, Delivering
<1>6. Books
  <2>1. \A s \in Sessions : LiveOf(s) = {} /\ Inside(s) = {}
    BY <1>3, ThreadKinds DEF LiveOf, Inside, Live
  <2>2. ActiveBook /\ WaiterBook /\ IsFiniteSet(registered)
    BY <1>3, <1>4, <2>1, FS_EmptySet DEF ActiveBook, WaiterBook
  <2> QED
    BY <1>3, <2>2, ThreadKinds DEF Books, LiveRegistered, InsideRegistered,
      Live
<1>7. Departed
  BY <1>4 DEF Departed
<1>8. Workers
  BY <1>3, ThreadKinds DEF Workers, HandlesHeld, WorkersJoined, JoinedAreDone,
    LiveAreHeld, Live
<1>9. QueueShape
  BY <1>3, <1>4 DEF QueueShape, Entries, Distinct
<1>10. OneDelivers
  BY <1>3, <1>4, ThreadKinds DEF OneDelivers, Delivering
<1>11. Clocks
  BY <1>3, <1>4, ThreadKinds DEF Clocks
<1>12. InHand /\ SessionQueue /\ QueueHoldsWhatIsUnheard /\ EvictedWasHeard
  BY <1>3, ThreadKinds DEF InHand, SessionQueue, QueueHoldsWhatIsUnheard,
    EvictedWasHeard
<1>13. NoStrandedNotification
  BY <1>4 DEF NoStrandedNotification
<1> QED
  BY <1>2, <1>5, <1>6, <1>7, <1>8, <1>9, <1>10, <1>11, <1>12, <1>13 DEF
    ServiceInv

\* Every step keeps the invariant.
LEMMA ServiceStep ==
  ASSUME ServiceInv, ServiceNext
  PROVE  ServiceInv'
<1>1. /\ TypeOK /\ Shape /\ Books /\ Departed /\ Workers
      /\ QueueShape /\ OneDelivers /\ Clocks /\ InHand /\ SessionQueue
      /\ QueueHoldsWhatIsUnheard /\ EvictedWasHeard /\ NoStrandedNotification
  BY DEF ServiceInv
<1>2. QueueKept
  BY <1>1, QueueStep
<1>3. TypeOK' /\ QueueShape'
  BY <1>1, <1>2, TypeStep DEF QueueKept
<1>4. Shape'
  BY <1>1, PcStep, ShutdownStep, WorkerShapeStep DEF Shape
<1>5. Books'
  BY <1>1, RegisteredStep, ActiveBookStep, WaiterBookStep, LiveRegisteredStep,
    InsideRegisteredStep DEF Books
<1>6. Departed' /\ Workers'
  BY <1>1, DepartedStep, HandleStep, WorkersJoinedStep, JoinedStep, LiveStep
    DEF Workers
<1>7. OneDelivers' /\ Clocks' /\ InHand' /\ SessionQueue'
  BY <1>1, OneDeliversStep, ClockStep, InHandStep, SessionQueueStep
<1>8. QueueHoldsWhatIsUnheard' /\ EvictedWasHeard' /\ NoStrandedNotification'
  BY <1>1, <1>2, UnheardStep, EvictedStep, StrandedStep
<1> QED
  BY <1>3, <1>4, <1>5, <1>6, <1>7, <1>8 DEF ServiceInv

\* A step that changes nothing here keeps it.
LEMMA Stuttering ==
  ASSUME ServiceInv, UNCHANGED serviceVars
  PROVE  ServiceInv'
<1> USE DEF serviceVars, opVars, sessionVars, clockVars, noticeVars,
  boundVars, ServiceInv
<1>1. TypeOK'
  BY DEF TypeOK
<1>2. Shape'
  BY DEF Shape, PcShape, ShutdownShape, WorkerShape
<1>3. Books'
  BY DEF Books, ActiveBook, WaiterBook, LiveRegistered, InsideRegistered,
    LiveOf, Inside
<1>4. Departed'
  BY DEF Departed
<1>5. Workers'
  BY DEF Workers, HandlesHeld, WorkersJoined, JoinedAreDone, LiveAreHeld,
    Joined, Closer, Retained
<1>6. QueueShape' /\ OneDelivers' /\ Clocks' /\ InHand' /\ SessionQueue'
  BY DEF QueueShape, OneDelivers, Clocks, InHand, SessionQueue
<1>7. QueueHoldsWhatIsUnheard' /\ EvictedWasHeard' /\ NoStrandedNotification'
  BY DEF QueueHoldsWhatIsUnheard, EvictedWasHeard, NoStrandedNotification
<1> QED
  BY <1>1, <1>2, <1>3, <1>4, <1>5, <1>6, <1>7

\* The invariant holds in every state of the service.
THEOREM ServiceInvariant == ServiceSpec => []ServiceInv
<1>1. ServiceInv /\ [ServiceNext]_serviceVars => ServiceInv'
  BY ServiceStep, Stuttering
<1> QED
  BY <1>1, InitiallyInvariant, PTL DEF ServiceSpec

\* What the invariant says of the history and the books.
LEMMA HistoryFollows == ServiceInv => ServiceHistoryCorrect
<1> SUFFICES ASSUME ServiceInv PROVE ServiceHistoryCorrect
  OBVIOUS
<1>1. /\ TypeOK /\ Shape /\ Books /\ Workers /\ OneDelivers /\ InHand
      /\ EvictedWasHeard
  BY DEF ServiceInv
<1>2. InFlightKeepsItsSlot
  <2> SUFFICES ASSUME NEW t \in Threads, inflight[t].key \in Ops
               PROVE  slot[inflight[t].key] >= inflight[t].sequence
    BY DEF InFlightKeepsItsSlot
  <2>1. Idle.key \notin Ops
    BY ServiceAssumption DEF Idle
  <2>2. pc[t] = "handler"
    BY <1>1, <2>1 DEF OneDelivers
  <2>3. inflight[t].sequence <= slot[inflight[t].key]
    BY <1>1, <2>2 DEF InHand
  <2>4. inflight[t].sequence \in Nat /\ slot[inflight[t].key] \in Nat
    BY <1>1, ThreadKinds DEF TypeOK
  <2> QED
    BY <2>3, <2>4
<1>3. Accounting
  <2>1. registered \subseteq Sessions
    BY <1>1 DEF TypeOK
  <2>2. \A s \in registered : {o \in OpsOf(s) : state[o] \in Live} = LiveOf(s)
    BY DEF OpsOf, Retained, LiveOf
  <2>3. \A s \in registered : {r \in Requests : SessionOf[r] = s /\
                                 pc[r] \notin {"idle", "gone"}} = Inside(s)
    BY DEF Inside
  <2> QED
    BY <1>1, <2>1, <2>2, <2>3 DEF Accounting, Books, ActiveBook, WaiterBook,
      LiveRegistered, InsideRegistered
<1>4. ShutdownLeavesNoWorker
  <2> SUFFICES ASSUME phase = "kComplete"
               PROVE  /\ \A o \in Ops :
                           \/ pc[o] \in {"idle", "exited"}
                           \/ \E s \in Sessions :
                                pc[s] = "join" /\ o \in target[s]
                      /\ \A r \in Requests : pc[r] \in {"idle", "gone"}
    BY DEF ShutdownLeavesNoWorker
  <2>1. registered = {} /\ target["shutdown"] = {}
    BY <1>1 DEF Shape, ShutdownShape
  <2>2. \A r \in Requests : pc[r] \in {"idle", "gone"}
    BY <1>1, <2>1 DEF Books, InsideRegistered
  <2>3. \A o \in Ops : ~handle[o]
    BY <1>1 DEF Workers, HandlesHeld
  <2>4. \A o \in Ops : pc[o] \notin {"idle", "exited"} => Joined(o)
    BY <1>1, <2>3 DEF Workers, WorkersJoined
  <2>5. \A o \in Ops : Joined(o) =>
           \E s \in Sessions : pc[s] = "join" /\ o \in target[s]
    BY <2>1, <2>2 DEF Joined
  <2> QED
    BY <2>2, <2>4, <2>5
<1> QED
  BY <1>1, <1>2, <1>3, <1>4 DEF ServiceHistoryCorrect

\* What it says of the notifications.
LEMMA DeliveryFollows == ServiceInv => ServiceDeliveryCorrect
<1> SUFFICES ASSUME ServiceInv PROVE ServiceDeliveryCorrect
  OBVIOUS
<1>1. /\ TypeOK /\ Shape /\ Books /\ Departed /\ QueueShape /\ SessionQueue
      /\ QueueHoldsWhatIsUnheard /\ NoStrandedNotification
  BY DEF ServiceInv
<1>2. \A k \in Keys : slot[k] # 0 => /\ k \in Retained \cup Sessions
                                     /\ phase # "kComplete" =>
                                          k \in Retained \cup registered
  <2> SUFFICES ASSUME NEW k \in Keys, slot[k] # 0
               PROVE  /\ k \in Retained \cup Sessions
                      /\ phase # "kComplete" => k \in Retained \cup registered
    OBVIOUS
  <2>1. CASE k \in Ops
    BY <1>1, <2>1 DEF QueueHoldsWhatIsUnheard, Retained, TypeOK
  <2>2. CASE k \in Sessions
    BY <1>1, <2>2 DEF SessionQueue
  <2> QED
    BY <2>1, <2>2, ThreadKinds
<1>3. QueueWithinBound
  <2>1. \A i \in DOMAIN order : order[i] \in Keys /\ slot[order[i]] # 0
    BY <1>1 DEF TypeOK, QueueShape, Entries
  <2> QED
    BY <1>1, <1>2, <2>1 DEF QueueWithinBound, QueueShape, Distinct
<1>4. RemovedSessionIsQuiet
  <2> SUFFICES ASSUME NEW s \in Sessions, pc[s] \in {"join", "removed"}
               PROVE  /\ s \notin registered
                      /\ \A o \in OpsOf(s) : state[o] \in Terminal
                      /\ \A r \in Requests : SessionOf[r] = s =>
                                                pc[r] \in {"idle", "gone"}
                      /\ phase = "kRunning" => slot[s] = 0
    BY DEF RemovedSessionIsQuiet
  <2>1. s \notin registered
    BY <1>1 DEF Departed
  <2>2. \A o \in OpsOf(s) : state[o] \in Terminal
    BY <1>1, <2>1 DEF OpsOf, Retained, Books, LiveRegistered
  <2>3. \A r \in Requests : SessionOf[r] = s => pc[r] \in {"idle", "gone"}
    BY <1>1, <2>1 DEF Books, InsideRegistered
  <2>4. phase = "kRunning" => slot[s] = 0
    BY <1>1, <2>1 DEF SessionQueue
  <2> QED
    BY <2>1, <2>2, <2>3, <2>4
<1> QED
  BY <1>1, <1>3, <1>4 DEF ServiceDeliveryCorrect

\* For any operations, sessions, requests and bounds: a notification in the
\* handler's hands keeps its slot, an operation is evicted only after its last
\* update was heard, CompleteLocked and release_request never underflow the
\* books of a session nor miss it, and a complete shutdown leaves no worker but
\* those that a removal is about to join.
THEOREM HistoryIsCorrect == ServiceSpec => []ServiceHistoryCorrect
BY ServiceInvariant, HistoryFollows, PTL

\* For any operations, sessions, requests and bounds: the queue holds exactly
\* what the client has not heard, within the bound QueueNotificationLocked
\* checks, somebody is delivering or about to while no handler has thrown, and
\* once RemoveSession has erased a session nothing of it runs or is queued.
THEOREM DeliveryIsCorrect == ServiceSpec => []ServiceDeliveryCorrect
BY ServiceInvariant, DeliveryFollows, PTL

\* Only a handler that returns changes what was heard, and to something newer.
LEMMA HeardGrows ==
  ASSUME ServiceInv, [ServiceNext]_serviceVars
  PROVE  \A k \in Keys : heard'[k] >= heard[k]
<1>1. /\ TypeOK /\ OneDelivers /\ Clocks /\ InHand
      /\ heard \in [Keys -> Nat]
  BY DEF ServiceInv, TypeOK
<1>2. ASSUME NEW t \in Threads, HandlerTakes(t)
      PROVE  \A k \in Keys : heard'[k] >= heard[k]
  <2> DEFINE k == inflight[t].key
             n == inflight[t].sequence
  <2>1. pc[t] = "handler" /\ k \in Keys /\ heard' = [heard EXCEPT ![k] = n]
    BY <1>1, <1>2 DEF HandlerTakes, OneDelivers
  <2>2. n \in Nat
    BY <1>1 DEF TypeOK
  <2>3. k \in Ops => heard[k] < n
    BY <1>1, <2>1 DEF InHand, Clocks
  <2>4. k \in Sessions => heard[k] < n
    BY <1>1, <2>1 DEF InHand
  <2> HIDE DEF k, n
  <2> QED
    BY <1>1, <2>1, <2>2, <2>3, <2>4, ThreadKinds
<1>3. CASE heard' = heard
  BY <1>1, <1>3
<1>4. heard' = heard \/ \E t \in Threads : HandlerTakes(t)
  BY DEF serviceVars, opVars, sessionVars, clockVars, noticeVars, boundVars,
    ServiceNext, SessionStep, RequestStep, WorkerStep, ThreadStep,
    RegisterSession, RemoveSession, SessionRemoved, SessionLost,
    RemoveTimedOut, BeginRequest, HandlerEnds, EndRequest, CreateSubscription,
    CancelSubscription, SubmitWithoutThread, SubmitFull, Submit,
    CancelOperation, StartOperation, ReportProgress, FinishOperation,
    WorkerExited, RequestStop, Drain, PickNotification, HandlerThrows,
    JoinWorkers, Publish, CloseRunSubscriptions, Shutdown, FinalizeShutdown,
    Destroy, Destroyed
<1> QED
  BY <1>2, <1>3, <1>4

\* What the handler is given of an operation or a subscription never goes back.
THEOREM DeliveryIsInOrder == ServiceSpec => HandlerHearsInOrder
<1>1. ServiceInv /\ [ServiceNext]_serviceVars =>
         [\A k \in Keys : heard'[k] >= heard[k]]_serviceVars
  BY HeardGrows
<1> QED
  BY <1>1, ServiceInvariant, PTL DEF ServiceSpec, HandlerHearsInOrder

=============================================================================
