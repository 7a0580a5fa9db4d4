--------------------------- MODULE SessionProofs ---------------------------
(***************************************************************************)
(* Proofs about McpSessions for any sessions, requests and capacity: the   *)
(* lists of sessions still to be closed never overflow, so no session is   *)
(* forgotten before its application side is closed; a DELETE stops all     *)
(* requests; no two threads remove the same session.                       *)
(***************************************************************************)
EXTENDS McpSessions, FiniteSetTheorems, TLAPS

-----------------------------------------------------------------------------
(* The inductive invariant.                                                *)

Entry == [id : Ids, tries : Nat, busy : BOOLEAN]
Serving == halt \in {"up", "stopping"}

\* The sessions on the two lists, the ones the protocol knows, and those of
\* them that have or had an application side.
Waits   == {pend[n].id : n \in DOMAIN pend}
Shelved == {failed[n] : n \in DOMAIN failed}
Known   == {i \in Ids : sess[i] # "none"} \cup Waits \cup Shelved
Held    == {i \in Known : app[i] # "none"}

\* The types of everything but the lists.
PlainTypes ==
    /\ sess \in [Ids -> Live \cup {"none"}] /\ due \subseteq Ids
    /\ active \in [Ids -> [Keys -> {"none", "active", "stopped"}]]
    /\ app \in [Ids -> {"none", "open", "closing", "gone"}]
    /\ closer \in [Ids -> {"none", "stopping", "removing"}]
    /\ working \subseteq Ids /\ calls \in Nat
    /\ cleaner \in [at : {"idle", "removing"}, id : Ids \cup {NoId}]
    /\ halt \in {"up", "stopping", "shut", "leaving", "destroyed"}

\* A session is at most once on a list, and was tried at most once in vain.
ListTypes ==
    /\ pend \in Seq(Entry) /\ failed \in Seq(Ids)
    /\ \A n \in DOMAIN pend :
          pend[n].tries < MaximumAttempts \/ halt = "leaving"
    /\ \A m, n \in DOMAIN pend : pend[m].id = pend[n].id => m = n
    /\ \A m, n \in DOMAIN failed : failed[m] = failed[n] => m = n

\* What goes with the state of a session: the DELETE handler, the deadline,
\* the application side and the requests.
Stages ==
    \A i \in Ids :
        /\ closer[i] # "none" <=> sess[i] = "closing"
        /\ i \in due => sess[i] = "awaiting"
        /\ sess[i] \notin {"none", "opening"} => app[i] # "none"
        /\ app[i] = "none" \/ sess[i] \in {"opening", "awaiting"} =>
              \A k \in Keys : active[i][k] = "none"
        /\ ~Serving => closer[i] = "none" /\ sess[i] # "opening"

\* A session on a list has left the map, and is on one list only; the cleanup
\* worker removes one of the pending ones.
Lists ==
    /\ \A i \in Waits \cup Shelved : sess[i] = "none" /\ app[i] # "none"
    /\ Waits \cap Shelved = {}
    /\ cleaner.at = "removing" => cleaner.id \in Waits

\* What the protocol knows took a slot of the operation service, and has it
\* until the service is shut down; afterwards there are no more of them.
Room ==
    /\ IsFiniteSet(Held) /\ Cardinality(Held) <= MaxSessions
    /\ Serving => \A i \in Known : app[i] # "gone"

\* A session with a slot is known.
Kept ==
    halt # "destroyed" =>
        \A i \in Ids : app[i] \in {"open", "closing"} => i \in Known

SessionsInv ==
    /\ PlainTypes /\ ListTypes /\ Stages /\ Lists /\ Room /\ Kept
    /\ DeleteStopsEverything /\ NothingIsDropped

-----------------------------------------------------------------------------
(* The lists.                                                              *)

\* What is on the lists is a session.
LEMMA Listed ==
  ASSUME ListTypes
  PROVE  /\ Waits \subseteq Ids /\ Shelved \subseteq Ids /\ Known \subseteq Ids
         /\ DOMAIN pend = 1 .. Len(pend) /\ Len(pend) \in Nat
         /\ DOMAIN failed = 1 .. Len(failed) /\ Len(failed) \in Nat
         /\ \A n \in DOMAIN pend : pend[n] \in Entry /\ pend[n].id \in Ids
<1>1. /\ DOMAIN pend = 1 .. Len(pend) /\ Len(pend) \in Nat
      /\ DOMAIN failed = 1 .. Len(failed) /\ Len(failed) \in Nat
  BY DEF ListTypes
<1>2. \A n \in DOMAIN pend : pend[n] \in Entry
  BY DEF ListTypes
<1>3. \A n \in DOMAIN pend : pend[n].id \in Ids
  BY <1>2 DEF Entry
<1>4. \A n \in DOMAIN failed : failed[n] \in Ids
  BY DEF ListTypes
<1>5. Waits \subseteq Ids /\ Shelved \subseteq Ids
  BY <1>3, <1>4 DEF Waits, Shelved
<1> QED
  BY <1>1, <1>2, <1>3, <1>5 DEF Known

\* Different entries need as many elements.
LEMMA Counted ==
  ASSUME NEW S, IsFiniteSet(S), NEW m \in Nat, NEW f \in [1 .. m -> S],
         \A i, j \in 1 .. m : f[i] = f[j] => i = j
  PROVE  m <= Cardinality(S)
<1>1. f \in Injection(1 .. m, S)
  BY DEF Injection, IsInjective
<1>2. Cardinality(1 .. m) <= Cardinality(S)
  BY <1>1, FS_Injection
<1>3. Cardinality(1 .. m) = m
  <2>1. Cardinality(1 .. m) = IF 1 > m THEN 0 ELSE m - 1 + 1
    BY FS_Interval
  <2> QED
    BY <2>1
<1> QED
  BY <1>2, <1>3

\* The lists are shorter than their bounds: each entry holds a slot.
LEMMA ListsFit ==
  ASSUME ListTypes, Lists, Room
  PROVE  /\ Len(pend) < MaximumPending
         /\ \A i \in Waits : Len(failed) < MaxSessions
<1>1. /\ Waits \subseteq Held /\ Shelved \subseteq Held
      /\ IsFiniteSet(Held) /\ Cardinality(Held) \in Nat
      /\ Cardinality(Held) <= MaxSessions /\ MaxSessions \in Nat \ {0}
  <2>1. IsFiniteSet(Held) /\ Cardinality(Held) <= MaxSessions
    BY DEF Room
  <2>2. Cardinality(Held) \in Nat
    BY <2>1, FS_CardinalityType
  <2>3. Waits \subseteq Held /\ Shelved \subseteq Held
    BY DEF Held, Known, Lists
  <2> QED
    BY <2>1, <2>2, <2>3, SessionBounds
<1>2. Len(pend) <= Cardinality(Held)
  <2> DEFINE f == [n \in 1 .. Len(pend) |-> pend[n].id]
  <2>1. f \in [1 .. Len(pend) -> Held] /\ Len(pend) \in Nat
    BY <1>1, Listed DEF Waits
  <2>2. \A i, j \in 1 .. Len(pend) : f[i] = f[j] => i = j
    BY Listed DEF ListTypes
  <2> HIDE DEF f
  <2> QED
    BY <1>1, <2>1, <2>2, Counted
<1>3. ASSUME NEW i \in Waits PROVE  Len(failed) < MaxSessions
  <2>1. /\ IsFiniteSet(Held \ {i})
        /\ Cardinality(Held \ {i}) = Cardinality(Held) - 1
    BY <1>1, FS_RemoveElement
  <2>2. failed \in [1 .. Len(failed) -> Held \ {i}] /\ Len(failed) \in Nat
    <3>1. \A n \in DOMAIN failed : failed[n] \in Held /\ failed[n] # i
      BY <1>1 DEF Shelved, Lists
    <3> QED
      BY <3>1, Listed DEF ListTypes
  <2>3. \A m, n \in 1 .. Len(failed) : failed[m] = failed[n] => m = n
    BY Listed DEF ListTypes
  <2>4. Len(failed) <= Cardinality(Held \ {i})
    BY <2>1, <2>2, <2>3, Counted
  <2> QED
    BY <1>1, <2>1, <2>2, <2>4
<1> QED
  BY <1>1, <1>2, <1>3, Listed DEF MaximumPending

\* A session is put on the pending list.
LEMMA Joined ==
  ASSUME ListTypes, NEW i \in Ids, NEW tries \in {0, 1}, i \notin Waits,
         Len(pend) < MaximumPending, HandOver(i, tries), halt' = halt
  PROVE  /\ ListTypes' /\ Waits' = Waits \cup {i} /\ Shelved' = Shelved
         /\ dropped' = dropped
<1> DEFINE e == [id |-> i, tries |-> tries, busy |-> FALSE]
<1>1. /\ pend' = Append(pend, e) /\ failed' = failed /\ dropped' = dropped
  BY DEF HandOver
<1>2. e \in Entry /\ e.id = i /\ e.tries < MaximumAttempts
  BY DEF Entry, MaximumAttempts
<1> HIDE DEF e
<1>3. /\ pend' \in Seq(Entry) /\ DOMAIN pend' = 1 .. (Len(pend) + 1)
      /\ pend'[Len(pend) + 1] = e
      /\ \A n \in 1 .. Len(pend) : pend'[n] = pend[n]
  BY <1>1, <1>2 DEF ListTypes
<1>4. DOMAIN pend = 1 .. Len(pend) /\ Len(pend) \in Nat
  BY Listed
<1>5. \A n \in 1 .. (Len(pend) + 1) : n \in 1 .. Len(pend) \/ n = Len(pend) + 1
  BY <1>4
<1>6. Waits' = Waits \cup {i}
  <2>1. \A n \in 1 .. Len(pend) : n \in 1 .. (Len(pend) + 1)
    BY <1>4
  <2>2. Len(pend) + 1 \in 1 .. (Len(pend) + 1)
    BY <1>4
  <2> QED
    BY <1>2, <1>3, <1>4, <1>5, <2>1, <2>2 DEF Waits
<1>7. \A n \in DOMAIN pend' :
         pend'[n].tries < MaximumAttempts \/ halt' = "leaving"
  BY <1>2, <1>3, <1>4, <1>5 DEF ListTypes
<1>8. \A m, n \in DOMAIN pend' : pend'[m].id = pend'[n].id => m = n
  <2>1. \A n \in 1 .. Len(pend) : pend[n].id # i
    BY <1>4 DEF Waits
  <2> QED
    BY <1>2, <1>3, <1>4, <1>5, <2>1 DEF ListTypes
<1> QED
  BY <1>1, <1>3, <1>6, <1>7, <1>8 DEF ListTypes, Shelved

\* An entry is erased from the pending list.
LEMMA Erased ==
  ASSUME ListTypes, NEW i \in Waits, Settled(i)
  PROVE  /\ pend' \in Seq(Entry) /\ Waits' = Waits \ {i}
         /\ \A n \in DOMAIN pend' : \E m \in DOMAIN pend : pend'[n] = pend[m]
         /\ \A m, n \in DOMAIN pend' : pend'[m].id = pend'[n].id => m = n
<1> DEFINE p == Place(i)
<1>1. /\ DOMAIN pend = 1 .. Len(pend) /\ Len(pend) \in Nat
      /\ \A n \in 1 .. Len(pend) : pend[n] \in Entry
  BY Listed
<1>2. p \in 1 .. Len(pend) /\ pend[p].id = i
  BY <1>1 DEF Waits, Place
<1> HIDE DEF p
<1>3. /\ DOMAIN pend' = 1 .. (Len(pend) - 1)
      /\ \A n \in 1 .. (Len(pend) - 1) :
            pend'[n] = IF n < p THEN pend[n] ELSE pend[n + 1]
  BY DEF Settled, p
<1>4. \A n \in 1 .. (Len(pend) - 1) :
         n \in 1 .. Len(pend) /\ n + 1 \in 1 .. Len(pend)
  BY <1>1
<1>5. pend' \in Seq(Entry)
  <2>1. \A n \in 1 .. (Len(pend) - 1) :
           (IF n < p THEN pend[n] ELSE pend[n + 1]) \in Entry
    BY <1>1, <1>4
  <2>2. Len(pend) - 1 \in Nat
    BY <1>1, <1>2
  <2> QED
    BY <2>1, <2>2 DEF Settled, p
<1>6. \A n \in DOMAIN pend' : \E m \in DOMAIN pend :
         m # p /\ pend'[n] = pend[m]
  <2>1. SUFFICES ASSUME NEW n \in 1 .. (Len(pend) - 1)
                 PROVE  \E m \in 1 .. Len(pend) : m # p /\ pend'[n] = pend[m]
    BY <1>1, <1>3
  <2>2. CASE n < p
    BY <1>2, <1>3, <1>4, <2>1, <2>2
  <2>3. CASE ~(n < p)
    <3>1. n + 1 # p /\ n + 1 \in 1 .. Len(pend) /\ pend'[n] = pend[n + 1]
      BY <1>1, <1>2, <1>3, <1>4, <2>3
    <3> QED
      BY <3>1
  <2> QED
    BY <2>2, <2>3
<1>7. \A m \in 1 .. Len(pend) : m # p => \E n \in DOMAIN pend' :
         pend'[n] = pend[m]
  <2>1. SUFFICES ASSUME NEW m \in 1 .. Len(pend), m # p
                 PROVE  \E n \in 1 .. (Len(pend) - 1) : pend'[n] = pend[m]
    BY <1>3
  <2>2. CASE m < p
    <3>1. m \in 1 .. (Len(pend) - 1)
      BY <1>1, <1>2, <2>2
    <3> QED
      BY <1>3, <2>2, <3>1
  <2>3. CASE ~(m < p)
    <3>1. m - 1 \in 1 .. (Len(pend) - 1) /\ ~(m - 1 < p) /\ (m - 1) + 1 = m
      BY <1>1, <1>2, <2>1, <2>3
    <3> QED
      BY <1>3, <3>1
  <2> QED
    BY <2>2, <2>3
<1>8. \A m \in DOMAIN pend : pend[m].id = i => m = p
  BY <1>1, <1>2 DEF ListTypes
<1>9. Waits' = Waits \ {i}
  <2>1. \A n \in DOMAIN pend' : pend'[n].id \in Waits \ {i}
    BY <1>6, <1>8 DEF Waits
  <2>2. \A w \in Waits \ {i} : \E n \in DOMAIN pend' : pend'[n].id = w
    <3>1. \A m \in 1 .. Len(pend) : pend[m].id # i =>
             \E n \in DOMAIN pend' : pend'[n].id = pend[m].id
      BY <1>2, <1>7
    <3> QED
      BY <1>1, <3>1 DEF Waits
  <2> QED
    BY <2>1, <2>2 DEF Waits
<1>10. \A m, n \in DOMAIN pend' : pend'[m].id = pend'[n].id => m = n
  <2> DEFINE from(n) == IF n < p THEN n ELSE n + 1
  <2>1. \A n \in 1 .. (Len(pend) - 1) :
           from(n) \in 1 .. Len(pend) /\ pend'[n] = pend[from(n)]
    BY <1>3, <1>4
  <2>2. \A m, n \in 1 .. (Len(pend) - 1) : from(m) = from(n) => m = n
    BY <1>1, <1>2
  <2> HIDE DEF from
  <2> QED
    BY <1>1, <1>3, <2>1, <2>2 DEF ListTypes
<1> QED
  BY <1>5, <1>6, <1>9, <1>10

\* A session is put on the failed list.
LEMMA Shelving ==
  ASSUME ListTypes, NEW i \in Ids, i \notin Shelved,
         failed' = Append(failed, i)
  PROVE  /\ failed' \in Seq(Ids) /\ Shelved' = Shelved \cup {i}
         /\ \A m, n \in DOMAIN failed' : failed'[m] = failed'[n] => m = n
<1>1. DOMAIN failed = 1 .. Len(failed) /\ Len(failed) \in Nat
  BY Listed
<1>2. /\ failed' \in Seq(Ids) /\ DOMAIN failed' = 1 .. (Len(failed) + 1)
      /\ failed'[Len(failed) + 1] = i
      /\ \A n \in 1 .. Len(failed) : failed'[n] = failed[n]
  BY DEF ListTypes
<1>3. \A n \in 1 .. (Len(failed) + 1) :
         n \in 1 .. Len(failed) \/ n = Len(failed) + 1
  BY <1>1
<1>4. Shelved' = Shelved \cup {i}
  <2>1. \A n \in 1 .. Len(failed) : n \in 1 .. (Len(failed) + 1)
    BY <1>1
  <2>2. Len(failed) + 1 \in 1 .. (Len(failed) + 1)
    BY <1>1
  <2> QED
    BY <1>1, <1>2, <1>3, <2>1, <2>2 DEF Shelved
<1>5. \A m, n \in DOMAIN failed' : failed'[m] = failed'[n] => m = n
  <2>1. \A n \in 1 .. Len(failed) : failed[n] # i
    BY <1>1 DEF Shelved
  <2> QED
    BY <1>1, <1>2, <1>3, <2>1 DEF ListTypes
<1> QED
  BY <1>2, <1>4, <1>5

-----------------------------------------------------------------------------
(* The steps.                                                              *)

\* Everything but the lists keeps its type.
LEMMA PlainStep ==
  ASSUME PlainTypes, ListTypes, Lists, SessionsNext
  PROVE  PlainTypes'
<1>1. ASSUME NEW i \in Ids, CreateSession(i) PROVE  PlainTypes'
  BY <1>1 DEF CreateSession, PlainTypes, Live
<1>2. ASSUME NEW i \in Ids, RegisterSession(i) PROVE  PlainTypes'
  BY <1>2 DEF RegisterSession, PlainTypes, Live
<1>3. ASSUME NEW i \in Ids, ArmDeadline(i) PROVE  PlainTypes'
  BY <1>3 DEF ArmDeadline, PlainTypes, Live
<1>4. ASSUME NEW i \in Ids, DeadlinePasses(i) PROVE  PlainTypes'
  BY <1>4 DEF DeadlinePasses, PlainTypes, Live
<1>5. ASSUME NEW i \in Ids, MarkInitialized(i) PROVE  PlainTypes'
  BY <1>5 DEF MarkInitialized, PlainTypes, Live
<1>6. ASSUME NEW i \in Ids, ExpireSession(i) PROVE  PlainTypes'
  BY <1>6 DEF ExpireSession, PlainTypes, Live
<1>7. ASSUME NEW i \in Ids, NEW k \in Keys, BeginRequest(i, k)
      PROVE  PlainTypes'
  BY <1>7 DEF BeginRequest, PlainTypes, Live
<1>8. ASSUME NEW i \in Ids, NEW k \in Keys, StartOperation(i, k)
      PROVE  PlainTypes'
  BY <1>8 DEF StartOperation, PlainTypes, Live
<1>9. ASSUME NEW i \in Ids, OperationEnds(i) PROVE  PlainTypes'
  BY <1>9 DEF OperationEnds, PlainTypes, Live
<1>10. ASSUME NEW i \in Ids, NEW k \in Keys, StopRequest(i, k)
       PROVE  PlainTypes'
  BY <1>10 DEF StopRequest, PlainTypes, Live
<1>11. ASSUME NEW i \in Ids, NEW k \in Keys, FinishCall(i, k)
       PROVE  PlainTypes'
  BY <1>11 DEF FinishCall, PlainTypes, Live
<1>12. ASSUME NEW i \in Ids, BeginDelete(i) PROVE  PlainTypes'
  BY <1>12 DEF BeginDelete, PlainTypes, Live
<1>13. ASSUME NEW i \in Ids, StopRequests(i) PROVE  PlainTypes'
  BY <1>13 DEF StopRequests, PlainTypes, Live
<1>14. ASSUME NEW i \in Ids, FinishDelete(i) PROVE  PlainTypes'
  BY <1>14 DEF FinishDelete, PlainTypes, Live
<1>15. ASSUME NEW i \in Ids, BeginCleanup(i) PROVE  PlainTypes'
  BY <1>15 DEF BeginCleanup, PlainTypes, Live
<1>16. ASSUME FinishCleanup PROVE  PlainTypes'
  <2>1. cleaner' = [at |-> "idle", id |-> NoId]
        /\ UNCHANGED <<sess, due, active, working, closer, halt, calls>>
    BY <1>16 DEF FinishCleanup
  <2>2. app' = app \/ app' = [app EXCEPT ![cleaner.id] = "gone"]
    BY <1>16 DEF FinishCleanup
  <2>3. app' \in [Ids -> {"none", "open", "closing", "gone"}]
    BY <2>2 DEF PlainTypes
  <2> QED
    BY <2>1, <2>3 DEF PlainTypes
<1>17. ASSUME StopServer PROVE  PlainTypes'
  BY <1>17 DEF StopServer, PlainTypes, Live
<1>18. ASSUME ShutdownService PROVE  PlainTypes'
  BY <1>18 DEF ShutdownService, PlainTypes, Live
<1>19. ASSUME LeaveProtocol PROVE  PlainTypes'
  BY <1>19 DEF LeaveProtocol, PlainTypes, Live
<1>20. ASSUME DestroyProtocol PROVE  PlainTypes'
  BY <1>20 DEF DestroyProtocol, PlainTypes, Live
<1> QED
  BY <1>1, <1>2, <1>3, <1>4, <1>5, <1>6, <1>7, <1>8, <1>9, <1>10, <1>11,
    <1>12, <1>13, <1>14, <1>15, <1>16, <1>17, <1>18, <1>19, <1>20 DEF
    SessionsNext, Handlers, Threads

\* A DELETE or a deadline puts a session on the pending list.
LEMMA HandedOver ==
  ASSUME ListTypes, Lists, Room, NEW i \in Ids, sess[i] # "none",
         NEW tries \in {0, 1}, HandOver(i, tries), halt' = halt
  PROVE  /\ ListTypes' /\ Waits' = Waits \cup {i} /\ Shelved' = Shelved
         /\ dropped' = dropped
<1>1. i \notin Waits
  BY DEF Lists
<1> QED
  BY <1>1, Joined, ListsFit

\* The cleanup worker takes an entry.
LEMMA Marked ==
  ASSUME ListTypes, NEW i \in Ids, BeginCleanup(i)
  PROVE  ListTypes' /\ Waits' = Waits /\ Shelved' = Shelved /\ i \in Waits
<1>1. PICK n \in DOMAIN pend : /\ pend[n].id = i
                               /\ pend' = [pend EXCEPT ![n].busy = TRUE]
  BY DEF BeginCleanup
<1>2. failed' = failed /\ halt' = halt
  BY DEF BeginCleanup
<1>3. pend[n] \in Entry /\ DOMAIN pend = 1 .. Len(pend) /\ Len(pend) \in Nat
  BY Listed
<1>4. PICK e : e = [pend[n] EXCEPT !.busy = TRUE]
  OBVIOUS
<1>5. e \in Entry /\ e.id = pend[n].id /\ e.tries = pend[n].tries
  BY <1>3, <1>4 DEF Entry
<1>6. pend' = [pend EXCEPT ![n] = e]
  BY <1>1, <1>4 DEF ListTypes
<1>7. pend' \in Seq(Entry) /\ DOMAIN pend' = DOMAIN pend
  BY <1>5, <1>6 DEF ListTypes
<1>8. \A m \in DOMAIN pend :
         pend'[m].id = pend[m].id /\ pend'[m].tries = pend[m].tries
  BY <1>5, <1>6 DEF ListTypes
<1>9. Waits' = Waits /\ i \in Waits
  BY <1>1, <1>7, <1>8 DEF Waits
<1>10. ListTypes'
  BY <1>2, <1>7, <1>8 DEF ListTypes
<1> QED
  BY <1>2, <1>9, <1>10 DEF Shelved

\* The cleanup worker has closed a session, has failed and will try again, or
\* has failed for the last time.
LEMMA Cleaned ==
  ASSUME PlainTypes, ListTypes, Lists, Room, FinishCleanup
  PROVE  /\ ListTypes' /\ dropped' = dropped
         /\ \/ /\ app[cleaner.id] = "closing"
               /\ app' = [app EXCEPT ![cleaner.id] = "gone"]
               /\ Waits' = Waits \ {cleaner.id} /\ Shelved' = Shelved
            \/ app' = app /\ Waits' = Waits /\ Shelved' = Shelved
            \/ /\ app' = app /\ Waits' = Waits \ {cleaner.id}
               /\ Shelved' = Shelved \cup {cleaner.id}
<1> DEFINE i == cleaner.id
           tries == 1 + pend[Place(i)].tries
<1>1. i \in Waits /\ halt' = halt
  BY DEF FinishCleanup, Lists
<1>2. /\ Place(i) \in DOMAIN pend /\ pend[Place(i)].id = i
  BY <1>1 DEF Waits, Place
<1>3. i \in Ids /\ tries \in Nat
  <2>1. pend[Place(i)] \in Entry
    BY <1>2, Listed
  <2> QED
    BY <1>1, <2>1, Listed DEF Entry
<1>4. Len(failed) < MaxSessions /\ i \notin Shelved
  BY <1>1, ListsFit DEF Lists
<1>5. Len(failed) # MaxSessions
  <2>1. Len(failed) \in Nat /\ MaxSessions \in Nat
    BY Listed, SessionBounds
  <2> QED
    BY <1>4, <2>1
<1>6. \/ /\ app[i] = "closing" /\ app' = [app EXCEPT ![i] = "gone"]
         /\ Settled(i) /\ UNCHANGED <<failed, dropped>>
      \/ /\ ~Exhausted(tries) \/ halt = "leaving"
         /\ pend' = [n \in DOMAIN pend |->
                       IF pend[n].id = i
                       THEN [id |-> i, tries |-> tries, busy |-> FALSE]
                       ELSE pend[n]]
         /\ UNCHANGED <<app, failed, dropped>>
      \/ /\ Settled(i) /\ failed' = Append(failed, i)
         /\ dropped' = dropped /\ app' = app
  BY <1>5 DEF FinishCleanup
<1> HIDE DEF i, tries
<1>7. ASSUME Settled(i)
      PROVE  /\ pend' \in Seq(Entry) /\ Waits' = Waits \ {i}
             /\ \A n \in DOMAIN pend' :
                   pend'[n].tries < MaximumAttempts \/ halt' = "leaving"
             /\ \A m, n \in DOMAIN pend' : pend'[m].id = pend'[n].id => m = n
  <2>1. /\ pend' \in Seq(Entry) /\ Waits' = Waits \ {i}
        /\ \A n \in DOMAIN pend' : \E m \in DOMAIN pend : pend'[n] = pend[m]
        /\ \A m, n \in DOMAIN pend' : pend'[m].id = pend'[n].id => m = n
    BY <1>1, <1>7, Erased
  <2>2. \A n \in DOMAIN pend' :
           pend'[n].tries < MaximumAttempts \/ halt' = "leaving"
    BY <1>1, <2>1 DEF ListTypes
  <2> QED
    BY <2>1, <2>2
<1>8. CASE /\ app[i] = "closing" /\ app' = [app EXCEPT ![i] = "gone"]
           /\ Settled(i) /\ UNCHANGED <<failed, dropped>>
  <2>1. ListTypes'
    BY <1>7, <1>8 DEF ListTypes
  <2>2. Shelved' = Shelved
    BY <1>8 DEF Shelved
  <2> QED
    BY <1>7, <1>8, <2>1, <2>2 DEF i
<1>9. CASE /\ ~Exhausted(tries) \/ halt = "leaving"
           /\ pend' = [n \in DOMAIN pend |->
                         IF pend[n].id = i
                         THEN [id |-> i, tries |-> tries, busy |-> FALSE]
                         ELSE pend[n]]
           /\ UNCHANGED <<app, failed, dropped>>
  <2>1. PICK e : e = [id |-> i, tries |-> tries, busy |-> FALSE]
    OBVIOUS
  <2>2. e \in Entry /\ e.id = i /\ e.tries = tries
    BY <1>3, <2>1 DEF Entry
  <2>3. pend' = [n \in DOMAIN pend |-> IF pend[n].id = i THEN e ELSE pend[n]]
    BY <1>9, <2>1
  <2>4. e.tries < MaximumAttempts \/ halt' = "leaving"
    BY <1>1, <1>3, <1>9, <2>2 DEF Exhausted, MaximumAttempts
  <2>5. pend' \in Seq(Entry) /\ DOMAIN pend' = DOMAIN pend
    <3>1. /\ DOMAIN pend = 1 .. Len(pend) /\ Len(pend) \in Nat
          /\ \A n \in DOMAIN pend : pend[n] \in Entry
      BY Listed
    <3>2. \A n \in 1 .. Len(pend) :
             (IF pend[n].id = i THEN e ELSE pend[n]) \in Entry
      BY <2>2, <3>1
    <3> QED
      BY <2>3, <3>1, <3>2
  <2>6. \A n \in DOMAIN pend : /\ pend'[n] = e \/ pend'[n] = pend[n]
                               /\ pend'[n].id = pend[n].id
    BY <2>2, <2>3
  <2>7. \A n \in DOMAIN pend' :
           pend'[n].tries < MaximumAttempts \/ halt' = "leaving"
    BY <1>1, <2>4, <2>5, <2>6 DEF ListTypes
  <2>8. \A m, n \in DOMAIN pend' : pend'[m].id = pend'[n].id => m = n
    BY <2>5, <2>6 DEF ListTypes
  <2>9. ListTypes'
    BY <1>9, <2>5, <2>7, <2>8 DEF ListTypes
  <2>10. Waits' = Waits /\ Shelved' = Shelved
    BY <1>9, <2>5, <2>6 DEF Waits, Shelved
  <2> QED
    BY <1>9, <2>9, <2>10
<1>10. CASE /\ Settled(i) /\ failed' = Append(failed, i)
            /\ dropped' = dropped /\ app' = app
  <2>1. /\ failed' \in Seq(Ids) /\ Shelved' = Shelved \cup {i}
        /\ \A m, n \in DOMAIN failed' : failed'[m] = failed'[n] => m = n
    BY <1>3, <1>4, <1>10, Shelving
  <2>2. ListTypes'
    BY <1>7, <1>10, <2>1 DEF ListTypes
  <2> QED
    BY <1>7, <1>10, <2>1, <2>2 DEF i
<1> QED
  BY <1>6, <1>8, <1>9, <1>10

\* The lists keep their type, and nothing is ever dropped from them.
LEMMA ListStep ==
  ASSUME PlainTypes, ListTypes, Stages, Lists, Room,
         NothingIsDropped, SessionsNext
  PROVE  ListTypes' /\ NothingIsDropped'
<1>1. ASSUME NEW i \in Ids, CreateSession(i)
      PROVE  ListTypes' /\ NothingIsDropped'
  <2>1. pend' = pend /\ failed' = failed /\ dropped' = dropped /\ halt' = halt
    BY <1>1 DEF CreateSession
  <2> QED
    BY <2>1 DEF ListTypes, NothingIsDropped
<1>2. ASSUME NEW i \in Ids, RegisterSession(i)
      PROVE  ListTypes' /\ NothingIsDropped'
  <2>1. pend' = pend /\ failed' = failed /\ dropped' = dropped /\ halt' = halt
    BY <1>2 DEF RegisterSession
  <2> QED
    BY <2>1 DEF ListTypes, NothingIsDropped
<1>3. ASSUME NEW i \in Ids, ArmDeadline(i)
      PROVE  ListTypes' /\ NothingIsDropped'
  <2>1. pend' = pend /\ failed' = failed /\ dropped' = dropped /\ halt' = halt
    BY <1>3 DEF ArmDeadline
  <2> QED
    BY <2>1 DEF ListTypes, NothingIsDropped
<1>4. ASSUME NEW i \in Ids, DeadlinePasses(i)
      PROVE  ListTypes' /\ NothingIsDropped'
  <2>1. pend' = pend /\ failed' = failed /\ dropped' = dropped /\ halt' = halt
    BY <1>4 DEF DeadlinePasses
  <2> QED
    BY <2>1 DEF ListTypes, NothingIsDropped
<1>5. ASSUME NEW i \in Ids, MarkInitialized(i)
      PROVE  ListTypes' /\ NothingIsDropped'
  <2>1. pend' = pend /\ failed' = failed /\ dropped' = dropped /\ halt' = halt
    BY <1>5 DEF MarkInitialized
  <2> QED
    BY <2>1 DEF ListTypes, NothingIsDropped
<1>6. ASSUME NEW i \in Ids, ExpireSession(i)
      PROVE  ListTypes' /\ NothingIsDropped'
  <2>1. HandOver(i, 0) /\ sess[i] # "none" /\ halt' = halt
    BY <1>6 DEF ExpireSession
  <2> QED
    BY <2>1, HandedOver DEF NothingIsDropped
<1>7. ASSUME NEW i \in Ids, NEW k \in Keys, BeginRequest(i, k)
      PROVE  ListTypes' /\ NothingIsDropped'
  <2>1. pend' = pend /\ failed' = failed /\ dropped' = dropped /\ halt' = halt
    BY <1>7 DEF BeginRequest
  <2> QED
    BY <2>1 DEF ListTypes, NothingIsDropped
<1>8. ASSUME NEW i \in Ids, NEW k \in Keys, StartOperation(i, k)
      PROVE  ListTypes' /\ NothingIsDropped'
  <2>1. pend' = pend /\ failed' = failed /\ dropped' = dropped /\ halt' = halt
    BY <1>8 DEF StartOperation
  <2> QED
    BY <2>1 DEF ListTypes, NothingIsDropped
<1>9. ASSUME NEW i \in Ids, OperationEnds(i)
      PROVE  ListTypes' /\ NothingIsDropped'
  <2>1. pend' = pend /\ failed' = failed /\ dropped' = dropped /\ halt' = halt
    BY <1>9 DEF OperationEnds
  <2> QED
    BY <2>1 DEF ListTypes, NothingIsDropped
<1>10. ASSUME NEW i \in Ids, NEW k \in Keys, StopRequest(i, k)
       PROVE  ListTypes' /\ NothingIsDropped'
  <2>1. pend' = pend /\ failed' = failed /\ dropped' = dropped /\ halt' = halt
    BY <1>10 DEF StopRequest
  <2> QED
    BY <2>1 DEF ListTypes, NothingIsDropped
<1>11. ASSUME NEW i \in Ids, NEW k \in Keys, FinishCall(i, k)
       PROVE  ListTypes' /\ NothingIsDropped'
  <2>1. pend' = pend /\ failed' = failed /\ dropped' = dropped /\ halt' = halt
    BY <1>11 DEF FinishCall
  <2> QED
    BY <2>1 DEF ListTypes, NothingIsDropped
<1>12. ASSUME NEW i \in Ids, BeginDelete(i)
       PROVE  ListTypes' /\ NothingIsDropped'
  <2>1. pend' = pend /\ failed' = failed /\ dropped' = dropped /\ halt' = halt
    BY <1>12 DEF BeginDelete
  <2> QED
    BY <2>1 DEF ListTypes, NothingIsDropped
<1>13. ASSUME NEW i \in Ids, StopRequests(i)
       PROVE  ListTypes' /\ NothingIsDropped'
  <2>1. pend' = pend /\ failed' = failed /\ dropped' = dropped /\ halt' = halt
    BY <1>13 DEF StopRequests
  <2> QED
    BY <2>1 DEF ListTypes, NothingIsDropped
<1>14. ASSUME NEW i \in Ids, FinishDelete(i)
       PROVE  ListTypes' /\ NothingIsDropped'
  <2>1. sess[i] # "none" /\ halt' = halt
    BY <1>14 DEF FinishDelete, Stages
  <2>2. CASE HandOver(i, 1)
    BY <2>1, <2>2, HandedOver DEF NothingIsDropped
  <2>3. CASE ~HandOver(i, 1)
    <3>1. pend' = pend /\ failed' = failed /\ dropped' = dropped
      BY <1>14, <2>3 DEF FinishDelete
    <3> QED
      BY <2>1, <3>1 DEF ListTypes, NothingIsDropped
  <2> QED
    BY <2>2, <2>3
<1>15. ASSUME NEW i \in Ids, BeginCleanup(i)
       PROVE  ListTypes' /\ NothingIsDropped'
  <2>1. dropped' = dropped
    BY <1>15 DEF BeginCleanup
  <2> QED
    BY <1>15, <2>1, Marked DEF NothingIsDropped
<1>16. ASSUME FinishCleanup PROVE  ListTypes' /\ NothingIsDropped'
  BY <1>16, Cleaned DEF NothingIsDropped
<1>17. ASSUME StopServer PROVE  ListTypes' /\ NothingIsDropped'
  <2>1. /\ pend' = pend /\ failed' = failed /\ dropped' = dropped
        /\ halt # "leaving"
    BY <1>17 DEF StopServer
  <2> QED
    BY <2>1 DEF ListTypes, NothingIsDropped
<1>18. ASSUME ShutdownService PROVE  ListTypes' /\ NothingIsDropped'
  <2>1. /\ pend' = pend /\ failed' = failed /\ dropped' = dropped
        /\ halt # "leaving"
    BY <1>18 DEF ShutdownService
  <2> QED
    BY <2>1 DEF ListTypes, NothingIsDropped
<1>19. ASSUME LeaveProtocol PROVE  ListTypes' /\ NothingIsDropped'
  <2>1. /\ pend' = pend /\ failed' = failed /\ dropped' = dropped
        /\ halt # "leaving"
    BY <1>19 DEF LeaveProtocol
  <2> QED
    BY <2>1 DEF ListTypes, NothingIsDropped
<1>20. ASSUME DestroyProtocol PROVE  ListTypes' /\ NothingIsDropped'
  <2>1. pend' = <<>> /\ failed' = <<>> /\ dropped' = dropped
    BY <1>20 DEF DestroyProtocol
  <2> QED
    BY <2>1 DEF ListTypes, NothingIsDropped
<1> QED
  BY <1>1, <1>2, <1>3, <1>4, <1>5, <1>6, <1>7, <1>8, <1>9, <1>10, <1>11,
    <1>12, <1>13, <1>14, <1>15, <1>16, <1>17, <1>18, <1>19, <1>20 DEF
    SessionsNext, Handlers, Threads

\* What goes with the state of a session.
LEMMA StagesStep ==
  ASSUME PlainTypes, ListTypes, Stages, Lists, SessionsNext
  PROVE  Stages'
<1>1. ASSUME NEW i \in Ids, CreateSession(i) PROVE  Stages'
  BY <1>1 DEF CreateSession, Stages, PlainTypes, Serving, Live
<1>2. ASSUME NEW i \in Ids, RegisterSession(i) PROVE  Stages'
  BY <1>2 DEF RegisterSession, Stages, PlainTypes, Serving, Live
<1>3. ASSUME NEW i \in Ids, ArmDeadline(i) PROVE  Stages'
  BY <1>3 DEF ArmDeadline, Stages, PlainTypes, Serving, Live
<1>4. ASSUME NEW i \in Ids, DeadlinePasses(i) PROVE  Stages'
  BY <1>4 DEF DeadlinePasses, Stages, PlainTypes, Serving, Live
<1>5. ASSUME NEW i \in Ids, MarkInitialized(i) PROVE  Stages'
  BY <1>5 DEF MarkInitialized, Stages, PlainTypes, Serving, Live
<1>6. ASSUME NEW i \in Ids, ExpireSession(i) PROVE  Stages'
  BY <1>6 DEF ExpireSession, Stages, PlainTypes, Serving, Live
<1>7. ASSUME NEW i \in Ids, NEW k \in Keys, BeginRequest(i, k) PROVE  Stages'
  BY <1>7 DEF BeginRequest, Stages, PlainTypes, Serving, Live
<1>8. ASSUME NEW i \in Ids, NEW k \in Keys, StartOperation(i, k)
      PROVE  Stages'
  BY <1>8 DEF StartOperation, Stages, PlainTypes, Serving, Live
<1>9. ASSUME NEW i \in Ids, OperationEnds(i) PROVE  Stages'
  BY <1>9 DEF OperationEnds, Stages, PlainTypes, Serving, Live
<1>10. ASSUME NEW i \in Ids, NEW k \in Keys, StopRequest(i, k) PROVE  Stages'
  BY <1>10 DEF StopRequest, Stages, PlainTypes, Serving, Live
<1>11. ASSUME NEW i \in Ids, NEW k \in Keys, FinishCall(i, k) PROVE  Stages'
  BY <1>11 DEF FinishCall, Stages, PlainTypes, Serving, Live
<1>12. ASSUME NEW i \in Ids, BeginDelete(i) PROVE  Stages'
  BY <1>12 DEF BeginDelete, Stages, PlainTypes, Serving, Live
<1>13. ASSUME NEW i \in Ids, StopRequests(i) PROVE  Stages'
  BY <1>13 DEF StopRequests, Stages, PlainTypes, Serving, Live
<1>14. ASSUME NEW i \in Ids, FinishDelete(i) PROVE  Stages'
  BY <1>14 DEF FinishDelete, Stages, PlainTypes, Serving, Live
<1>15. ASSUME NEW i \in Ids, BeginCleanup(i) PROVE  Stages'
  BY <1>15 DEF BeginCleanup, Stages, PlainTypes, Serving, Live
<1>16. ASSUME FinishCleanup PROVE  Stages'
  <2>1. UNCHANGED <<sess, due, active, closer, halt>>
    BY <1>16 DEF FinishCleanup
  <2>2. app' = app \/ app' = [app EXCEPT ![cleaner.id] = "gone"]
    BY <1>16 DEF FinishCleanup
  <2>3. \A i \in Ids : app'[i] = "none" <=> app[i] = "none"
    <3>1. cleaner.id \in Waits
      BY <1>16 DEF FinishCleanup, Lists
    <3>2. app[cleaner.id] # "none"
      BY <3>1 DEF Lists
    <3> QED
      BY <2>2, <3>2 DEF PlainTypes
  <2> QED
    BY <2>1, <2>3 DEF Stages, Serving
<1>17. ASSUME StopServer PROVE  Stages'
  BY <1>17 DEF StopServer, Stages, PlainTypes, Serving, Live
<1>18. ASSUME ShutdownService PROVE  Stages'
  BY <1>18 DEF ShutdownService, WorkersIdle, Stages, PlainTypes,
    Serving, Live
<1>19. ASSUME LeaveProtocol PROVE  Stages'
  BY <1>19 DEF LeaveProtocol, Stages, PlainTypes, Serving, Live
<1>20. ASSUME DestroyProtocol PROVE  Stages'
  BY <1>20 DEF DestroyProtocol, Stages, PlainTypes, Serving, Live
<1> QED
  BY <1>1, <1>2, <1>3, <1>4, <1>5, <1>6, <1>7, <1>8, <1>9, <1>10, <1>11,
    <1>12, <1>13, <1>14, <1>15, <1>16, <1>17, <1>18, <1>19, <1>20 DEF
    SessionsNext, Handlers, Threads

\* A session on a list has left the map.
LEMMA ListsStep ==
  ASSUME PlainTypes, ListTypes, Stages, Lists, Room, SessionsNext
  PROVE  Lists'
<1>1. ASSUME NEW i \in Ids, CreateSession(i) PROVE  Lists'
  <2>1. Waits' = Waits /\ Shelved' = Shelved
    BY <1>1 DEF CreateSession, Waits, Shelved
  <2> QED
    BY <1>1, <2>1, Listed DEF CreateSession, Lists, PlainTypes
<1>2. ASSUME NEW i \in Ids, RegisterSession(i) PROVE  Lists'
  <2>1. Waits' = Waits /\ Shelved' = Shelved
    BY <1>2 DEF RegisterSession, Waits, Shelved
  <2> QED
    BY <1>2, <2>1, Listed DEF RegisterSession, Lists, PlainTypes
<1>3. ASSUME NEW i \in Ids, ArmDeadline(i) PROVE  Lists'
  <2>1. Waits' = Waits /\ Shelved' = Shelved
    BY <1>3 DEF ArmDeadline, Waits, Shelved
  <2> QED
    BY <1>3, <2>1, Listed DEF ArmDeadline, Lists, PlainTypes
<1>4. ASSUME NEW i \in Ids, DeadlinePasses(i) PROVE  Lists'
  <2>1. Waits' = Waits /\ Shelved' = Shelved
    BY <1>4 DEF DeadlinePasses, Waits, Shelved
  <2> QED
    BY <1>4, <2>1, Listed DEF DeadlinePasses, Lists, PlainTypes
<1>5. ASSUME NEW i \in Ids, MarkInitialized(i) PROVE  Lists'
  <2>1. Waits' = Waits /\ Shelved' = Shelved
    BY <1>5 DEF MarkInitialized, Waits, Shelved
  <2> QED
    BY <1>5, <2>1, Listed DEF MarkInitialized, Lists, PlainTypes
<1>6. ASSUME NEW i \in Ids, ExpireSession(i) PROVE  Lists'
  <2>1. HandOver(i, 0) /\ sess[i] = "awaiting" /\ halt' = halt
    BY <1>6 DEF ExpireSession
  <2>2. Waits' = Waits \cup {i} /\ Shelved' = Shelved
    BY <2>1, HandedOver
  <2>3. /\ sess' = [sess EXCEPT ![i] = "none"] /\ app' = app
        /\ cleaner' = cleaner
    BY <1>6 DEF ExpireSession
  <2>4. app[i] # "none" /\ i \notin Shelved
    BY <2>1 DEF Stages, Lists
  <2> QED
    BY <2>2, <2>3, <2>4, Listed DEF Lists, PlainTypes
<1>7. ASSUME NEW i \in Ids, NEW k \in Keys, BeginRequest(i, k) PROVE  Lists'
  <2>1. Waits' = Waits /\ Shelved' = Shelved
    BY <1>7 DEF BeginRequest, Waits, Shelved
  <2> QED
    BY <1>7, <2>1, Listed DEF BeginRequest, Lists, PlainTypes
<1>8. ASSUME NEW i \in Ids, NEW k \in Keys, StartOperation(i, k) PROVE  Lists'
  <2>1. Waits' = Waits /\ Shelved' = Shelved
    BY <1>8 DEF StartOperation, Waits, Shelved
  <2> QED
    BY <1>8, <2>1, Listed DEF StartOperation, Lists, PlainTypes
<1>9. ASSUME NEW i \in Ids, OperationEnds(i) PROVE  Lists'
  <2>1. Waits' = Waits /\ Shelved' = Shelved
    BY <1>9 DEF OperationEnds, Waits, Shelved
  <2> QED
    BY <1>9, <2>1, Listed DEF OperationEnds, Lists, PlainTypes
<1>10. ASSUME NEW i \in Ids, NEW k \in Keys, StopRequest(i, k) PROVE  Lists'
  <2>1. Waits' = Waits /\ Shelved' = Shelved
    BY <1>10 DEF StopRequest, Waits, Shelved
  <2> QED
    BY <1>10, <2>1, Listed DEF StopRequest, Lists, PlainTypes
<1>11. ASSUME NEW i \in Ids, NEW k \in Keys, FinishCall(i, k) PROVE  Lists'
  <2>1. Waits' = Waits /\ Shelved' = Shelved
    BY <1>11 DEF FinishCall, Waits, Shelved
  <2> QED
    BY <1>11, <2>1, Listed DEF FinishCall, Lists, PlainTypes
<1>12. ASSUME NEW i \in Ids, BeginDelete(i) PROVE  Lists'
  <2>1. Waits' = Waits /\ Shelved' = Shelved
    BY <1>12 DEF BeginDelete, Waits, Shelved
  <2> QED
    BY <1>12, <2>1, Listed DEF BeginDelete, Lists, PlainTypes
<1>13. ASSUME NEW i \in Ids, StopRequests(i) PROVE  Lists'
  <2>1. Waits' = Waits /\ Shelved' = Shelved
    BY <1>13 DEF StopRequests, Waits, Shelved
  <2> QED
    BY <1>13, <2>1, Listed DEF StopRequests, Lists, PlainTypes
<1>14. ASSUME NEW i \in Ids, FinishDelete(i) PROVE  Lists'
  <2>1. sess[i] = "closing" /\ halt' = halt /\ cleaner' = cleaner
    BY <1>14 DEF FinishDelete, Stages
  <2>2. sess' = [sess EXCEPT ![i] = "none"]
    BY <1>14 DEF FinishDelete
  <2>3. app[i] # "none" /\ i \notin Shelved
    BY <2>1 DEF Stages, Lists
  <2>4. CASE HandOver(i, 1) /\ app' = app
    <3>1. Waits' = Waits \cup {i} /\ Shelved' = Shelved
      BY <2>1, <2>4, HandedOver
    <3> QED
      BY <2>1, <2>2, <2>3, <2>4, <3>1, Listed DEF Lists, PlainTypes
  <2>5. CASE ~(HandOver(i, 1) /\ app' = app)
    <3>1. /\ app' = [app EXCEPT ![i] = "gone"]
          /\ Waits' = Waits /\ Shelved' = Shelved
      BY <1>14, <2>5 DEF FinishDelete, Waits, Shelved
    <3> QED
      BY <2>1, <2>2, <3>1, Listed DEF Lists, PlainTypes
  <2> QED
    BY <2>4, <2>5
<1>15. ASSUME NEW i \in Ids, BeginCleanup(i) PROVE  Lists'
  <2>1. /\ Waits' = Waits /\ Shelved' = Shelved /\ i \in Waits
    BY <1>15, Marked
  <2>2. sess' = sess /\ cleaner' = [at |-> "removing", id |-> i]
    BY <1>15 DEF BeginCleanup
  <2>3. app' = [app EXCEPT ![i] = IF app[i] = "open" THEN "closing" ELSE app[i]]
    BY <1>15, Zenon DEF BeginCleanup
  <2>4. \A j \in Ids : app[j] # "none" => app'[j] # "none"
    BY <2>3 DEF PlainTypes
  <2> QED
    BY <2>1, <2>2, <2>4, Listed DEF Lists
<1>16. ASSUME FinishCleanup PROVE  Lists'
  <2>1. /\ sess' = sess /\ cleaner'.at # "removing" /\ cleaner.id \in Waits
    BY <1>16 DEF FinishCleanup, Lists
  <2>2. \A j \in Ids : app[j] # "none" => app'[j] # "none"
    BY <1>16, Cleaned DEF PlainTypes
  <2>3. /\ Waits' \cup Shelved' \subseteq Waits \cup Shelved
        /\ Waits' \cap Shelved' = {}
    BY <1>16, <2>1, Cleaned DEF Lists
  <2> QED
    BY <2>1, <2>2, <2>3, Listed DEF Lists
<1>17. ASSUME StopServer PROVE  Lists'
  <2>1. Waits' = Waits /\ Shelved' = Shelved
    BY <1>17 DEF StopServer, Waits, Shelved
  <2> QED
    BY <1>17, <2>1, Listed DEF StopServer, Lists, PlainTypes
<1>18. ASSUME ShutdownService PROVE  Lists'
  <2>1. Waits' = Waits /\ Shelved' = Shelved
    BY <1>18 DEF ShutdownService, Waits, Shelved
  <2> QED
    BY <1>18, <2>1, Listed DEF ShutdownService, Lists, PlainTypes
<1>19. ASSUME LeaveProtocol PROVE  Lists'
  <2>1. Waits' = Waits /\ Shelved' = Shelved
    BY <1>19 DEF LeaveProtocol, Waits, Shelved
  <2> QED
    BY <1>19, <2>1, Listed DEF LeaveProtocol, Lists, PlainTypes
<1>20. ASSUME DestroyProtocol PROVE  Lists'
  <2>1. Waits' = {} /\ Shelved' = {} /\ cleaner'.at # "removing"
    BY <1>20 DEF DestroyProtocol, Waits, Shelved
  <2> QED
    BY <2>1 DEF Lists
<1> QED
  BY <1>1, <1>2, <1>3, <1>4, <1>5, <1>6, <1>7, <1>8, <1>9, <1>10, <1>11,
    <1>12, <1>13, <1>14, <1>15, <1>16, <1>17, <1>18, <1>19, <1>20 DEF
    SessionsNext, Handlers, Threads

\* A part of what was held is finite and as small.
LEMMA RoomShrinks ==
  ASSUME Room, Held' \subseteq Held
  PROVE  IsFiniteSet(Held') /\ Cardinality(Held') <= MaxSessions
<1>1. IsFiniteSet(Held) /\ Cardinality(Held) <= MaxSessions
  BY DEF Room
<1>2. IsFiniteSet(Held') /\ Cardinality(Held') <= Cardinality(Held)
  BY <1>1, FS_Subset
<1>3. Cardinality(Held) \in Nat /\ Cardinality(Held') \in Nat
  BY <1>1, <1>2, FS_CardinalityType
<1> QED
  BY <1>1, <1>2, <1>3, SessionBounds

\* What the protocol knows fits the slots of the operation service.
LEMMA RoomStep ==
  ASSUME PlainTypes, ListTypes, Stages, Lists, Room, Kept, SessionsNext
  PROVE  Room'
<1>1. ASSUME NEW i \in Ids, CreateSession(i) PROVE  Room'
  <2>1. Waits' = Waits /\ Shelved' = Shelved
    BY <1>1 DEF CreateSession, Waits, Shelved
  <2>2. Held' \subseteq Held
    BY <1>1, <2>1, Listed DEF CreateSession, Held, Known, PlainTypes, Live
  <2>3. Serving' => \A j \in Known' : app'[j] # "gone"
    BY <1>1, <2>1, Listed DEF CreateSession, Known, Room, Serving, PlainTypes
  <2> QED
    BY <2>2, <2>3, RoomShrinks DEF Room
<1>2. ASSUME NEW i \in Ids, RegisterSession(i) PROVE  Room'
  <2>1. /\ Waits' = Waits /\ Shelved' = Shelved /\ halt' = halt
        /\ sess[i] = "opening" /\ app[i] = "none"
    BY <1>2 DEF RegisterSession, Waits, Shelved
  <2>2. CASE halt = "up" /\ Count(app, {"open", "closing"}) < MaxSessions
    <3>1. app' = [app EXCEPT ![i] = "open"] /\ sess' = sess
      BY <1>2, <2>2 DEF RegisterSession
    <3>2. Held' = Held \cup {i}
      BY <2>1, <3>1, Listed DEF Held, Known, PlainTypes
    <3>3. Held = {j \in Ids : app[j] \in {"open", "closing"}}
      <4>1. \A j \in Held : j \in Ids /\ app[j] \in {"open", "closing"}
        BY <2>2, Listed DEF Held, Room, Serving, PlainTypes
      <4>2. \A j \in Ids : app[j] \in {"open", "closing"} => j \in Held
        BY <2>2 DEF Kept, Held
      <4> QED
        BY <4>1, <4>2
    <3>4. IsFiniteSet(Held) /\ Cardinality(Held) < MaxSessions
      BY <2>2, <3>3 DEF Count, Room
    <3>5. /\ IsFiniteSet(Held')
          /\ Cardinality(Held') =
                IF i \in Held THEN Cardinality(Held) ELSE Cardinality(Held) + 1
      BY <3>2, <3>4, FS_AddElement
    <3>6. Cardinality(Held) \in Nat /\ MaxSessions \in Nat
      BY <3>4, FS_CardinalityType, SessionBounds
    <3>7. Cardinality(Held') <= MaxSessions
      BY <3>4, <3>5, <3>6
    <3>8. \A j \in Known' : app'[j] # "gone"
      BY <2>1, <2>2, <3>1, Listed DEF Known, Room, Serving, PlainTypes
    <3> QED
      BY <3>5, <3>7, <3>8 DEF Room
  <2>3. CASE ~(halt = "up" /\ Count(app, {"open", "closing"}) < MaxSessions)
    <3>1. /\ app' = [app EXCEPT ![i] = "gone"]
          /\ sess' = [sess EXCEPT ![i] = "none"]
      BY <1>2, <2>3 DEF RegisterSession
    <3>2. i \notin Waits \cup Shelved
      BY <2>1 DEF Lists
    <3>3. Held' \subseteq Held
      BY <2>1, <3>1, <3>2, Listed DEF Held, Known, PlainTypes
    <3>4. Serving' => \A j \in Known' : app'[j] # "gone"
      BY <2>1, <3>1, <3>2, Listed DEF Known, Room, Serving, PlainTypes
    <3> QED
      BY <3>3, <3>4, RoomShrinks DEF Room
  <2> QED
    BY <2>2, <2>3
<1>3. ASSUME NEW i \in Ids, ArmDeadline(i) PROVE  Room'
  <2>1. Waits' = Waits /\ Shelved' = Shelved
    BY <1>3 DEF ArmDeadline, Waits, Shelved
  <2>2. Held' \subseteq Held
    BY <1>3, <2>1, Listed DEF ArmDeadline, Held, Known, PlainTypes, Live
  <2>3. Serving' => \A j \in Known' : app'[j] # "gone"
    BY <1>3, <2>1, Listed DEF ArmDeadline, Known, Room, Serving, PlainTypes
  <2> QED
    BY <2>2, <2>3, RoomShrinks DEF Room
<1>4. ASSUME NEW i \in Ids, DeadlinePasses(i) PROVE  Room'
  <2>1. Waits' = Waits /\ Shelved' = Shelved
    BY <1>4 DEF DeadlinePasses, Waits, Shelved
  <2>2. Held' \subseteq Held
    BY <1>4, <2>1, Listed DEF DeadlinePasses, Held, Known, PlainTypes, Live
  <2>3. Serving' => \A j \in Known' : app'[j] # "gone"
    BY <1>4, <2>1, Listed DEF DeadlinePasses, Known, Room, Serving, PlainTypes
  <2> QED
    BY <2>2, <2>3, RoomShrinks DEF Room
<1>5. ASSUME NEW i \in Ids, MarkInitialized(i) PROVE  Room'
  <2>1. Waits' = Waits /\ Shelved' = Shelved
    BY <1>5 DEF MarkInitialized, Waits, Shelved
  <2>2. Held' \subseteq Held
    BY <1>5, <2>1, Listed DEF MarkInitialized, Held, Known, PlainTypes, Live
  <2>3. Serving' => \A j \in Known' : app'[j] # "gone"
    BY <1>5, <2>1, Listed DEF MarkInitialized, Known, Room, Serving, PlainTypes
  <2> QED
    BY <2>2, <2>3, RoomShrinks DEF Room
<1>6. ASSUME NEW i \in Ids, ExpireSession(i) PROVE  Room'
  <2>1. HandOver(i, 0) /\ sess[i] = "awaiting" /\ halt' = halt /\ app' = app
    BY <1>6 DEF ExpireSession
  <2>2. Waits' = Waits \cup {i} /\ Shelved' = Shelved
    BY <2>1, HandedOver
  <2>3. sess' = [sess EXCEPT ![i] = "none"]
    BY <1>6 DEF ExpireSession
  <2>4. Known' = Known
    BY <2>1, <2>2, <2>3, Listed DEF Known, PlainTypes
  <2>5. Held' \subseteq Held
    BY <2>1, <2>4 DEF Held
  <2> QED
    BY <2>1, <2>4, <2>5, RoomShrinks DEF Room, Serving
<1>7. ASSUME NEW i \in Ids, NEW k \in Keys, BeginRequest(i, k) PROVE  Room'
  <2>1. Waits' = Waits /\ Shelved' = Shelved
    BY <1>7 DEF BeginRequest, Waits, Shelved
  <2>2. Held' \subseteq Held
    BY <1>7, <2>1, Listed DEF BeginRequest, Held, Known, PlainTypes, Live
  <2>3. Serving' => \A j \in Known' : app'[j] # "gone"
    BY <1>7, <2>1, Listed DEF BeginRequest, Known, Room, Serving, PlainTypes
  <2> QED
    BY <2>2, <2>3, RoomShrinks DEF Room
<1>8. ASSUME NEW i \in Ids, NEW k \in Keys, StartOperation(i, k) PROVE  Room'
  <2>1. Waits' = Waits /\ Shelved' = Shelved
    BY <1>8 DEF StartOperation, Waits, Shelved
  <2>2. Held' \subseteq Held
    BY <1>8, <2>1, Listed DEF StartOperation, Held, Known, PlainTypes, Live
  <2>3. Serving' => \A j \in Known' : app'[j] # "gone"
    BY <1>8, <2>1, Listed DEF StartOperation, Known, Room, Serving, PlainTypes
  <2> QED
    BY <2>2, <2>3, RoomShrinks DEF Room
<1>9. ASSUME NEW i \in Ids, OperationEnds(i) PROVE  Room'
  <2>1. Waits' = Waits /\ Shelved' = Shelved
    BY <1>9 DEF OperationEnds, Waits, Shelved
  <2>2. Held' \subseteq Held
    BY <1>9, <2>1, Listed DEF OperationEnds, Held, Known, PlainTypes, Live
  <2>3. Serving' => \A j \in Known' : app'[j] # "gone"
    BY <1>9, <2>1, Listed DEF OperationEnds, Known, Room, Serving, PlainTypes
  <2> QED
    BY <2>2, <2>3, RoomShrinks DEF Room
<1>10. ASSUME NEW i \in Ids, NEW k \in Keys, StopRequest(i, k) PROVE  Room'
  <2>1. Waits' = Waits /\ Shelved' = Shelved
    BY <1>10 DEF StopRequest, Waits, Shelved
  <2>2. Held' \subseteq Held
    BY <1>10, <2>1, Listed DEF StopRequest, Held, Known, PlainTypes, Live
  <2>3. Serving' => \A j \in Known' : app'[j] # "gone"
    BY <1>10, <2>1, Listed DEF StopRequest, Known, Room, Serving, PlainTypes
  <2> QED
    BY <2>2, <2>3, RoomShrinks DEF Room
<1>11. ASSUME NEW i \in Ids, NEW k \in Keys, FinishCall(i, k) PROVE  Room'
  <2>1. Waits' = Waits /\ Shelved' = Shelved
    BY <1>11 DEF FinishCall, Waits, Shelved
  <2>2. Held' \subseteq Held
    BY <1>11, <2>1, Listed DEF FinishCall, Held, Known, PlainTypes, Live
  <2>3. Serving' => \A j \in Known' : app'[j] # "gone"
    BY <1>11, <2>1, Listed DEF FinishCall, Known, Room, Serving, PlainTypes
  <2> QED
    BY <2>2, <2>3, RoomShrinks DEF Room
<1>12. ASSUME NEW i \in Ids, BeginDelete(i) PROVE  Room'
  <2>1. Waits' = Waits /\ Shelved' = Shelved
    BY <1>12 DEF BeginDelete, Waits, Shelved
  <2>2. Held' \subseteq Held
    BY <1>12, <2>1, Listed DEF BeginDelete, Held, Known, PlainTypes, Live
  <2>3. Serving' => \A j \in Known' : app'[j] # "gone"
    BY <1>12, <2>1, Listed DEF BeginDelete, Known, Room, Serving, PlainTypes
  <2> QED
    BY <2>2, <2>3, RoomShrinks DEF Room
<1>13. ASSUME NEW i \in Ids, StopRequests(i) PROVE  Room'
  <2>1. Waits' = Waits /\ Shelved' = Shelved
    BY <1>13 DEF StopRequests, Waits, Shelved
  <2>2. Held' \subseteq Held
    BY <1>13, <2>1, Listed DEF StopRequests, Held, Known, PlainTypes, Live
  <2>3. Serving' => \A j \in Known' : app'[j] # "gone"
    BY <1>13, <2>1, Listed DEF StopRequests, Known, Room, Serving, PlainTypes
  <2> QED
    BY <2>2, <2>3, RoomShrinks DEF Room
<1>14. ASSUME NEW i \in Ids, FinishDelete(i) PROVE  Room'
  <2>1. sess[i] = "closing" /\ halt' = halt
    BY <1>14 DEF FinishDelete, Stages
  <2>2. sess' = [sess EXCEPT ![i] = "none"]
    BY <1>14 DEF FinishDelete
  <2>3. CASE HandOver(i, 1) /\ app' = app
    <3>1. Waits' = Waits \cup {i} /\ Shelved' = Shelved
      BY <2>1, <2>3, HandedOver
    <3>2. Known' = Known
      BY <2>1, <2>2, <3>1, Listed DEF Known, PlainTypes
    <3>3. Held' \subseteq Held
      BY <2>3, <3>2 DEF Held
    <3> QED
      BY <2>1, <2>3, <3>2, <3>3, RoomShrinks DEF Room, Serving
  <2>4. CASE ~(HandOver(i, 1) /\ app' = app)
    <3>1. /\ app' = [app EXCEPT ![i] = "gone"]
          /\ Waits' = Waits /\ Shelved' = Shelved
      BY <1>14, <2>4 DEF FinishDelete, Waits, Shelved
    <3>2. i \notin Waits \cup Shelved
      BY <2>1 DEF Lists
    <3>3. Known' = Known \ {i}
      BY <2>1, <2>2, <3>1, <3>2, Listed DEF Known, PlainTypes
    <3>4. \A j \in Known' : app'[j] = app[j]
      BY <3>1, <3>3, Listed DEF PlainTypes
    <3>5. Held' \subseteq Held
      BY <3>3, <3>4 DEF Held
    <3> QED
      BY <2>1, <3>3, <3>4, <3>5, RoomShrinks DEF Room, Serving
  <2> QED
    BY <2>3, <2>4
<1>15. ASSUME NEW i \in Ids, BeginCleanup(i) PROVE  Room'
  <2>1. /\ Waits' = Waits /\ Shelved' = Shelved /\ i \in Waits
    BY <1>15, Marked
  <2>2. sess' = sess /\ halt' = halt
    BY <1>15 DEF BeginCleanup
  <2>3. app' = [app EXCEPT ![i] = IF app[i] = "open" THEN "closing" ELSE app[i]]
    BY <1>15, Zenon DEF BeginCleanup
  <2>4. Known' = Known
    BY <2>1, <2>2 DEF Known
  <2>5. \A j \in Ids : /\ app'[j] = "none" <=> app[j] = "none"
                       /\ app'[j] = "gone" <=> app[j] = "gone"
    BY <2>3 DEF PlainTypes
  <2>6. Held' \subseteq Held
    BY <2>4, <2>5, Listed DEF Held
  <2> QED
    BY <2>2, <2>4, <2>5, <2>6, Listed, RoomShrinks DEF Room, Serving
<1>16. ASSUME FinishCleanup PROVE  Room'
  <2>1. sess' = sess /\ halt' = halt /\ cleaner.id \in Waits
    BY <1>16 DEF FinishCleanup, Lists
  <2>2. sess[cleaner.id] = "none" /\ cleaner.id \notin Shelved
    BY <2>1 DEF Lists
  <2>3. CASE app' = app
    <3>0. ~(/\ app[cleaner.id] = "closing"
            /\ app' = [app EXCEPT ![cleaner.id] = "gone"])
      BY <2>1, <2>3, Listed DEF PlainTypes
    <3>1. Known' = Known
      BY <1>16, <2>1, <2>3, <3>0, Cleaned DEF Known
    <3>2. Held' \subseteq Held
      BY <2>3, <3>1 DEF Held
    <3> QED
      BY <2>1, <2>3, <3>1, <3>2, RoomShrinks DEF Room, Serving
  <2>4. CASE app' # app
    <3>1. /\ app' = [app EXCEPT ![cleaner.id] = "gone"]
          /\ Waits' = Waits \ {cleaner.id} /\ Shelved' = Shelved
      BY <1>16, <2>4, Cleaned
    <3>2. Known' = Known \ {cleaner.id}
      BY <2>1, <2>2, <3>1 DEF Known
    <3>3. \A j \in Known' : app'[j] = app[j]
      BY <3>1, <3>2, Listed DEF PlainTypes
    <3>4. Held' \subseteq Held
      BY <3>2, <3>3 DEF Held
    <3> QED
      BY <2>1, <3>2, <3>3, <3>4, RoomShrinks DEF Room, Serving
  <2> QED
    BY <2>3, <2>4
<1>17. ASSUME StopServer PROVE  Room'
  <2>1. Waits' = Waits /\ Shelved' = Shelved
    BY <1>17 DEF StopServer, Waits, Shelved
  <2>2. Held' \subseteq Held
    BY <1>17, <2>1, Listed DEF StopServer, Held, Known, PlainTypes, Live
  <2>3. Serving' => \A j \in Known' : app'[j] # "gone"
    BY <1>17, <2>1, Listed DEF StopServer, Known, Room, Serving, PlainTypes
  <2> QED
    BY <2>2, <2>3, RoomShrinks DEF Room
<1>18. ASSUME ShutdownService PROVE  Room'
  <2>1. Waits' = Waits /\ Shelved' = Shelved
    BY <1>18 DEF ShutdownService, Waits, Shelved
  <2>2. Held' \subseteq Held
    BY <1>18, <2>1, Listed DEF ShutdownService, Held, Known, PlainTypes, Live
  <2>3. Serving' => \A j \in Known' : app'[j] # "gone"
    BY <1>18, <2>1, Listed DEF ShutdownService, Known, Room, Serving, PlainTypes
  <2> QED
    BY <2>2, <2>3, RoomShrinks DEF Room
<1>19. ASSUME LeaveProtocol PROVE  Room'
  <2>1. Waits' = Waits /\ Shelved' = Shelved
    BY <1>19 DEF LeaveProtocol, Waits, Shelved
  <2>2. Held' \subseteq Held
    BY <1>19, <2>1, Listed DEF LeaveProtocol, Held, Known, PlainTypes, Live
  <2>3. Serving' => \A j \in Known' : app'[j] # "gone"
    BY <1>19, <2>1, Listed DEF LeaveProtocol, Known, Room, Serving, PlainTypes
  <2> QED
    BY <2>2, <2>3, RoomShrinks DEF Room
<1>20. ASSUME DestroyProtocol PROVE  Room'
  <2>1. /\ Waits' = {} /\ Shelved' = {} /\ halt' = "destroyed"
        /\ sess' = [j \in Ids |-> "none"]
    BY <1>20 DEF DestroyProtocol, Waits, Shelved
  <2>2. Known' = {}
    BY <2>1 DEF Known
  <2>3. Held' \subseteq Held
    BY <2>2 DEF Held
  <2> QED
    BY <2>1, <2>3, RoomShrinks DEF Room, Serving
<1> QED
  BY <1>1, <1>2, <1>3, <1>4, <1>5, <1>6, <1>7, <1>8, <1>9, <1>10, <1>11,
    <1>12, <1>13, <1>14, <1>15, <1>16, <1>17, <1>18, <1>19, <1>20 DEF
    SessionsNext, Handlers, Threads

\* A session that has a slot is known.
LEMMA KeptStep ==
  ASSUME PlainTypes, ListTypes, Stages, Lists, Room, Kept, SessionsNext
  PROVE  Kept'
<1>1. ASSUME NEW i \in Ids, CreateSession(i) PROVE  Kept'
  <2>1. Waits' = Waits /\ Shelved' = Shelved
    BY <1>1 DEF CreateSession, Waits, Shelved
  <2> QED
    BY <1>1, <2>1 DEF CreateSession, Kept, Known, PlainTypes
<1>2. ASSUME NEW i \in Ids, RegisterSession(i) PROVE  Kept'
  <2>1. Waits' = Waits /\ Shelved' = Shelved
    BY <1>2 DEF RegisterSession, Waits, Shelved
  <2> QED
    BY <1>2, <2>1 DEF RegisterSession, Kept, Known, PlainTypes
<1>3. ASSUME NEW i \in Ids, ArmDeadline(i) PROVE  Kept'
  <2>1. Waits' = Waits /\ Shelved' = Shelved
    BY <1>3 DEF ArmDeadline, Waits, Shelved
  <2> QED
    BY <1>3, <2>1 DEF ArmDeadline, Kept, Known, PlainTypes
<1>4. ASSUME NEW i \in Ids, DeadlinePasses(i) PROVE  Kept'
  <2>1. Waits' = Waits /\ Shelved' = Shelved
    BY <1>4 DEF DeadlinePasses, Waits, Shelved
  <2> QED
    BY <1>4, <2>1 DEF DeadlinePasses, Kept, Known, PlainTypes
<1>5. ASSUME NEW i \in Ids, MarkInitialized(i) PROVE  Kept'
  <2>1. Waits' = Waits /\ Shelved' = Shelved
    BY <1>5 DEF MarkInitialized, Waits, Shelved
  <2> QED
    BY <1>5, <2>1 DEF MarkInitialized, Kept, Known, PlainTypes
<1>6. ASSUME NEW i \in Ids, ExpireSession(i) PROVE  Kept'
  <2>1. sess[i] # "none" /\ halt' = halt
    BY <1>6 DEF ExpireSession, Stages
  <2>2. sess' = [sess EXCEPT ![i] = "none"]
    BY <1>6 DEF ExpireSession
  <2>3. CASE HandOver(i, 0) /\ app' = app
    <3>1. Waits' = Waits \cup {i} /\ Shelved' = Shelved
      BY <2>1, <2>3, HandedOver
    <3>2. Known \subseteq Known'
      BY <2>2, <3>1, Listed DEF Known, PlainTypes
    <3> QED
      BY <2>1, <2>3, <3>2 DEF Kept
  <2> QED
    BY <1>6, <2>3 DEF ExpireSession
<1>7. ASSUME NEW i \in Ids, NEW k \in Keys, BeginRequest(i, k) PROVE  Kept'
  <2>1. Waits' = Waits /\ Shelved' = Shelved
    BY <1>7 DEF BeginRequest, Waits, Shelved
  <2> QED
    BY <1>7, <2>1 DEF BeginRequest, Kept, Known, PlainTypes
<1>8. ASSUME NEW i \in Ids, NEW k \in Keys, StartOperation(i, k) PROVE  Kept'
  <2>1. Waits' = Waits /\ Shelved' = Shelved
    BY <1>8 DEF StartOperation, Waits, Shelved
  <2> QED
    BY <1>8, <2>1 DEF StartOperation, Kept, Known, PlainTypes
<1>9. ASSUME NEW i \in Ids, OperationEnds(i) PROVE  Kept'
  <2>1. Waits' = Waits /\ Shelved' = Shelved
    BY <1>9 DEF OperationEnds, Waits, Shelved
  <2> QED
    BY <1>9, <2>1 DEF OperationEnds, Kept, Known, PlainTypes
<1>10. ASSUME NEW i \in Ids, NEW k \in Keys, StopRequest(i, k) PROVE  Kept'
  <2>1. Waits' = Waits /\ Shelved' = Shelved
    BY <1>10 DEF StopRequest, Waits, Shelved
  <2> QED
    BY <1>10, <2>1 DEF StopRequest, Kept, Known, PlainTypes
<1>11. ASSUME NEW i \in Ids, NEW k \in Keys, FinishCall(i, k) PROVE  Kept'
  <2>1. Waits' = Waits /\ Shelved' = Shelved
    BY <1>11 DEF FinishCall, Waits, Shelved
  <2> QED
    BY <1>11, <2>1 DEF FinishCall, Kept, Known, PlainTypes
<1>12. ASSUME NEW i \in Ids, BeginDelete(i) PROVE  Kept'
  <2>1. Waits' = Waits /\ Shelved' = Shelved
    BY <1>12 DEF BeginDelete, Waits, Shelved
  <2> QED
    BY <1>12, <2>1 DEF BeginDelete, Kept, Known, PlainTypes
<1>13. ASSUME NEW i \in Ids, StopRequests(i) PROVE  Kept'
  <2>1. Waits' = Waits /\ Shelved' = Shelved
    BY <1>13 DEF StopRequests, Waits, Shelved
  <2> QED
    BY <1>13, <2>1 DEF StopRequests, Kept, Known, PlainTypes
<1>14. ASSUME NEW i \in Ids, FinishDelete(i) PROVE  Kept'
  <2>1. sess[i] # "none" /\ halt' = halt
    BY <1>14 DEF FinishDelete, Stages
  <2>2. sess' = [sess EXCEPT ![i] = "none"]
    BY <1>14 DEF FinishDelete
  <2>3. CASE HandOver(i, 1) /\ app' = app
    <3>1. Waits' = Waits \cup {i} /\ Shelved' = Shelved
      BY <2>1, <2>3, HandedOver
    <3>2. Known \subseteq Known'
      BY <2>2, <3>1, Listed DEF Known, PlainTypes
    <3> QED
      BY <2>1, <2>3, <3>2 DEF Kept
  <2>4. CASE ~(HandOver(i, 1) /\ app' = app)
    <3>1. /\ app' = [app EXCEPT ![i] = "gone"]
          /\ Waits' = Waits /\ Shelved' = Shelved
      BY <1>14, <2>4 DEF FinishDelete, Waits, Shelved
    <3>2. Known \ {i} \subseteq Known'
      BY <2>2, <3>1, Listed DEF Known, PlainTypes
    <3>3. \A j \in Ids : app'[j] \in {"open", "closing"} =>
             app[j] \in {"open", "closing"} /\ j # i
      BY <3>1 DEF PlainTypes
    <3> QED
      BY <2>1, <3>2, <3>3 DEF Kept
  <2> QED
    BY <2>3, <2>4
<1>15. ASSUME NEW i \in Ids, BeginCleanup(i) PROVE  Kept'
  <2>1. /\ Waits' = Waits /\ Shelved' = Shelved /\ i \in Waits
    BY <1>15, Marked
  <2>2. sess' = sess /\ halt' = halt
    BY <1>15 DEF BeginCleanup
  <2>3. app' = [app EXCEPT ![i] = IF app[i] = "open" THEN "closing" ELSE app[i]]
    BY <1>15, Zenon DEF BeginCleanup
  <2>4. Known' = Known
    BY <2>1, <2>2 DEF Known
  <2>5. \A j \in Ids : app'[j] \in {"open", "closing"} =>
           app[j] \in {"open", "closing"}
    BY <2>3 DEF PlainTypes
  <2> QED
    BY <2>2, <2>4, <2>5 DEF Kept
<1>16. ASSUME FinishCleanup PROVE  Kept'
  <2>1. sess' = sess /\ halt' = halt /\ cleaner.id \in Waits
    BY <1>16 DEF FinishCleanup, Lists
  <2>2. CASE app' = app
    <3>0. ~(/\ app[cleaner.id] = "closing"
            /\ app' = [app EXCEPT ![cleaner.id] = "gone"])
      BY <2>1, <2>2, Listed DEF PlainTypes
    <3>1. Known' = Known
      BY <1>16, <2>1, <2>2, <3>0, Cleaned DEF Known
    <3> QED
      BY <2>1, <2>2, <3>1 DEF Kept
  <2>3. CASE app' # app
    <3>1. /\ app' = [app EXCEPT ![cleaner.id] = "gone"]
          /\ Waits' = Waits \ {cleaner.id} /\ Shelved' = Shelved
      BY <1>16, <2>3, Cleaned
    <3>2. Known \ {cleaner.id} \subseteq Known'
      BY <2>1, <3>1 DEF Known
    <3>3. \A j \in Ids : app'[j] \in {"open", "closing"} =>
             app[j] \in {"open", "closing"} /\ j # cleaner.id
      BY <3>1 DEF PlainTypes
    <3> QED
      BY <2>1, <3>2, <3>3 DEF Kept
  <2> QED
    BY <2>2, <2>3
<1>17. ASSUME StopServer PROVE  Kept'
  <2>1. Waits' = Waits /\ Shelved' = Shelved
    BY <1>17 DEF StopServer, Waits, Shelved
  <2> QED
    BY <1>17, <2>1 DEF StopServer, Kept, Known, PlainTypes
<1>18. ASSUME ShutdownService PROVE  Kept'
  <2>1. Waits' = Waits /\ Shelved' = Shelved
    BY <1>18 DEF ShutdownService, Waits, Shelved
  <2> QED
    BY <1>18, <2>1 DEF ShutdownService, Kept, Known, PlainTypes
<1>19. ASSUME LeaveProtocol PROVE  Kept'
  <2>1. Waits' = Waits /\ Shelved' = Shelved
    BY <1>19 DEF LeaveProtocol, Waits, Shelved
  <2> QED
    BY <1>19, <2>1 DEF LeaveProtocol, Kept, Known, PlainTypes
<1>20. ASSUME DestroyProtocol PROVE  Kept'
  BY <1>20 DEF DestroyProtocol, Kept
<1> QED
  BY <1>1, <1>2, <1>3, <1>4, <1>5, <1>6, <1>7, <1>8, <1>9, <1>10, <1>11,
    <1>12, <1>13, <1>14, <1>15, <1>16, <1>17, <1>18, <1>19, <1>20 DEF
    SessionsNext, Handlers, Threads

\* A DELETE that waits has told every request to stop.
LEMMA StopsStep ==
  ASSUME PlainTypes, Stages, DeleteStopsEverything, SessionsNext
  PROVE  DeleteStopsEverything'
<1>1. ASSUME NEW i \in Ids, CreateSession(i) PROVE  DeleteStopsEverything'
  BY <1>1 DEF CreateSession, DeleteStopsEverything, PlainTypes, Stages
<1>2. ASSUME NEW i \in Ids, RegisterSession(i) PROVE  DeleteStopsEverything'
  BY <1>2 DEF RegisterSession, DeleteStopsEverything, PlainTypes, Stages
<1>3. ASSUME NEW i \in Ids, ArmDeadline(i) PROVE  DeleteStopsEverything'
  BY <1>3 DEF ArmDeadline, DeleteStopsEverything, PlainTypes, Stages
<1>4. ASSUME NEW i \in Ids, DeadlinePasses(i) PROVE  DeleteStopsEverything'
  BY <1>4 DEF DeadlinePasses, DeleteStopsEverything, PlainTypes, Stages
<1>5. ASSUME NEW i \in Ids, MarkInitialized(i) PROVE  DeleteStopsEverything'
  BY <1>5 DEF MarkInitialized, DeleteStopsEverything, PlainTypes, Stages
<1>6. ASSUME NEW i \in Ids, ExpireSession(i) PROVE  DeleteStopsEverything'
  BY <1>6 DEF ExpireSession, DeleteStopsEverything, PlainTypes, Stages
<1>7. ASSUME NEW i \in Ids, NEW k \in Keys, BeginRequest(i, k)
      PROVE  DeleteStopsEverything'
  BY <1>7 DEF BeginRequest, DeleteStopsEverything, PlainTypes, Stages
<1>8. ASSUME NEW i \in Ids, NEW k \in Keys, StartOperation(i, k)
      PROVE  DeleteStopsEverything'
  BY <1>8 DEF StartOperation, DeleteStopsEverything, PlainTypes, Stages
<1>9. ASSUME NEW i \in Ids, OperationEnds(i) PROVE  DeleteStopsEverything'
  BY <1>9 DEF OperationEnds, DeleteStopsEverything, PlainTypes, Stages
<1>10. ASSUME NEW i \in Ids, NEW k \in Keys, StopRequest(i, k)
       PROVE  DeleteStopsEverything'
  BY <1>10 DEF StopRequest, DeleteStopsEverything, PlainTypes, Stages
<1>11. ASSUME NEW i \in Ids, NEW k \in Keys, FinishCall(i, k)
       PROVE  DeleteStopsEverything'
  BY <1>11 DEF FinishCall, DeleteStopsEverything, PlainTypes, Stages
<1>12. ASSUME NEW i \in Ids, BeginDelete(i) PROVE  DeleteStopsEverything'
  BY <1>12 DEF BeginDelete, DeleteStopsEverything, PlainTypes, Stages
<1>13. ASSUME NEW i \in Ids, StopRequests(i) PROVE  DeleteStopsEverything'
  BY <1>13 DEF StopRequests, DeleteStopsEverything, PlainTypes, Stages
<1>14. ASSUME NEW i \in Ids, FinishDelete(i) PROVE  DeleteStopsEverything'
  BY <1>14 DEF FinishDelete, DeleteStopsEverything, PlainTypes, Stages
<1>15. ASSUME NEW i \in Ids, BeginCleanup(i) PROVE  DeleteStopsEverything'
  BY <1>15 DEF BeginCleanup, DeleteStopsEverything, PlainTypes, Stages
<1>16. ASSUME FinishCleanup PROVE  DeleteStopsEverything'
  BY <1>16 DEF FinishCleanup, DeleteStopsEverything
<1>17. ASSUME StopServer PROVE  DeleteStopsEverything'
  BY <1>17 DEF StopServer, DeleteStopsEverything, PlainTypes, Stages
<1>18. ASSUME ShutdownService PROVE  DeleteStopsEverything'
  BY <1>18 DEF ShutdownService, DeleteStopsEverything, PlainTypes, Stages
<1>19. ASSUME LeaveProtocol PROVE  DeleteStopsEverything'
  BY <1>19 DEF LeaveProtocol, DeleteStopsEverything, PlainTypes, Stages
<1>20. ASSUME DestroyProtocol PROVE  DeleteStopsEverything'
  BY <1>20 DEF DestroyProtocol, DeleteStopsEverything, PlainTypes, Stages
<1> QED
  BY <1>1, <1>2, <1>3, <1>4, <1>5, <1>6, <1>7, <1>8, <1>9, <1>10, <1>11,
    <1>12, <1>13, <1>14, <1>15, <1>16, <1>17, <1>18, <1>19, <1>20 DEF
    SessionsNext, Handlers, Threads

-----------------------------------------------------------------------------
(* The theorem.                                                            *)

\* The initial state.
LEMMA InitInvariant == SessionsInit => SessionsInv
<1> SUFFICES ASSUME SessionsInit PROVE  SessionsInv
  OBVIOUS
<1>1. Waits = {} /\ Shelved = {} /\ Known = {} /\ Held = {}
  BY DEF SessionsInit, Waits, Shelved, Known, Held
<1>2. PlainTypes
  BY DEF SessionsInit, PlainTypes
<1>3. ListTypes
  BY DEF SessionsInit, ListTypes
<1>4. Stages
  BY DEF SessionsInit, Stages, Serving
<1>5. Lists
  BY <1>1 DEF SessionsInit, Lists
<1>6. Room
  BY <1>1, FS_EmptySet, SessionBounds DEF Room
<1>7. Kept /\ DeleteStopsEverything /\ NothingIsDropped
  BY DEF SessionsInit, Kept, DeleteStopsEverything, NothingIsDropped
<1> QED
  BY <1>2, <1>3, <1>4, <1>5, <1>6, <1>7 DEF SessionsInv

\* Every step keeps the invariant.
LEMMA InvariantStep == SessionsInv /\ SessionsNext => SessionsInv'
BY PlainStep, ListStep, StagesStep, ListsStep, RoomStep, KeptStep, StopsStep
  DEF SessionsInv

\* And so does a step of somebody else.
LEMMA InvariantStays ==
  SessionsInv /\ UNCHANGED sessionVars => SessionsInv'
<1> SUFFICES ASSUME SessionsInv, UNCHANGED sessionVars PROVE  SessionsInv'
  OBVIOUS
<1> USE DEF sessionVars
<1>1. PlainTypes' /\ ListTypes'
  BY DEF SessionsInv, PlainTypes, ListTypes
<1>2. Waits' = Waits /\ Shelved' = Shelved /\ Known' = Known /\ Held' = Held
  BY DEF Waits, Shelved, Known, Held
<1>3. Stages' /\ DeleteStopsEverything' /\ NothingIsDropped'
  BY DEF SessionsInv, Stages, Serving, DeleteStopsEverything, NothingIsDropped
<1>4. Lists' /\ Room' /\ Kept'
  BY <1>2 DEF SessionsInv, Lists, Room, Kept, Serving
<1> QED
  BY <1>1, <1>3, <1>4 DEF SessionsInv

\* The invariant says more than the property.
LEMMA InvariantSuffices == SessionsInv => SessionsCorrect
<1> SUFFICES ASSUME SessionsInv PROVE  SessionsCorrect
  OBVIOUS
<1> USE DEF SessionsInv
<1>1. SessTypeOK
  BY DEF SessTypeOK, PlainTypes, ListTypes, Entry, NothingIsDropped
<1>2. NoSessionIsLost
  BY DEF NoSessionIsLost, Kept, Known, Waits, Shelved, Pending
<1>3. OneRemoverAtATime
  BY DEF OneRemoverAtATime, Lists, Stages
<1>4. ExpiredSessionIsQuiet
  BY DEF ExpiredSessionIsQuiet, Stages
<1> QED
  BY <1>1, <1>2, <1>3, <1>4 DEF SessionsCorrect

\* For any sessions, requests and capacity: the protocol forgets no session
\* whose application side still has its slot, and neither of its lists of
\* sessions to be closed ever overflows; a DELETE leaves no request running
\* that was not told to stop; RemoveSession is never run twice at a time for a
\* session; a session that expires has no request under way.
THEOREM SessionsAreCorrect == SessionsSpec => []SessionsCorrect
<1>1. SessionsInv /\ [SessionsNext]_sessionVars => SessionsInv'
  BY InvariantStep, InvariantStays
<1> QED
  BY <1>1, InitInvariant, InvariantSuffices, PTL DEF SessionsSpec

=============================================================================
