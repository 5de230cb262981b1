------------------------- MODULE CompactQueueProofs ------------------------
(***************************************************************************)
(* Proofs about tickets, evidence and the queue of the worker for any      *)
(* number of paths, open files and operations, any sample size, and a      *)
(* worker that is stopped at any time.                                     *)
(***************************************************************************)
EXTENDS CompactQueue, FiniteSetTheorems, SequenceTheorems, TLAPS

\* The evaluation of a ticket is due or under way.
Waiting(r) == r.state \in {"queued", "inflight"}

\* The tickets for path p that a thread or the queue holds.
Out(p) ==
    {k \in Tickets :
        \/ \E a \in Actors : job[a].path = p /\ job[a].ticket = k
        \/ \E n \in DOMAIN queue : queue[n].path = p /\ queue[n].ticket = k}

\* A record r with the evidence s to account for and the tickets T out: a
\* generation that was evaluated once has no cooldown and never runs out of
\* evidence, so its record is not started again, and a ticket is not newer than
\* the record.  What the ticket that is waited for carries is missing in the
\* record.
Sound(r, s, T) ==
    /\ r.eval > 0 => /\ r.cooldown = "none" /\ r.state # "deferred"
                     /\ r.state = "idle" => r.stats > 0
    /\ Waiting(r) => r.eval > 0
    /\ ~Waiting(r) => s = r.stats
    /\ \A k \in T : Valid(k) =>
          k.snap > 0 /\ k.gen <= r.gen /\ (k.gen = r.gen => k.eval <= r.eval)
    /\ \A k \in T : Matches(r, k) /\ Waiting(r) => s = r.stats + k.snap

RecordsSound == \A p \in Paths : Sound(rec[p], seen[p], Out(p))

\* An actor that works has a request, and one that does not has none.
Phases ==
    /\ \A c \in Clients : pc[c] \in {"idle", "schedule", "compact", "evaluate", "failed"}
    /\ pc[Worker] \in {"top", "wait", "off", "compact", "evaluate"}
    /\ \A a \in Actors : IF pc[a] \in {"schedule", "compact", "evaluate", "failed"}
                         THEN job[a].path # None
                         ELSE job[a] = NoJob

\* A path is locked by the actor that evaluates it, and what that actor
\* evaluates is the record's own ticket.
Locked == \A p \in Paths : lock[p] # None => pc[lock[p]] = "evaluate" /\ job[lock[p]].path = p

OwnTicket(p, k) ==
    IF Valid(k) THEN rec[p].state = "inflight" /\ Carries(p, k) ELSE ~Waiting(rec[p])

Evaluating ==
    \A a \in Actors : pc[a] = "evaluate" =>
        lock[job[a].path] = a /\ OwnTicket(job[a].path, job[a].ticket)

InflightLocked == \A p \in Paths : rec[p].state = "inflight" => lock[p] # None

Control == Locked /\ Evaluating /\ InflightLocked

\* A record that waits for its evaluation has a carrier of its ticket.
Carrying == {"schedule", "failed", "compact"}

CarriedBy(p, a) == pc[a] \in Carrying /\ job[a].path = p /\ Carries(p, job[a].ticket)

CarriedAt(p, n) == queue[n].path = p /\ Carries(p, queue[n].ticket)

QueuedTracked ==
    \A p \in Paths : rec[p].state = "queued" =>
        (\E a \in Actors : CarriedBy(p, a)) \/ (\E n \in DOMAIN queue : CarriedAt(p, n))

\* The queue holds a path once, and without a worker nothing.
Distinct == \A m, n \in DOMAIN queue : queue[m].path = queue[n].path => m = n

Drained == pc[Worker] = "off" => queue = <<>> /\ (stop \/ ~running)

\* The inductive invariant.
IndInv ==
    /\ TypeOK /\ Phases /\ Control /\ QueuedTracked
    /\ RecordsSound /\ Distinct /\ Drained

-----------------------------------------------------------------------------
(* What the operations of the registry do to a sound record.               *)

\* Fewer tickets, or one more that is not valid, do no harm.
LEMMA FewerTickets ==
    ASSUME NEW r, NEW s, NEW T, NEW U, Sound(r, s, T), U \subseteq T \cup {NoTicket}
    PROVE  Sound(r, s, U)
  BY DEF Sound, Matches, Valid, NoTicket

\* An expired cooldown takes as much from the evidence to account for as it takes
\* from the record.
LEMMA ExpireSound ==
    ASSUME NEW r \in Records, NEW s \in Nat, NEW T, Sound(r, s, T)
    PROVE  LET e == Expire(r)
               d == s - (r.stats - e.stats)
           IN  e \in Records /\ d \in Nat /\ Sound(e, d, T) /\ e.gen = r.gen /\ e.eval = r.eval
               /\ (Waiting(e) <=> Waiting(r)) /\ e.state \in {r.state, "idle"}
               /\ e.cooldown # "expired"
<1>1. CASE r.cooldown # "expired"
  BY <1>1 DEF Expire, Records
<1>2. CASE r.cooldown = "expired"
  <2>1. r.eval = 0 /\ ~Waiting(r) /\ s = r.stats
    BY <1>2 DEF Sound, Records
  <2>2. CASE r.state # "deferred"
    <3> DEFINE e == [r EXCEPT !.cooldown = "none"]
    <3>1. e \in Records /\ e.gen = r.gen /\ e.eval = r.eval /\ e.stats = r.stats
          /\ e.state = r.state /\ e.cooldown = "none"
      BY DEF Records, RecordStates
    <3>2. Expire(r) = e
      BY <1>2, <2>2 DEF Expire
    <3>3. Sound(e, s, T)
      BY <2>1, <3>1 DEF Sound, Waiting, Matches
    <3> HIDE DEF e
    <3>4. s - (r.stats - e.stats) = s
      BY <3>1 DEF Records
    <3>5. QED
      BY <2>1, <3>1, <3>2, <3>3, <3>4 DEF Waiting
  <2>3. CASE r.state = "deferred"
    <3> DEFINE h == r.stats \div 2
               e == [r EXCEPT !.stats = h, !.evidence = h, !.state = "idle", !.cooldown = "none"]
    <3>1. h \in Nat
      BY DEF Records
    <3>2. Expire(r) = e
      BY <1>2, <2>3 DEF Expire
    <3> HIDE DEF h
    <3>3. e \in Records /\ e.gen = r.gen /\ e.eval = r.eval /\ e.stats = h
          /\ e.state = "idle" /\ e.cooldown = "none"
      BY <3>1 DEF Records, RecordStates
    <3>4. s - (r.stats - e.stats) = h
      BY <2>1, <3>1, <3>3 DEF Records
    <3>5. Sound(e, h, T)
      BY <2>1, <3>3 DEF Sound, Waiting, Matches
    <3> HIDE DEF e
    <3>6. QED
      BY <2>1, <3>1, <3>2, <3>3, <3>4, <3>5 DEF Waiting
  <2>4. QED
    BY <2>2, <2>3
<1>3. QED
  BY <1>1, <1>2

\* A write adds the same to the record and to what is to be accounted for.
LEMMA ObservedSound ==
    ASSUME NEW r \in Records, NEW s \in Nat, NEW T \in SUBSET Tickets, Sound(r, s, T)
    PROVE  LET o == Observed(r)
               d == s - (r.stats - Expire(r).stats) + 1
           IN  o \in Records /\ d \in Nat /\ Sound(o, d, T) /\ o.gen = r.gen /\ o.eval = r.eval
               /\ (Waiting(o) <=> Waiting(r)) /\ o.state \in {r.state, "idle"}
               /\ o.cooldown # "expired"
<1> DEFINE e == Expire(r)
           d == s - (r.stats - e.stats)
           st == e.stats + 1
           ev == e.evidence + 1
           o == [e EXCEPT !.stats = st, !.evidence = ev]
<1>1. /\ e \in Records /\ d \in Nat /\ Sound(e, d, T) /\ e.gen = r.gen /\ e.eval = r.eval
      /\ (Waiting(e) <=> Waiting(r)) /\ e.state \in {r.state, "idle"}
      /\ e.cooldown # "expired"
  BY ExpireSound
<1>2. Observed(r) = o
  BY DEF Observed
<1> HIDE DEF e, d
<1>3. st \in Nat /\ ev \in Nat /\ e.stats \in Nat
  BY <1>1 DEF Records
<1> HIDE DEF st, ev
<1>4. /\ o \in Records /\ o.stats = st /\ o.gen = e.gen /\ o.eval = e.eval
      /\ o.state = e.state /\ o.cooldown = e.cooldown
  BY <1>1, <1>3 DEF Records
<1> HIDE DEF o
<1>5. Sound(o, d + 1, T)
  <2>1. /\ o.eval > 0 => /\ o.cooldown = "none" /\ o.state # "deferred"
                         /\ o.state = "idle" => o.stats > 0
        /\ Waiting(o) => o.eval > 0
        /\ ~Waiting(o) => d + 1 = o.stats
    BY <1>1, <1>3, <1>4 DEF Sound, Waiting, st
  <2>2. ASSUME NEW k \in T, Matches(o, k), Waiting(o) PROVE d + 1 = o.stats + k.snap
    <3>1. Matches(e, k) /\ Waiting(e)
      BY <2>2, <1>4 DEF Matches, Waiting
    <3>2. d = e.stats + k.snap
      BY <1>1, <3>1 DEF Sound
    <3>3. QED
      BY <1>1, <1>3, <1>4, <2>2, <3>2 DEF st, Tickets
  <2>3. \A k \in T : Valid(k) =>
            k.snap > 0 /\ k.gen <= o.gen /\ (k.gen = o.gen => k.eval <= o.eval)
    BY <1>1, <1>4 DEF Sound
  <2>4. QED
    BY <2>1, <2>2, <2>3 DEF Sound
<1>6. d + 1 \in Nat
  BY <1>1
<1>7. QED
  BY <1>1, <1>2, <1>4, <1>5, <1>6 DEF Waiting, d, e

\* A claim moves the evidence into the ticket.
LEMMA ClaimSound ==
    ASSUME NEW r \in Records, NEW s, NEW T \in SUBSET Tickets, Sound(r, s, T),
           CanClaim(r), r.cooldown = "none"
    PROVE  /\ Claim(r) \in Records /\ TicketFor(r) \in Tickets
           /\ Sound(Claim(r), s, T \cup {TicketFor(r)})
           /\ Claim(r).state = "queued" /\ Claim(r).cooldown = "none"
           /\ Claim(r).gen = TicketFor(r).gen /\ Claim(r).eval = TicketFor(r).eval
<1> DEFINE el == r.eval + 1
           c == [r EXCEPT !.eval = el, !.stats = 0, !.evidence = 0, !.state = "queued"]
           t == [gen |-> r.gen, eval |-> el, snap |-> r.stats]
<1>1. /\ r.gen \in Nat /\ r.stats \in Nat /\ r.eval \in Nat /\ r.stats > 0
      /\ r.state = "idle" /\ s = r.stats
  BY ConstantsAssumption DEF CanClaim, Records, Sound, Waiting
<1>a. Claim(r) = c /\ TicketFor(r) = t
  BY DEF Claim, TicketFor
<1>b. el \in Nat /\ el = r.eval + 1
  BY <1>1
<1> HIDE DEF el
<1>2. /\ c \in Records /\ c.gen = r.gen /\ c.eval = el /\ c.stats = 0
      /\ c.state = "queued" /\ c.cooldown = "none"
  BY <1>b DEF Records, RecordStates
<1>3. t \in Tickets /\ t.gen = r.gen /\ t.eval = el /\ t.snap = r.stats
  BY <1>1, <1>b DEF Tickets
<1> HIDE DEF c, t
<1>4. ASSUME NEW k \in T PROVE ~Matches(c, k)
  BY <1>1, <1>2, <1>b, <1>4 DEF Sound, Matches, Valid, Tickets
<1>5. \A k \in T \cup {t} : Valid(k) =>
          k.snap > 0 /\ k.gen <= c.gen /\ (k.gen = c.gen => k.eval <= c.eval)
  BY <1>1, <1>2, <1>3, <1>b DEF Sound, Valid, Tickets
<1>6. \A k \in T \cup {t} : Matches(c, k) /\ Waiting(c) => s = c.stats + k.snap
  BY <1>1, <1>2, <1>3, <1>4
<1>7. Sound(c, s, T \cup {t})
  BY <1>1, <1>2, <1>b, <1>5, <1>6 DEF Sound, Waiting
<1>8. QED
  BY <1>2, <1>3, <1>7, <1>a

\* A record that is deferred is in its cooldown, and was never evaluated.
LEMMA DeferredSound ==
    ASSUME NEW r \in Records, NEW s, NEW T, Sound(r, s, T), r.cooldown = "running"
    PROVE  /\ Deferred(r) \in Records /\ Sound(Deferred(r), s, T)
           /\ (Waiting(Deferred(r)) <=> Waiting(r))
           /\ Deferred(r).state \in {r.state, "deferred"}
           /\ Deferred(r).gen = r.gen /\ Deferred(r).eval = r.eval
<1>1. CASE r.state = "idle"
  <2> DEFINE d == [r EXCEPT !.state = "deferred"]
  <2>1. /\ d \in Records /\ d.gen = r.gen /\ d.eval = r.eval /\ d.stats = r.stats
        /\ d.state = "deferred" /\ d.cooldown = r.cooldown
    BY DEF Records, RecordStates
  <2>2. Deferred(r) = d
    BY <1>1 DEF Deferred
  <2> HIDE DEF d
  <2>3. QED
    BY <1>1, <2>1, <2>2 DEF Sound, Waiting, Matches, Records
<1>2. QED
  BY <1>1 DEF Deferred

\* A record that is forgotten says nothing and has no ticket out.
LEMMA ForgetSound ==
    ASSUME NEW r \in Records, NEW s, NEW T \in SUBSET Tickets, Sound(r, s, T)
    PROVE  /\ Forget(r) \in Records /\ Sound(Forget(r), s, T)
           /\ (Waiting(Forget(r)) <=> Waiting(r))
           /\ Forget(r).gen = r.gen /\ Forget(r).eval = r.eval /\ Forget(r).state = r.state
<1>1. CASE r.stats = 0 /\ r.state = "idle" /\ r.cooldown = "none"
  <2> DEFINE n == NewRecord(r.gen)
  <2>1. /\ n \in Records /\ n.gen = r.gen /\ n.eval = 0 /\ n.stats = 0
        /\ n.state = "idle" /\ n.cooldown = "none"
    BY DEF Records, RecordStates, NewRecord
  <2>2. r.eval = 0 /\ s = 0
    BY <1>1 DEF Sound, Records, Waiting
  <2>3. Forget(r) = n
    BY <1>1 DEF Forget
  <2> HIDE DEF n
  <2>4. QED
    BY <1>1, <2>1, <2>2, <2>3 DEF Sound, Waiting, Matches
<1>2. QED
  BY <1>1 DEF Forget

\* A new file has a record that no ticket is for.
LEMMA NewRecordSound ==
    ASSUME NEW r \in Records, NEW s, NEW T \in SUBSET Tickets, Sound(r, s, T)
    PROVE  /\ NewRecord(r.gen + 1) \in Records /\ Sound(NewRecord(r.gen + 1), 0, T)
           /\ ~Waiting(NewRecord(r.gen + 1))
<1> DEFINE n == NewRecord(r.gen + 1)
<1>1. /\ r.gen \in Nat /\ n \in Records /\ n.gen = r.gen + 1 /\ n.eval = 0 /\ n.stats = 0
      /\ n.state = "idle" /\ n.cooldown = "none"
  BY DEF Records, RecordStates, NewRecord
<1> HIDE DEF n
<1>2. Sound(n, 0, T) /\ ~Waiting(n)
  BY <1>1 DEF Sound, Waiting, Matches, Valid, Tickets
<1>3. QED
  BY <1>1, <1>2 DEF n

\* A published generation takes over what the record holds.
LEMMA PublishedSound ==
    ASSUME NEW r \in Records, NEW s, NEW T \in SUBSET Tickets, Sound(r, s, T),
           NEW resize \in BOOLEAN
    PROVE  LET n == Published(r, resize)
           IN  n \in Records /\ Sound(n, r.stats, T) /\ ~Waiting(n)
<1> DEFINE cool == IF resize THEN "running" ELSE r.cooldown
           st == IF cool = "running" /\ r.stats > 0 THEN "deferred" ELSE "idle"
           b == NewRecord(r.gen + 1)
           n == [b EXCEPT !.stats = r.stats, !.evidence = r.evidence,
                          !.cooldown = cool, !.state = st]
<1>1. Published(r, resize) = n
  BY DEF Published
<1>2. cool \in {"none", "running", "expired"} /\ st \in {"deferred", "idle"}
  BY DEF Records
<1> HIDE DEF cool, st
<1>3. /\ r.gen \in Nat /\ r.stats \in Nat /\ r.evidence \in Nat
      /\ b \in Records /\ b.gen = r.gen + 1 /\ b.eval = 0
  BY DEF Records, RecordStates, NewRecord
<1> HIDE DEF b
<1>4. /\ n \in Records /\ n.gen = r.gen + 1 /\ n.eval = 0 /\ n.stats = r.stats /\ n.state = st
  BY <1>2, <1>3 DEF Records, RecordStates
<1> HIDE DEF n
<1>5. Sound(n, r.stats, T) /\ ~Waiting(n)
  BY <1>2, <1>3, <1>4 DEF Sound, Waiting, Matches, Valid, Tickets
<1>6. QED
  BY <1>1, <1>4, <1>5

\* What a ticket that is given back returns.
LEMMA RestoreSound ==
    ASSUME NEW r \in Records, NEW s, NEW T \in SUBSET Tickets, Sound(r, s, T),
           NEW k \in T, Matches(r, k), Waiting(r), NEW e \in BOOLEAN
    PROVE  /\ Restore(r, k, e) \in Records /\ Sound(Restore(r, k, e), s, T)
           /\ Restore(r, k, e).state = "idle"
<1> DEFINE v == IF e THEN r.evidence + k.snap ELSE r.evidence
           q == r.stats + k.snap
           n == [r EXCEPT !.stats = q, !.evidence = v, !.state = "idle"]
<1>1. Restore(r, k, e) = n
  BY DEF Restore
<1>2. /\ r.stats \in Nat /\ r.evidence \in Nat /\ k.snap \in Nat /\ k.snap > 0
      /\ s = r.stats + k.snap /\ r.cooldown = "none"
  BY DEF Records, Tickets, Sound, Matches
<1>3. v \in Nat /\ q \in Nat /\ q > 0 /\ s = q
  BY <1>2
<1> HIDE DEF v, q
<1>4. /\ n \in Records /\ n.gen = r.gen /\ n.eval = r.eval /\ n.stats = q
      /\ n.state = "idle" /\ n.cooldown = r.cooldown
  BY <1>2, <1>3 DEF Records, RecordStates
<1> HIDE DEF n
<1>5. Sound(n, s, T)
  BY <1>2, <1>3, <1>4 DEF Sound, Waiting, Matches
<1>6. QED
  BY <1>1, <1>4, <1>5

\* Giving a ticket back, or rejecting it, returns its evidence or does nothing.
LEMMA ScheduleFailedSound ==
    ASSUME NEW r \in Records, NEW s, NEW T \in SUBSET Tickets, Sound(r, s, T), NEW k \in T
    PROVE  LET n == ScheduleFailed(r, k)
           IN  /\ n \in Records /\ Sound(n, s, T)
               /\ n = r \/ (r.state = "queued" /\ n.state = "idle")
               /\ Matches(r, k) => n.state # "queued"
  BY RestoreSound DEF ScheduleFailed, Waiting

\* A rejection of a ticket returns its evidence, queued or under evaluation.
LEMMA RejectSound ==
    ASSUME NEW r \in Records, NEW s, NEW T \in SUBSET Tickets, Sound(r, s, T), NEW k \in T
    PROVE  LET n == Reject(r, k)
           IN  /\ n \in Records /\ Sound(n, s, T)
               /\ n = r \/ (Waiting(r) /\ n.state = "idle")
               /\ Matches(r, k) => ~Waiting(n)
  BY RestoreSound DEF Reject, Waiting

-----------------------------------------------------------------------------
(* The queue.                                                              *)

\* A request in the queue has its type.
LEMMA QueueType ==
    ASSUME queue \in Seq(Requests)
    PROVE  /\ Len(queue) \in Nat /\ DOMAIN queue = 1 .. Len(queue)
           /\ \A n \in DOMAIN queue : queue[n] \in Requests
  BY LenProperties, ElementOfSeq

\* A request for a path that is not queued is added at the tail.
LEMMA QueueAppended ==
    ASSUME queue \in Seq(Requests), Distinct, NEW r \in Requests, At(r.path) = {},
           queue' = Append(queue, r)
    PROVE  /\ queue' \in Seq(Requests) /\ Distinct'
           /\ \A n \in DOMAIN queue : n \in DOMAIN queue' /\ queue'[n] = queue[n]
           /\ \A m \in DOMAIN queue' : queue'[m] = r \/ (m \in DOMAIN queue /\ queue'[m] = queue[m])
           /\ \E m \in DOMAIN queue' : queue'[m] = r
<1>1. /\ Len(queue) \in Nat /\ DOMAIN queue = 1 .. Len(queue)
  BY QueueType
<1>2. /\ queue' \in Seq(Requests) /\ Len(queue') = Len(queue) + 1
      /\ queue'[Len(queue) + 1] = r
      /\ \A n \in 1 .. Len(queue) : queue'[n] = queue[n]
  BY AppendProperties
<1>3. DOMAIN queue' = 1 .. Len(queue) + 1
  BY <1>2, LenProperties
<1>4. \A n \in DOMAIN queue : queue[n].path # r.path
  BY DEF At
<1>5. Distinct'
  <2> SUFFICES ASSUME NEW m \in DOMAIN queue', NEW n \in DOMAIN queue',
                      queue'[m].path = queue'[n].path
               PROVE  m = n
    BY DEF Distinct
  <2>1. \A i \in DOMAIN queue' : i \in DOMAIN queue \/ i = Len(queue) + 1
    BY <1>1, <1>3
  <2>2. QED
    BY <1>1, <1>2, <1>4, <2>1 DEF Distinct
<1>6. QED
  BY <1>1, <1>2, <1>3, <1>5

\* The head of the queue is taken off.
LEMMA QueueTaken ==
    ASSUME queue \in Seq(Requests), Distinct, queue # <<>>, queue' = Tail(queue)
    PROVE  /\ queue' \in Seq(Requests) /\ Distinct'
           /\ Head(queue) \in Requests
           /\ \E n \in DOMAIN queue : Head(queue) = queue[n]
           /\ \A m \in DOMAIN queue' : \E n \in DOMAIN queue : queue'[m] = queue[n]
           /\ \A n \in DOMAIN queue :
                 queue[n] = Head(queue) \/ \E m \in DOMAIN queue' : queue'[m] = queue[n]
<1>1. /\ Len(queue) \in Nat \ {0} /\ DOMAIN queue = 1 .. Len(queue)
  BY QueueType, EmptySeq
<1>2. /\ Head(queue) \in Requests /\ queue' \in Seq(Requests)
      /\ Len(queue') = Len(queue) - 1
      /\ \A i \in 1 .. Len(queue') : queue'[i] = queue[i + 1]
  BY HeadTailProperties
<1>3. DOMAIN queue' = 1 .. Len(queue) - 1
  BY <1>2, LenProperties
<1>4. Head(queue) = queue[1]
  OBVIOUS
<1>5. \A m \in DOMAIN queue' : m + 1 \in DOMAIN queue /\ queue'[m] = queue[m + 1]
  BY <1>1, <1>2, <1>3
<1>6. \A n \in DOMAIN queue : n = 1 \/ (n - 1 \in DOMAIN queue' /\ queue'[n - 1] = queue[n])
  <2> SUFFICES ASSUME NEW n \in DOMAIN queue, n # 1
               PROVE  n - 1 \in DOMAIN queue' /\ queue'[n - 1] = queue[n]
    OBVIOUS
  <2>1. n - 1 \in DOMAIN queue' /\ n - 1 + 1 = n
    BY <1>1, <1>3
  <2>2. QED
    BY <1>5, <2>1
<1>7. Distinct'
  <2> SUFFICES ASSUME NEW m \in DOMAIN queue', NEW n \in DOMAIN queue',
                      queue'[m].path = queue'[n].path
               PROVE  m = n
    BY DEF Distinct
  <2>1. m + 1 = n + 1
    BY <1>5 DEF Distinct
  <2>2. QED
    BY <1>1, <1>3, <2>1
<1>8. ASSUME NEW n \in DOMAIN queue
      PROVE  queue[n] = Head(queue) \/ \E m \in DOMAIN queue' : queue'[m] = queue[n]
  BY <1>4, <1>6
<1>9. 1 \in DOMAIN queue
  BY <1>1
<1>10. \A m \in DOMAIN queue' : \E n \in DOMAIN queue : queue'[m] = queue[n]
  BY <1>5
<1>11. \E n \in DOMAIN queue : Head(queue) = queue[n]
  BY <1>4, <1>9
<1>12. Head(queue) \in Requests /\ queue' \in Seq(Requests)
  BY <1>2
<1>13. QED
  BY <1>7, <1>8, <1>10, <1>11, <1>12

\* A request is merged into one for the same path.
LEMMA QueueMerged ==
    ASSUME queue \in Seq(Requests), Distinct, NEW n \in DOMAIN queue, NEW r \in Requests,
           r.path = queue[n].path, queue' = [queue EXCEPT ![n] = r]
    PROVE  /\ queue' \in Seq(Requests) /\ Distinct' /\ DOMAIN queue' = DOMAIN queue
           /\ queue'[n] = r
           /\ \A m \in DOMAIN queue : m # n => queue'[m] = queue[m]
<1>1. /\ Len(queue) \in Nat /\ DOMAIN queue = 1 .. Len(queue)
  BY QueueType
<1>2. /\ queue' \in Seq(Requests) /\ Len(queue') = Len(queue)
      /\ \A j \in 1 .. Len(queue) : queue'[j] = IF j = n THEN r ELSE queue[j]
  BY <1>1, ExceptSeq
<1>3. DOMAIN queue' = DOMAIN queue
  BY <1>1, <1>2, LenProperties
<1>4. QED
  BY <1>1, <1>2, <1>3 DEF Distinct

-----------------------------------------------------------------------------
(* The tickets that are out.                                               *)

\* What an actor holds is out.
LEMMA HeldOut ==
    ASSUME TypeOK, NEW a \in Actors
    PROVE  job[a].ticket \in Out(job[a].path)
<1>1. job[a].ticket \in Tickets
  BY DEF TypeOK, Jobs
<1>2. QED
  BY <1>1 DEF Out

\* An actor that changes what it holds adds at most its new ticket.
LEMMA OutJob ==
    ASSUME TypeOK, NEW a \in Actors, NEW j, job' = [job EXCEPT ![a] = j], queue' = queue,
           NEW p
    PROVE  Out(p)' \subseteq Out(p) \cup (IF j.path = p THEN {j.ticket} ELSE {})
<1>1. \A b \in Actors : job'[b] = IF b = a THEN j ELSE job[b]
  BY DEF TypeOK
<1>2. QED
  BY <1>1 DEF Out

\* An actor that keeps its request or drops a part of it adds nothing.
LEMMA OutDropped ==
    ASSUME TypeOK, NEW a \in Actors, NEW j, job' = [job EXCEPT ![a] = j], queue' = queue,
           j.path \in {None, job[a].path}, j.ticket \in {NoTicket, job[a].ticket},
           NEW p \in Paths
    PROVE  Out(p)' \subseteq Out(p) \cup {NoTicket}
<1>1. j.path = p => j.path = job[a].path
  BY ConstantsAssumption
<1>2. j.path = p => j.ticket \in Out(p) \cup {NoTicket}
  BY <1>1, HeldOut
<1>3. QED
  BY <1>2, OutJob

\* Nothing is added when the requests stay as they are.
LEMMA OutSame == ASSUME UNCHANGED <<job, queue>>, NEW p PROVE Out(p)' = Out(p)
  BY DEF Out

-----------------------------------------------------------------------------
(* The parts of a step.                                                    *)

\* Records that do not change stay sound when no ticket is added.
LEMMA SoundKept ==
    ASSUME RecordsSound, UNCHANGED <<rec, seen>>,
           \A p \in Paths : Out(p)' \subseteq Out(p) \cup {NoTicket}
    PROVE  RecordsSound'
  BY FewerTickets DEF RecordsSound

\* A step that changes one record.
LEMMA SoundStep ==
    ASSUME TypeOK, RecordsSound, NEW p \in Paths, NEW r, NEW s,
           rec' = [rec EXCEPT ![p] = r], seen' = [seen EXCEPT ![p] = s],
           Sound(r, s, Out(p)'),
           \A q \in Paths \ {p} : Out(q)' \subseteq Out(q) \cup {NoTicket}
    PROVE  RecordsSound'
<1>1. \A q \in Paths : /\ rec'[q] = IF q = p THEN r ELSE rec[q]
                       /\ seen'[q] = IF q = p THEN s ELSE seen[q]
  BY DEF TypeOK
<1>2. ASSUME NEW q \in Paths PROVE Sound(rec'[q], seen'[q], Out(q)')
  <2>1. CASE q = p
    BY <1>1, <2>1
  <2>2. CASE q # p
    BY <1>1, <2>2, FewerTickets DEF RecordsSound
  <2>3. QED
    BY <2>1, <2>2
<1>3. QED
  BY <1>2 DEF RecordsSound

\* The request of an actor that works.
LEMMA WorkPath ==
    ASSUME TypeOK, Phases, NEW a \in Actors,
           pc[a] \in {"schedule", "compact", "evaluate", "failed"}
    PROVE  job[a].path \in Paths /\ job[a].ticket \in Tickets /\ job[a].ordinary \in BOOLEAN
<1>1. job[a] \in Jobs /\ job[a].path # None
  BY DEF TypeOK, Phases
<1>2. QED
  BY <1>1 DEF Jobs

\* An actor goes on to another control point.
LEMMA PhaseStep ==
    ASSUME TypeOK, Phases, NEW a \in Actors, NEW x, NEW j,
           pc' = [pc EXCEPT ![a] = x], job' = [job EXCEPT ![a] = j],
           IF a = Worker THEN x \in {"top", "wait", "off", "compact", "evaluate"}
           ELSE x \in {"idle", "schedule", "compact", "evaluate", "failed"},
           IF x \in {"schedule", "compact", "evaluate", "failed"} THEN j.path # None
           ELSE j = NoJob
    PROVE  Phases'
<1>1. \A b \in Actors : /\ pc'[b] = IF b = a THEN x ELSE pc[b]
                        /\ job'[b] = IF b = a THEN j ELSE job[b]
  BY DEF TypeOK
<1>2. Worker \in Actors /\ \A c \in Clients : c \in Actors /\ c # Worker
  BY ConstantsAssumption DEF Actors
<1>3. QED
  BY <1>1, <1>2 DEF Phases

\* A path that is evaluated stays as it is unless its evaluation ends.
LEMMA ControlKept ==
    ASSUME TypeOK, Phases, Control, UNCHANGED lock,
           \A a \in Actors : pc'[a] = "evaluate" <=> pc[a] = "evaluate",
           \A a \in Actors : pc[a] = "evaluate" =>
               job'[a].path = job[a].path /\ job'[a].ticket = job[a].ticket,
           \A p \in Paths : lock[p] = None => rec'[p].state # "inflight",
           \A p \in Paths : lock[p] # None =>
               /\ rec'[p].gen = rec[p].gen /\ rec'[p].eval = rec[p].eval
               /\ rec'[p].state = rec[p].state
    PROVE  Control'
<1>1. Locked'
  BY DEF Control, Locked, TypeOK
<1>2. InflightLocked'
  BY DEF InflightLocked
<1>3. ASSUME NEW a \in Actors, pc'[a] = "evaluate"
      PROVE  lock'[job'[a].path] = a /\ OwnTicket(job[a].path, job[a].ticket)'
  <2> DEFINE p == job[a].path
             k == job[a].ticket
  <2>1. pc[a] = "evaluate" /\ p \in Paths
    BY <1>3, WorkPath
  <2>2. job'[a].path = p /\ job'[a].ticket = k /\ lock[p] = a /\ OwnTicket(p, k)
    BY <2>1 DEF Control, Evaluating
  <2>3. rec'[p].gen = rec[p].gen /\ rec'[p].eval = rec[p].eval /\ rec'[p].state = rec[p].state
    BY <2>1, <2>2, ConstantsAssumption
  <2> HIDE DEF p, k
  <2>4. QED
    BY <2>2, <2>3 DEF OwnTicket, Carries, Waiting
<1>4. QED
  BY <1>1, <1>2, <1>3 DEF Control, Evaluating

\* The carrier of a ticket keeps it, passes it on, or the record stops waiting.
LEMMA TrackedStep ==
    ASSUME QueuedTracked, NEW a \in Actors,
           \A b \in Actors \ {a} : pc[b] \in Carrying =>
               /\ pc'[b] \in Carrying /\ job'[b].path = job[b].path
               /\ job'[b].ticket = job[b].ticket,
           \A p \in Paths : rec'[p].state = "queued" =>
               /\ rec[p].state = "queued" /\ rec'[p].gen = rec[p].gen
               /\ rec'[p].eval = rec[p].eval,
           \A p \in Paths : \A n \in DOMAIN queue :
               rec'[p].state = "queued" /\ CarriedAt(p, n) =>
                   (\E b \in Actors : CarriedBy(p, b)')
                   \/ \E m \in DOMAIN queue' : CarriedAt(p, m)',
           \A p \in Paths : rec'[p].state = "queued" /\ CarriedBy(p, a) =>
               (\E b \in Actors : CarriedBy(p, b)')
               \/ \E m \in DOMAIN queue' : CarriedAt(p, m)'
    PROVE  QueuedTracked'
<1> SUFFICES ASSUME NEW p \in Paths, rec'[p].state = "queued"
             PROVE  (\E b \in Actors : CarriedBy(p, b)')
                    \/ \E m \in DOMAIN queue' : CarriedAt(p, m)'
  BY DEF QueuedTracked
<1>1. /\ rec[p].state = "queued" /\ rec'[p].gen = rec[p].gen /\ rec'[p].eval = rec[p].eval
  OBVIOUS
<1>2. CASE \E n \in DOMAIN queue : CarriedAt(p, n)
  BY <1>2
<1>3. ASSUME NEW b \in Actors, CarriedBy(p, b)
      PROVE  (\E c \in Actors : CarriedBy(p, c)')
             \/ \E m \in DOMAIN queue' : CarriedAt(p, m)'
  <2>1. CASE b = a
    BY <1>3, <2>1
  <2>2. CASE b # a
    <3>1. CarriedBy(p, b)'
      BY <1>1, <1>3, <2>2 DEF CarriedBy, Carries
    <3>2. QED
      BY <3>1
  <2>3. QED
    BY <2>1, <2>2
<1>4. QED
  BY <1>1, <1>2, <1>3 DEF QueuedTracked

\* No ticket of a path that is locked is still to be taken.
LEMMA LockedNotQueued ==
    ASSUME TypeOK, Control, NEW p \in Paths, lock[p] # None
    PROVE  rec[p].state # "queued"
<1>1. lock[p] \in Actors /\ pc[lock[p]] = "evaluate" /\ job[lock[p]].path = p
  BY DEF TypeOK, Control, Locked
<1>2. OwnTicket(p, job[lock[p]].ticket)
  BY <1>1 DEF Control, Evaluating
<1>3. QED
  BY <1>2 DEF OwnTicket, Waiting

\* What a compaction that has returned leaves of its actor.
LEMMA FinishStep ==
    ASSUME TypeOK, Phases, NEW a \in Actors, pc[a] \in {"compact", "evaluate"},
           NEW e \in BOOLEAN, Finish(a, e)
    PROVE  \E x \in {"idle", "top", "failed"}, j \in Jobs :
              /\ pc' = [pc EXCEPT ![a] = x] /\ job' = [job EXCEPT ![a] = j]
              /\ j.path \in {None, job[a].path} /\ j.ticket \in {NoTicket, job[a].ticket}
              /\ Phases'
<1>1. /\ job[a] \in Jobs /\ job[a].path # None /\ NoJob.path = None
      /\ NoJob.ticket = NoTicket
  BY DEF TypeOK, Phases, NoJob
<1>2. NoJob \in Jobs
  BY DEF NoJob, Jobs, NoTicket, Tickets
<1> DEFINE l == [job[a] EXCEPT !.cold = FALSE]
<1>3. l \in Jobs /\ l.path = job[a].path /\ l.ticket = job[a].ticket
  BY <1>1 DEF Jobs
<1> HIDE DEF l
<1>4. CASE a = Worker
  <2>1. pc' = [pc EXCEPT ![a] = "top"] /\ job' = [job EXCEPT ![a] = NoJob]
    BY <1>4 DEF Finish
  <2>2. Phases'
    BY <1>4, <2>1, PhaseStep
  <2>3. QED
    BY <1>1, <1>2, <2>1, <2>2
<1>5. CASE a # Worker /\ e
  <2>1. pc' = [pc EXCEPT ![a] = "failed"] /\ job' = [job EXCEPT ![a] = l]
    BY <1>5 DEF Finish, l
  <2>2. Phases'
    BY <1>1, <1>3, <1>5, <2>1, PhaseStep
  <2>3. QED
    BY <1>3, <2>1, <2>2
<1>6. CASE a # Worker /\ ~e
  <2>1. pc' = [pc EXCEPT ![a] = "idle"] /\ job' = [job EXCEPT ![a] = NoJob]
    BY <1>6 DEF Finish, Return
  <2>2. Phases'
    BY <1>6, <2>1, PhaseStep
  <2>3. QED
    BY <1>1, <1>2, <2>1, <2>2
<1>7. QED
  BY <1>4, <1>5, <1>6

\* An actor without the path lock gives its request up, or its ticket.
LEMMA GiveUpStep ==
    ASSUME IndInv, NEW a \in Actors, pc[a] \in {"compact", "failed"},
           NEW p, p = job[a].path,
           NEW x \in {"idle", "top", "failed", "schedule"}, NEW j \in Jobs,
           pc' = [pc EXCEPT ![a] = x], job' = [job EXCEPT ![a] = j],
           j.path \in {None, p}, j.ticket \in {NoTicket, job[a].ticket}, Phases',
           NEW r \in Records, rec' = [rec EXCEPT ![p] = r],
           Sound(r, seen[p], Out(p)),
           r = rec[p] \/ (rec[p].state = "queued" /\ r.state = "idle"),
           Matches(rec[p], job[a].ticket) => r.state # "queued",
           due' \in [Paths -> BOOLEAN],
           UNCHANGED <<queue, running, stop, serving, lock, file, writer, seen, ops>>
    PROVE  IndInv'
<1>1. p \in Paths
  BY WorkPath DEF IndInv
<1>3. /\ \A b \in Actors : /\ pc'[b] = IF b = a THEN x ELSE pc[b]
                           /\ job'[b] = IF b = a THEN j ELSE job[b]
      /\ \A q \in Paths : rec'[q] = IF q = p THEN r ELSE rec[q]
  BY DEF IndInv, TypeOK
<1>4. TypeOK'
  BY <1>1 DEF IndInv, TypeOK
<1>5. lock[p] # None => r = rec[p]
  BY <1>1, LockedNotQueued DEF IndInv
<1>6. r.state = "inflight" => lock[p] # None
  BY <1>1 DEF IndInv, Control, InflightLocked
<1>7. Control'
  <2>1. \A b \in Actors : pc'[b] = "evaluate" <=> pc[b] = "evaluate"
    BY <1>3
  <2>2. \A b \in Actors : pc[b] = "evaluate" => job'[b] = job[b]
    BY <1>3
  <2>3. \A q \in Paths : lock[q] = None => rec'[q].state # "inflight"
    BY <1>3, <1>6 DEF IndInv, Control, InflightLocked
  <2>4. \A q \in Paths : lock[q] # None => rec'[q] = rec[q]
    BY <1>3, <1>5
  <2>5. QED
    BY <2>1, <2>2, <2>3, <2>4, ControlKept DEF IndInv
<1>8. QueuedTracked'
  <2>1. \A b \in Actors \ {a} : pc'[b] = pc[b] /\ job'[b] = job[b]
    BY <1>3
  <2>2. \A q \in Paths : rec'[q].state = "queued" => rec'[q] = rec[q]
    BY <1>3
  <2>3. ASSUME NEW q \in Paths, NEW n \in DOMAIN queue, rec'[q].state = "queued", CarriedAt(q, n)
        PROVE  n \in DOMAIN queue' /\ CarriedAt(q, n)'
    BY <2>2, <2>3 DEF CarriedAt, Carries
  <2>4. ASSUME NEW q \in Paths, rec'[q].state = "queued", CarriedBy(q, a)
        PROVE  FALSE
    <3>1. q = p /\ rec[p].state = "queued" /\ r.state = "queued"
      BY <1>3, <2>2, <2>4 DEF CarriedBy
    <3>2. rec[p].eval > 0
      BY <1>1, <3>1 DEF IndInv, RecordsSound, Sound, Waiting
    <3>3. Matches(rec[p], job[a].ticket)
      BY <2>4, <3>1, <3>2 DEF CarriedBy, Carries, Matches, Valid
    <3>4. QED
      BY <3>1, <3>3
  <2>5. QED
    BY <2>1, <2>2, <2>3, <2>4, TrackedStep DEF IndInv
<1>9. RecordsSound'
  <2>1. \A q \in Paths : Out(q)' \subseteq Out(q) \cup {NoTicket}
    BY OutDropped DEF IndInv
  <2>2. Sound(r, seen[p], Out(p)')
    BY <1>1, <2>1, FewerTickets
  <2>3. seen' = [seen EXCEPT ![p] = seen[p]]
    BY DEF IndInv, TypeOK
  <2>4. QED
    BY <1>1, <2>1, <2>2, <2>3, SoundStep DEF IndInv
<1>10. Distinct' /\ Drained'
  BY <1>3, ConstantsAssumption DEF IndInv, Distinct, Drained, Actors
<1>11. QED
  BY <1>4, <1>7, <1>8, <1>9, <1>10 DEF IndInv

\* A compaction that returns before it locked the path.
LEMMA DropStep ==
    ASSUME IndInv, NEW a \in Actors, pc[a] = "compact",
           NEW p, p = job[a].path, NEW e \in BOOLEAN, Finish(a, e),
           NEW r \in Records, rec' = [rec EXCEPT ![p] = r],
           Sound(r, seen[p], Out(p)),
           r = rec[p] \/ (rec[p].state = "queued" /\ r.state = "idle"),
           Matches(rec[p], job[a].ticket) => r.state # "queued",
           due' \in [Paths -> BOOLEAN],
           UNCHANGED <<queue, running, stop, serving, lock, file, writer, seen, ops>>
    PROVE  IndInv'
<1>1. PICK x \in {"idle", "top", "failed"}, j \in Jobs :
         /\ pc' = [pc EXCEPT ![a] = x] /\ job' = [job EXCEPT ![a] = j]
         /\ j.path \in {None, p} /\ j.ticket \in {NoTicket, job[a].ticket}
         /\ Phases'
  BY FinishStep DEF IndInv
<1>2. QED
  BY <1>1, GiveUpStep

\* An evaluation ends and unlocks the path; its record does not wait any more.
LEMMA EndStep ==
    ASSUME IndInv, NEW a \in Actors, pc[a] = "evaluate",
           NEW p, p = job[a].path, NEW e \in BOOLEAN, Finish(a, e),
           NEW r \in Records, rec' = [rec EXCEPT ![p] = r],
           NEW s \in Nat, seen' = [seen EXCEPT ![p] = s],
           Sound(r, s, Out(p)), ~Waiting(r), Unlock(p),
           due' \in [Paths -> BOOLEAN],
           UNCHANGED <<queue, running, stop, serving, file, writer, ops>>
    PROVE  IndInv'
<1>1. p \in Paths
  BY WorkPath DEF IndInv
<1>2. PICK x \in {"idle", "top", "failed"}, j \in Jobs :
         /\ pc' = [pc EXCEPT ![a] = x] /\ job' = [job EXCEPT ![a] = j]
         /\ j.path \in {None, p} /\ j.ticket \in {NoTicket, job[a].ticket}
         /\ Phases'
  BY FinishStep DEF IndInv
<1>3. /\ \A b \in Actors : /\ pc'[b] = IF b = a THEN x ELSE pc[b]
                           /\ job'[b] = IF b = a THEN j ELSE job[b]
      /\ \A q \in Paths : /\ rec'[q] = IF q = p THEN r ELSE rec[q]
                          /\ lock'[q] = IF q = p THEN None ELSE lock[q]
  BY <1>2 DEF IndInv, TypeOK, Unlock
<1>4. TypeOK'
  BY <1>1, <1>2 DEF IndInv, TypeOK, Unlock
<1>5. lock[p] = a
  BY DEF IndInv, Control, Evaluating
<1>6. \A b \in Actors : pc[b] = "evaluate" /\ job[b].path = p => b = a
  BY <1>5 DEF IndInv, Control, Evaluating
<1>7. Control'
  <2>1. Locked'
    <3> SUFFICES ASSUME NEW q \in Paths, lock'[q] # None
                 PROVE  pc'[lock'[q]] = "evaluate" /\ job'[lock'[q]].path = q
      BY DEF Locked
    <3>1. q # p /\ lock'[q] = lock[q] /\ lock[q] # None /\ lock[q] \in Actors
      BY <1>3 DEF IndInv, TypeOK
    <3>2. pc[lock[q]] = "evaluate" /\ job[lock[q]].path = q
      BY <3>1 DEF IndInv, Control, Locked
    <3>3. lock[q] # a
      BY <3>1, <3>2
    <3>4. QED
      BY <1>3, <3>1, <3>2, <3>3
  <2>2. InflightLocked'
    <3> SUFFICES ASSUME NEW q \in Paths, rec'[q].state = "inflight" PROVE lock'[q] # None
      BY DEF InflightLocked
    <3>1. q # p
      BY <1>3 DEF Waiting
    <3>2. QED
      BY <1>3, <3>1 DEF IndInv, Control, InflightLocked
  <2>3. ASSUME NEW b \in Actors, pc'[b] = "evaluate"
        PROVE  lock'[job'[b].path] = b /\ OwnTicket(job[b].path, job[b].ticket)'
    <3>1. b # a /\ pc[b] = "evaluate" /\ job'[b] = job[b]
      BY <1>3, <2>3
    <3>2. job[b].path \in Paths /\ job[b].path # p
      BY <1>6, <3>1, WorkPath DEF IndInv
    <3>3. lock'[job[b].path] = b /\ rec'[job[b].path] = rec[job[b].path]
      BY <1>3, <3>1, <3>2 DEF IndInv, Control, Evaluating
    <3>4. OwnTicket(job[b].path, job[b].ticket)
      BY <3>1 DEF IndInv, Control, Evaluating
    <3>5. QED
      BY <3>1, <3>3, <3>4 DEF OwnTicket, Carries
  <2>4. QED
    BY <2>1, <2>2, <2>3 DEF Control, Evaluating
<1>8. QueuedTracked'
  <2>1. \A b \in Actors \ {a} : pc'[b] = pc[b] /\ job'[b] = job[b]
    BY <1>3
  <2>2. \A q \in Paths : rec'[q].state = "queued" => rec'[q] = rec[q]
    BY <1>3 DEF Waiting
  <2>3. ASSUME NEW q \in Paths, NEW n \in DOMAIN queue, rec'[q].state = "queued", CarriedAt(q, n)
        PROVE  n \in DOMAIN queue' /\ CarriedAt(q, n)'
    BY <2>2, <2>3 DEF CarriedAt, Carries
  <2>4. \A q \in Paths : ~CarriedBy(q, a)
    BY DEF CarriedBy, Carrying
  <2>5. QED
    BY <2>1, <2>2, <2>3, <2>4, TrackedStep DEF IndInv
<1>9. RecordsSound'
  <2>1. \A q \in Paths : Out(q)' \subseteq Out(q) \cup {NoTicket}
    BY <1>2, OutDropped DEF IndInv
  <2>2. Sound(r, s, Out(p)')
    BY <1>1, <2>1, FewerTickets
  <2>3. QED
    BY <1>1, <2>1, <2>2, SoundStep DEF IndInv
<1>10. Distinct' /\ Drained'
  BY <1>3, ConstantsAssumption DEF IndInv, Distinct, Drained, Actors
<1>11. QED
  BY <1>2, <1>4, <1>7, <1>8, <1>9, <1>10 DEF IndInv

\* A request goes on to another control point with its path and its ticket.
LEMMA MoveStep ==
    ASSUME IndInv, NEW a \in Actors, pc[a] \in Carrying, NEW x \in Carrying,
           a = Worker => x = "compact", NEW j \in Jobs,
           j.path = job[a].path, j.ticket = job[a].ticket,
           pc' = [pc EXCEPT ![a] = x], job' = [job EXCEPT ![a] = j],
           queue' \in Seq(Requests), DOMAIN queue' = DOMAIN queue, Distinct',
           queue = <<>> => queue' = <<>>,
           \A n \in DOMAIN queue : queue'[n].path = queue[n].path
                                   /\ queue'[n].ticket = queue[n].ticket,
           UNCHANGED <<rec, running, stop, serving, lock, file, writer, seen, due, ops>>
    PROVE  IndInv'
<1>1. \A b \in Actors : /\ pc'[b] = IF b = a THEN x ELSE pc[b]
                        /\ job'[b] = IF b = a THEN j ELSE job[b]
  BY DEF IndInv, TypeOK
<1>2. pc[a] \in {"schedule", "compact", "evaluate", "failed"}
      /\ pc[a] # "evaluate" /\ x # "evaluate"
      /\ x \in {"schedule", "compact", "failed"}
  BY DEF Carrying
<1>3. TypeOK'
  BY <1>2 DEF IndInv, TypeOK
<1>4. Phases'
  <2>1. j.path # None
    BY <1>2, WorkPath, ConstantsAssumption DEF IndInv
  <2>2. QED
    BY <1>2, <2>1, PhaseStep DEF IndInv
<1>5. Control'
  <2>1. \A b \in Actors : pc'[b] = "evaluate" <=> pc[b] = "evaluate"
    BY <1>1, <1>2
  <2>2. \A b \in Actors : pc[b] = "evaluate" => job'[b] = job[b]
    BY <1>1, <1>2
  <2>3. \A q \in Paths : lock[q] = None => rec'[q].state # "inflight"
    BY DEF IndInv, Control, InflightLocked
  <2>4. QED
    BY <2>1, <2>2, <2>3, ControlKept DEF IndInv
<1>6. QueuedTracked'
  <2>1. \A b \in Actors \ {a} : pc'[b] = pc[b] /\ job'[b] = job[b]
    BY <1>1
  <2>2. \A q \in Paths : \A n \in DOMAIN queue : CarriedAt(q, n) => CarriedAt(q, n)'
    BY DEF CarriedAt, Carries
  <2>3. \A q \in Paths : CarriedBy(q, a) => CarriedBy(q, a)'
    BY <1>1 DEF CarriedBy, Carries
  <2>4. QED
    BY <2>1, <2>2, <2>3, TrackedStep DEF IndInv
<1>7. RecordsSound'
  <2>1. \A q \in Paths : Out(q)' \subseteq Out(q)
    BY <1>1 DEF Out
  <2>2. QED
    BY <2>1, SoundKept DEF IndInv
<1>8. Drained'
  BY <1>1, <1>2, ConstantsAssumption DEF IndInv, Drained, Actors
<1>9. QED
  BY <1>3, <1>4, <1>5, <1>6, <1>7, <1>8 DEF IndInv

-----------------------------------------------------------------------------
(* Every step preserves the invariant, one lemma for each action.          *)

\* At first nothing was written and nothing is out.
LEMMA InitInv == Init => IndInv
<1> SUFFICES ASSUME Init PROVE IndInv
  OBVIOUS
<1>1. NoJob \in Jobs /\ NoJob.path = None
  BY DEF NoJob, Jobs, NoTicket, Tickets
<1>2. NewRecord(1) \in Records /\ NewRecord(1).state = "idle" /\ NewRecord(1).eval = 0
      /\ NewRecord(1).stats = 0
  BY DEF NewRecord, Records, RecordStates
<1>3. queue \in Seq(Requests) /\ DOMAIN queue = {}
  BY EmptySeq, LenProperties DEF Init
<1>4. TypeOK
  <2>1. /\ rec \in [Paths -> Records] /\ job \in [Actors -> Jobs]
        /\ lock \in [Paths -> Actors \cup {None}] /\ seen \in [Paths -> Nat]
        /\ due \in [Paths -> BOOLEAN]
    BY <1>1, <1>2 DEF Init
  <2>2. /\ file \in [Clients -> Paths \cup {None}] /\ writer \in [Clients -> BOOLEAN]
        /\ running \in BOOLEAN /\ stop \in BOOLEAN /\ serving \in BOOLEAN
    BY DEF Init
  <2>3. pc \in [Actors -> {"idle", "schedule", "compact", "evaluate", "failed",
                           "top", "wait", "off"}]
    BY DEF Init
  <2>4. ops \in 0 .. MaxOps
    BY ConstantsAssumption DEF Init
  <2>5. QED
    BY <1>3, <2>1, <2>2, <2>3, <2>4 DEF TypeOK
<1>5. Phases
  BY ConstantsAssumption DEF Init, Phases, Actors
<1>6. Control
  BY <1>2 DEF Init, Control, Locked, Evaluating, InflightLocked, Actors
<1>7. QueuedTracked
  BY <1>2 DEF Init, QueuedTracked
<1>8. \A p \in Paths : Out(p) = {}
  BY <1>1, <1>3, ConstantsAssumption DEF Init, Out
<1>9. RecordsSound
  BY <1>2, <1>8 DEF Init, RecordsSound, Sound, Waiting
<1>10. Distinct /\ Drained
  BY <1>3, ConstantsAssumption DEF Init, Distinct, Drained, Actors
<1>11. QED
  BY <1>4, <1>5, <1>6, <1>7, <1>9, <1>10 DEF IndInv

\* Without a worker the thread keeps its request to compact itself.
LEMMA ScheduleFallbackInv ==
    ASSUME IndInv, NEW c \in Clients, ScheduleFallback(c) PROVE IndInv'
<1>1. c \in Actors /\ c # Worker /\ job[c] \in Jobs /\ job' = [job EXCEPT ![c] = job[c]]
  BY ConstantsAssumption DEF IndInv, TypeOK, Actors, ScheduleFallback
<1>2. pc[c] \in Carrying /\ "compact" \in Carrying
  BY DEF ScheduleFallback, Carrying
<1>3. QED
  BY <1>1, <1>2, MoveStep DEF ScheduleFallback, IndInv, TypeOK, Distinct

\* A request that cannot be allocated stays with its thread.
LEMMA ScheduleNoMemoryInv ==
    ASSUME IndInv, NEW c \in Clients, ScheduleNoMemory(c) PROVE IndInv'
<1>1. c \in Actors /\ c # Worker /\ job[c] \in Jobs /\ job' = [job EXCEPT ![c] = job[c]]
  BY ConstantsAssumption DEF IndInv, TypeOK, Actors, ScheduleNoMemory
<1>2. pc[c] \in Carrying /\ "failed" \in Carrying
  BY DEF ScheduleNoMemory, Carrying
<1>3. QED
  BY <1>1, <1>2, MoveStep DEF ScheduleNoMemory, IndInv, TypeOK, Distinct

\* A refused ticket stays with its thread; the queue keeps the ticket it has.
LEMMA ScheduleBusyInv ==
    ASSUME IndInv, NEW c \in Clients, ScheduleBusy(c) PROVE IndInv'
<1>1. c \in Actors /\ c # Worker /\ job[c] \in Jobs /\ job' = [job EXCEPT ![c] = job[c]]
  BY ConstantsAssumption DEF IndInv, TypeOK, Actors, ScheduleBusy
<1>2. pc[c] \in Carrying /\ "failed" \in Carrying
  BY DEF ScheduleBusy, Carrying
<1>3. PICK n \in At(job[c].path) :
         queue' = [queue EXCEPT ![n].ordinary = queue[n].ordinary \/ job[c].ordinary]
  BY DEF ScheduleBusy
<1> DEFINE o == queue[n].ordinary \/ job[c].ordinary
           r == [queue[n] EXCEPT !.ordinary = o]
<1>4. n \in DOMAIN queue /\ queue[n] \in Requests
  BY QueueType DEF IndInv, TypeOK, At
<1>5. queue' = [queue EXCEPT ![n] = r]
  BY <1>3, <1>4
<1>6. o \in BOOLEAN
  OBVIOUS
<1> HIDE DEF o
<1>7. r \in Requests /\ r.path = queue[n].path /\ r.ticket = queue[n].ticket
  BY <1>4, <1>6 DEF Requests
<1> HIDE DEF r
<1>8. /\ queue' \in Seq(Requests) /\ Distinct' /\ DOMAIN queue' = DOMAIN queue
      /\ queue'[n] = r /\ \A m \in DOMAIN queue : m # n => queue'[m] = queue[m]
  BY <1>4, <1>5, <1>7, QueueMerged DEF IndInv, TypeOK
<1>9. queue # <<>>
  BY <1>4, EmptySeq, LenProperties DEF IndInv, TypeOK
<1>10. \A m \in DOMAIN queue : /\ queue'[m].path = queue[m].path
                               /\ queue'[m].ticket = queue[m].ticket
  BY <1>7, <1>8
<1>11. QED
  BY <1>1, <1>2, <1>8, <1>9, <1>10, MoveStep DEF ScheduleBusy

\* A compaction whose path cannot be locked.
LEMMA LockFailsInv ==
    ASSUME IndInv, NEW a \in Actors, LockFails(a) PROVE IndInv'
<1>1. pc[a] = "compact" /\ Finish(a, TRUE)
      /\ UNCHANGED <<queue, running, stop, serving, lock, file, writer, seen, ops>>
  BY DEF LockFails
<1>2. PICK p \in Paths : p = job[a].path
  BY <1>1, WorkPath DEF IndInv
<1>3. CASE a = Worker
  <2> DEFINE r == ScheduleFailed(rec[p], job[a].ticket)
  <2>1. rec' = [rec EXCEPT ![p] = r] /\ due' = [due EXCEPT ![p] = due[p] /\ ~job[a].ordinary]
    BY <1>2, <1>3 DEF LockFails
  <2>2. rec[p] \in Records /\ Sound(rec[p], seen[p], Out(p)) /\ job[a].ticket \in Out(p)
        /\ Out(p) \in SUBSET Tickets
    BY <1>2, HeldOut DEF IndInv, TypeOK, RecordsSound, Out
  <2>3. /\ r \in Records /\ Sound(r, seen[p], Out(p))
        /\ r = rec[p] \/ (rec[p].state = "queued" /\ r.state = "idle")
        /\ Matches(rec[p], job[a].ticket) => r.state # "queued"
    BY <2>2, ScheduleFailedSound
  <2>4. due' \in [Paths -> BOOLEAN]
    BY <2>1 DEF IndInv, TypeOK
  <2> HIDE DEF r
  <2>5. QED
    BY <1>1, <1>2, <2>1, <2>3, <2>4, DropStep
<1>4. CASE a # Worker
  <2> DEFINE j == [job[a] EXCEPT !.cold = FALSE]
  <2>1. job[a] \in Jobs
    BY DEF IndInv, TypeOK
  <2>2. j \in Jobs /\ j.path = job[a].path /\ j.ticket = job[a].ticket
    BY <2>1 DEF Jobs
  <2>3. pc' = [pc EXCEPT ![a] = "failed"] /\ job' = [job EXCEPT ![a] = j]
    BY <1>1, <1>4 DEF Finish
  <2> HIDE DEF j
  <2>4. pc[a] \in Carrying /\ "failed" \in Carrying
    BY <1>1 DEF Carrying
  <2>5. UNCHANGED <<rec, due>>
    BY <1>4 DEF LockFails
  <2>6. QED
    BY <1>1, <1>4, <2>2, <2>3, <2>4, <2>5, MoveStep DEF IndInv, TypeOK, Distinct
<1>5. QED
  BY <1>3, <1>4

\* What a rejection does to the record of the path.
LEMMA RejectStep ==
    ASSUME IndInv, NEW a \in Actors, pc[a] \in {"compact", "evaluate"},
           NEW p \in Paths, p = job[a].path
    PROVE  LET r == Reject(rec[p], job[a].ticket)
           IN  /\ rec[p] \in Records /\ Out(p) \in SUBSET Tickets
               /\ Sound(rec[p], seen[p], Out(p)) /\ seen[p] \in Nat
               /\ r \in Records /\ Sound(r, seen[p], Out(p))
               /\ r = rec[p] \/ (Waiting(rec[p]) /\ r.state = "idle")
               /\ Matches(rec[p], job[a].ticket) => ~Waiting(r)
<1>1. rec[p] \in Records /\ Sound(rec[p], seen[p], Out(p)) /\ job[a].ticket \in Out(p)
      /\ Out(p) \in SUBSET Tickets /\ seen[p] \in Nat
  BY HeldOut DEF IndInv, TypeOK, RecordsSound, Out
<1>2. QED
  BY <1>1, RejectSound

\* A storage that cannot be resolved.
LEMMA ResolveFailsInv ==
    ASSUME IndInv, NEW a \in Actors, ResolveFails(a) PROVE IndInv'
<1>1. pc[a] = "compact" /\ Finish(a, TRUE)
      /\ UNCHANGED <<queue, running, stop, serving, lock, file, writer, seen, ops>>
  BY DEF ResolveFails
<1>2. PICK p \in Paths : p = job[a].path
  BY <1>1, WorkPath DEF IndInv
<1> DEFINE r == Reject(rec[p], job[a].ticket)
<1>3. lock[p] = None /\ rec' = [rec EXCEPT ![p] = r]
      /\ due' = [due EXCEPT ![p] = due[p] /\ ~job[a].ordinary]
  BY <1>2 DEF ResolveFails
<1>4. /\ r \in Records /\ Sound(r, seen[p], Out(p))
      /\ r = rec[p] \/ (Waiting(rec[p]) /\ r.state = "idle")
      /\ Matches(rec[p], job[a].ticket) => ~Waiting(r)
  BY <1>1, <1>2, RejectStep
<1>5. rec[p].state # "inflight"
  BY <1>3 DEF IndInv, Control, InflightLocked
<1>6. due' \in [Paths -> BOOLEAN]
  BY <1>3 DEF IndInv, TypeOK
<1> HIDE DEF r
<1>7. QED
  BY <1>1, <1>2, <1>3, <1>4, <1>5, <1>6, DropStep DEF Waiting

\* A compaction that leaves the generation to the ticket that is on its way.
LEMMA YieldsInv ==
    ASSUME IndInv, NEW a \in Actors, Yields(a) PROVE IndInv'
<1>1. pc[a] = "compact" /\ Finish(a, FALSE)
      /\ UNCHANGED <<queue, running, stop, serving, lock, file, writer, seen, due, ops>>
  BY DEF Yields
<1>2. PICK p \in Paths : p = job[a].path
  BY <1>1, WorkPath DEF IndInv
<1> DEFINE r == Reject(rec[p], job[a].ticket)
<1>3. lock[p] = None /\ rec' = [rec EXCEPT ![p] = r]
  BY <1>2 DEF Yields
<1>4. /\ r \in Records /\ Sound(r, seen[p], Out(p))
      /\ r = rec[p] \/ (Waiting(rec[p]) /\ r.state = "idle")
      /\ Matches(rec[p], job[a].ticket) => ~Waiting(r)
  BY <1>1, <1>2, RejectStep
<1>5. rec[p].state # "inflight"
  BY <1>3 DEF IndInv, Control, InflightLocked
<1>6. due' \in [Paths -> BOOLEAN]
  BY <1>1 DEF IndInv, TypeOK
<1> HIDE DEF r
<1>7. QED
  BY <1>1, <1>2, <1>3, <1>4, <1>5, <1>6, DropStep DEF Waiting

\* A compaction locks the path; its own ticket is under evaluation or it has none.
LEMMA LockStep ==
    ASSUME IndInv, NEW a \in Actors, pc[a] = "compact", NEW p \in Paths, p = job[a].path,
           lock[p] = None, lock' = [lock EXCEPT ![p] = a],
           NEW r \in Records, rec' = [rec EXCEPT ![p] = r], Sound(r, seen[p], Out(p)),
           r.state # "queued", NEW j \in Jobs, j.path = p,
           j.ticket \in {NoTicket, job[a].ticket},
           IF Valid(j.ticket)
           THEN r.state = "inflight" /\ r.gen = j.ticket.gen /\ r.eval = j.ticket.eval
           ELSE ~Waiting(r),
           pc' = [pc EXCEPT ![a] = "evaluate"], job' = [job EXCEPT ![a] = j],
           UNCHANGED <<queue, running, stop, serving, file, writer, seen, due, ops>>
    PROVE  IndInv'
<1>1. a # None /\ p # None
  BY ConstantsAssumption
<1>2. /\ \A b \in Actors : /\ pc'[b] = IF b = a THEN "evaluate" ELSE pc[b]
                           /\ job'[b] = IF b = a THEN j ELSE job[b]
      /\ \A q \in Paths : /\ rec'[q] = IF q = p THEN r ELSE rec[q]
                          /\ lock'[q] = IF q = p THEN a ELSE lock[q]
  BY DEF IndInv, TypeOK
<1>3. TypeOK'
  BY DEF IndInv, TypeOK
<1>4. Phases'
  BY <1>1, PhaseStep DEF IndInv
<1>5. \A b \in Actors : pc[b] = "evaluate" => job[b].path # p
  BY <1>1, ConstantsAssumption DEF IndInv, Control, Evaluating
<1>6. Control'
  <2>1. Locked'
    <3> SUFFICES ASSUME NEW q \in Paths, lock'[q] # None
                 PROVE  pc'[lock'[q]] = "evaluate" /\ job'[lock'[q]].path = q
      BY DEF Locked
    <3>1. CASE q = p
      BY <1>2, <3>1
    <3>2. CASE q # p
      <4>1. lock'[q] = lock[q] /\ lock[q] \in Actors /\ pc[lock[q]] = "evaluate"
            /\ job[lock[q]].path = q
        BY <1>2, <3>2 DEF IndInv, TypeOK, Control, Locked
      <4>2. lock[q] # a
        BY <4>1
      <4>3. QED
        BY <1>2, <4>1, <4>2
    <3>3. QED
      BY <3>1, <3>2
  <2>2. InflightLocked'
    BY <1>1, <1>2 DEF IndInv, Control, InflightLocked
  <2>3. ASSUME NEW b \in Actors, pc'[b] = "evaluate"
        PROVE  lock'[job'[b].path] = b /\ OwnTicket(job[b].path, job[b].ticket)'
    <3>1. CASE b = a
      BY <1>2, <3>1 DEF OwnTicket, Carries
    <3>2. CASE b # a
      <4>1. pc[b] = "evaluate" /\ job'[b] = job[b]
        BY <1>2, <2>3, <3>2
      <4>2. job[b].path \in Paths /\ job[b].path # p
        BY <1>5, <4>1, WorkPath DEF IndInv
      <4>3. lock'[job[b].path] = b /\ rec'[job[b].path] = rec[job[b].path]
            /\ OwnTicket(job[b].path, job[b].ticket)
        BY <1>2, <4>1, <4>2 DEF IndInv, Control, Evaluating
      <4>4. QED
        BY <4>1, <4>3 DEF OwnTicket, Carries
    <3>3. QED
      BY <3>1, <3>2
  <2>4. QED
    BY <2>1, <2>2, <2>3 DEF Control, Evaluating
<1>7. QueuedTracked'
  <2>1. \A b \in Actors \ {a} : pc'[b] = pc[b] /\ job'[b] = job[b]
    BY <1>2
  <2>2. \A q \in Paths : rec'[q].state = "queued" => q # p /\ rec'[q] = rec[q]
    BY <1>2
  <2>3. ASSUME NEW q \in Paths, NEW n \in DOMAIN queue, rec'[q].state = "queued", CarriedAt(q, n)
        PROVE  n \in DOMAIN queue' /\ CarriedAt(q, n)'
    BY <2>2, <2>3 DEF CarriedAt, Carries
  <2>4. \A q \in Paths : rec'[q].state = "queued" => ~CarriedBy(q, a)
    BY <2>2 DEF CarriedBy
  <2>5. QED
    BY <2>1, <2>2, <2>3, <2>4, TrackedStep DEF IndInv
<1>8. RecordsSound'
  <2>1. \A q \in Paths : Out(q)' \subseteq Out(q) \cup {NoTicket}
    BY OutDropped DEF IndInv
  <2>2. Sound(r, seen[p], Out(p)')
    BY <2>1, FewerTickets
  <2>3. seen' = [seen EXCEPT ![p] = seen[p]]
    BY DEF IndInv, TypeOK
  <2>4. QED
    BY <2>1, <2>2, <2>3, SoundStep DEF IndInv
<1>9. Distinct' /\ Drained'
  BY <1>2, ConstantsAssumption DEF IndInv, Distinct, Drained, Actors
<1>10. QED
  BY <1>3, <1>4, <1>6, <1>7, <1>8, <1>9 DEF IndInv

\* A record whose evaluation begins.
LEMMA InflightSound ==
    ASSUME NEW r \in Records, NEW s, NEW T, Sound(r, s, T), r.state = "queued"
    PROVE  LET n == [r EXCEPT !.state = "inflight"]
           IN  n \in Records /\ Sound(n, s, T) /\ n.state = "inflight"
               /\ n.gen = r.gen /\ n.eval = r.eval
<1> DEFINE n == [r EXCEPT !.state = "inflight"]
<1>1. /\ n \in Records /\ n.gen = r.gen /\ n.eval = r.eval /\ n.stats = r.stats
      /\ n.cooldown = r.cooldown /\ n.state = "inflight"
  BY DEF Records, RecordStates
<1> HIDE DEF n
<1>2. Sound(n, s, T)
  BY <1>1 DEF Sound, Waiting, Matches
<1>3. QED
  BY <1>1, <1>2 DEF n

\* The evaluation of the ticket that the record waits for begins.
LEMMA BeginInv ==
    ASSUME IndInv, NEW a \in Actors, Begin(a) PROVE IndInv'
<1>1. pc[a] = "compact" /\ Begins(a)
  BY DEF Begin
<1>2. PICK p \in Paths : p = job[a].path
  BY <1>1, WorkPath DEF IndInv
<1> DEFINE cold == rec[p].cooldown = "running"
           r == [rec[p] EXCEPT !.state = "inflight"]
           j == [job[a] EXCEPT !.cold = cold]
<1>3. /\ lock[p] = None /\ lock' = [lock EXCEPT ![p] = a]
      /\ pc' = [pc EXCEPT ![a] = "evaluate"]
      /\ UNCHANGED <<queue, running, stop, serving, file, writer, seen, due, ops>>
  BY <1>2 DEF Begin
<1>4. rec' = [rec EXCEPT ![p] = r] /\ job' = [job EXCEPT ![a] = j]
  BY <1>2 DEF Begin, IndInv, TypeOK
<1>5. rec[p].state = "queued" /\ Matches(rec[p], job[a].ticket)
  BY <1>1, <1>2 DEF Begins
<1>6. cold \in BOOLEAN /\ job[a] \in Jobs
  BY DEF IndInv, TypeOK
<1> HIDE DEF cold
<1>7. j \in Jobs /\ j.path = p /\ j.ticket = job[a].ticket
  BY <1>2, <1>6 DEF Jobs
<1>8. /\ r \in Records /\ Sound(r, seen[p], Out(p)) /\ r.state = "inflight"
      /\ r.gen = rec[p].gen /\ r.eval = rec[p].eval
  BY <1>5, InflightSound DEF IndInv, TypeOK, RecordsSound
<1> HIDE DEF r, j
<1>9. QED
  BY <1>1, <1>2, <1>3, <1>4, <1>5, <1>7, <1>8, LockStep DEF Matches

\* A compaction without a ticket that counts begins.
LEMMA BeginOrdinaryInv ==
    ASSUME IndInv, NEW a \in Actors, BeginOrdinary(a) PROVE IndInv'
<1>1. pc[a] = "compact" /\ ~Begins(a)
  BY DEF BeginOrdinary
<1>2. PICK p \in Paths : p = job[a].path
  BY <1>1, WorkPath DEF IndInv
<1> DEFINE r == Reject(rec[p], job[a].ticket)
           j == [job[a] EXCEPT !.ticket = NoTicket]
<1>3. /\ lock[p] = None /\ lock' = [lock EXCEPT ![p] = a]
      /\ pc' = [pc EXCEPT ![a] = "evaluate"] /\ r.state # "queued"
      /\ UNCHANGED <<queue, running, stop, serving, file, writer, seen, due, ops>>
  BY <1>2 DEF BeginOrdinary
<1>4. rec' = [rec EXCEPT ![p] = r] /\ job' = [job EXCEPT ![a] = j]
  BY <1>2 DEF BeginOrdinary, IndInv, TypeOK
<1>5. /\ r \in Records /\ Sound(r, seen[p], Out(p))
      /\ r = rec[p] \/ (Waiting(rec[p]) /\ r.state = "idle")
  BY <1>1, <1>2, RejectStep
<1>6. rec[p].state # "inflight"
  BY <1>3 DEF IndInv, Control, InflightLocked
<1>7. ~Waiting(r)
  BY <1>3, <1>5, <1>6 DEF Waiting
<1>8. job[a] \in Jobs /\ NoTicket \in Tickets /\ ~Valid(NoTicket)
  BY DEF IndInv, TypeOK, Tickets, NoTicket, Valid
<1>9. j \in Jobs /\ j.path = p /\ j.ticket = NoTicket
  BY <1>2, <1>8 DEF Jobs
<1> HIDE DEF r, j
<1>10. QED
  BY <1>1, <1>2, <1>3, <1>4, <1>5, <1>7, <1>8, <1>9, LockStep

\* What an evaluation finds: its own ticket under evaluation, or none waiting.
LEMMA EvaluatedRecord ==
    ASSUME IndInv, NEW a \in Actors, pc[a] = "evaluate", NEW p \in Paths, p = job[a].path
    PROVE  /\ OwnTicket(p, job[a].ticket)
           /\ Adaptive(a) => Matches(rec[p], job[a].ticket) /\ Waiting(rec[p])
           /\ ~Adaptive(a) => ~Waiting(rec[p])
           /\ ~Waiting(Reject(rec[p], job[a].ticket))
<1>1. OwnTicket(p, job[a].ticket)
  BY DEF IndInv, Control, Evaluating
<1>2. Adaptive(a) => Matches(rec[p], job[a].ticket) /\ Waiting(rec[p])
  BY <1>1 DEF Adaptive, OwnTicket, Matches, Carries, Waiting
<1>3. ~Adaptive(a) => ~Waiting(rec[p])
  BY <1>1 DEF Adaptive, OwnTicket
<1>4. /\ Reject(rec[p], job[a].ticket) = rec[p]
         \/ Reject(rec[p], job[a].ticket).state = "idle"
      /\ Matches(rec[p], job[a].ticket) => ~Waiting(Reject(rec[p], job[a].ticket))
  BY RejectStep
<1>5. QED
  BY <1>1, <1>2, <1>3, <1>4 DEF Waiting

\* A compaction is left to the release of the last writer.
LEMMA DefersInv ==
    ASSUME IndInv, NEW a \in Actors, Defers(a) PROVE IndInv'
<1>1. pc[a] = "evaluate" /\ Finish(a, FALSE) /\ ~Adaptive(a)
      /\ UNCHANGED <<rec, queue, running, stop, serving, file, writer, seen, due, ops>>
  BY DEF Defers
<1>2. PICK p \in Paths : p = job[a].path
  BY <1>1, WorkPath DEF IndInv
<1>3. /\ rec[p] \in Records /\ Sound(rec[p], seen[p], Out(p)) /\ seen[p] \in Nat
      /\ ~Waiting(rec[p])
  BY <1>1, <1>2, RejectStep, EvaluatedRecord
<1>4. /\ rec' = [rec EXCEPT ![p] = rec[p]] /\ seen' = [seen EXCEPT ![p] = seen[p]]
      /\ due' \in [Paths -> BOOLEAN] /\ Unlock(p)
  BY <1>1, <1>2 DEF IndInv, TypeOK, Defers
<1>5. QED
  BY <1>1, <1>2, <1>3, <1>4, EndStep

\* A compaction finds nothing to gain or fails: its ticket is returned.
LEMMA SkipsInv ==
    ASSUME IndInv, NEW a \in Actors, NEW e \in BOOLEAN, Skips(a, e) PROVE IndInv'
<1>1. pc[a] = "evaluate" /\ Finish(a, e)
      /\ UNCHANGED <<queue, running, stop, serving, file, writer, seen, ops>>
  BY DEF Skips
<1>2. PICK p \in Paths : p = job[a].path
  BY <1>1, WorkPath DEF IndInv
<1> DEFINE r == Reject(rec[p], job[a].ticket)
<1>3. r \in Records /\ Sound(r, seen[p], Out(p)) /\ seen[p] \in Nat /\ ~Waiting(r)
  BY <1>1, <1>2, RejectStep, EvaluatedRecord
<1>4. /\ rec' = [rec EXCEPT ![p] = r] /\ seen' = [seen EXCEPT ![p] = seen[p]]
      /\ due' \in [Paths -> BOOLEAN] /\ Unlock(p)
  BY <1>1, <1>2 DEF IndInv, TypeOK, Skips, Looked
<1> HIDE DEF r
<1>5. QED
  BY <1>1, <1>2, <1>3, <1>4, EndStep

\* A resize uses up what its ticket carries.
LEMMA ResizesInv ==
    ASSUME IndInv, NEW a \in Actors, NEW e \in BOOLEAN, Resizes(a, e) PROVE IndInv'
<1>1. pc[a] = "evaluate" /\ Finish(a, e) /\ Adaptive(a)
      /\ UNCHANGED <<queue, running, stop, serving, file, writer, ops>>
  BY DEF Resizes
<1>2. PICK p \in Paths : p = job[a].path
  BY <1>1, WorkPath DEF IndInv
<1> DEFINE r == Published(rec[p], TRUE)
           s == rec[p].stats
<1>3. /\ rec[p] \in Records /\ Out(p) \in SUBSET Tickets /\ Sound(rec[p], seen[p], Out(p))
      /\ job[a].ticket \in Out(p)
  BY <1>1, <1>2, RejectStep, HeldOut DEF IndInv
<1>4. Matches(rec[p], job[a].ticket) /\ Waiting(rec[p])
  BY <1>1, <1>2, EvaluatedRecord
<1>5. seen[p] = rec[p].stats + job[a].ticket.snap
  BY <1>3, <1>4 DEF Sound
<1>6. rec[p].stats \in Nat /\ job[a].ticket.snap \in Nat
  BY <1>3 DEF Records, Tickets
<1>7. seen[p] - job[a].ticket.snap = s /\ s \in Nat
  BY <1>5, <1>6
<1>8. r \in Records /\ Sound(r, s, Out(p)) /\ ~Waiting(r)
  BY <1>3, PublishedSound
<1>9. /\ rec' = [rec EXCEPT ![p] = r] /\ seen' = [seen EXCEPT ![p] = s]
      /\ due' \in [Paths -> BOOLEAN] /\ Unlock(p)
  BY <1>2, <1>7 DEF IndInv, TypeOK, Resizes, Looked
<1> HIDE DEF r, s
<1>10. QED
  BY <1>1, <1>2, <1>7, <1>8, <1>9, EndStep

\* An ordinary compaction moves all the evidence on.
LEMMA CompactsInv ==
    ASSUME IndInv, NEW a \in Actors, NEW e \in BOOLEAN, Compacts(a, e) PROVE IndInv'
<1>1. pc[a] = "evaluate" /\ Finish(a, e)
      /\ UNCHANGED <<queue, running, stop, serving, file, writer, seen, ops>>
  BY DEF Compacts
<1>2. PICK p \in Paths : p = job[a].path
  BY <1>1, WorkPath DEF IndInv
<1> DEFINE n == Reject(rec[p], job[a].ticket)
           r == Published(n, FALSE)
<1>3. /\ n \in Records /\ Sound(n, seen[p], Out(p)) /\ seen[p] \in Nat /\ ~Waiting(n)
      /\ Out(p) \in SUBSET Tickets
  BY <1>1, <1>2, RejectStep, EvaluatedRecord
<1>4. /\ rec' = [rec EXCEPT ![p] = r] /\ seen' = [seen EXCEPT ![p] = seen[p]]
      /\ due' \in [Paths -> BOOLEAN] /\ Unlock(p)
  BY <1>1, <1>2 DEF IndInv, TypeOK, Compacts, Looked
<1> HIDE DEF n
<1>5. r \in Records /\ Sound(r, n.stats, Out(p)) /\ ~Waiting(r)
  BY <1>3, PublishedSound
<1>6. n.stats = seen[p]
  BY <1>3 DEF Sound
<1> HIDE DEF r
<1>7. QED
  BY <1>1, <1>2, <1>3, <1>4, <1>5, <1>6, EndStep

\* A ticket that could not be scheduled is given back, without the path lock.
LEMMA FailedInv ==
    ASSUME IndInv, NEW c \in Clients, Failed(c) PROVE IndInv'
<1>1. /\ pc[c] = "failed" /\ c \in Actors /\ c # Worker
      /\ UNCHANGED <<queue, running, stop, serving, lock, file, writer, seen, ops>>
  BY ConstantsAssumption DEF Failed, Actors
<1>2. PICK p \in Paths : p = job[c].path
  BY <1>1, WorkPath DEF IndInv
<1> DEFINE r == ScheduleFailed(rec[p], job[c].ticket)
           l == [job[c] EXCEPT !.ticket = NoTicket]
<1>3. rec' = [rec EXCEPT ![p] = r]
  BY <1>2 DEF Failed
<1>4. rec[p] \in Records /\ Sound(rec[p], seen[p], Out(p)) /\ job[c].ticket \in Out(p)
      /\ Out(p) \in SUBSET Tickets
  BY <1>1, <1>2, HeldOut DEF IndInv, TypeOK, RecordsSound, Out
<1>5. /\ r \in Records /\ Sound(r, seen[p], Out(p))
      /\ r = rec[p] \/ (rec[p].state = "queued" /\ r.state = "idle")
      /\ Matches(rec[p], job[c].ticket) => r.state # "queued"
  BY <1>4, ScheduleFailedSound
<1>6. job[c] \in Jobs /\ NoTicket \in Tickets
  BY <1>1 DEF IndInv, TypeOK, NoTicket, Tickets
<1>7. l \in Jobs /\ l.path = p /\ l.ticket = NoTicket
  BY <1>2, <1>6 DEF Jobs
<1>8. NoJob \in Jobs /\ NoJob.path = None /\ NoJob.ticket = NoTicket
  BY <1>6 DEF NoJob, Jobs
<1>9. p # None
  BY ConstantsAssumption
<1>10. CASE job[c].ordinary /\ Valid(job[c].ticket)
  <2>1. job' = [job EXCEPT ![c] = l] /\ pc' = [pc EXCEPT ![c] = "schedule"] /\ UNCHANGED due
    BY <1>10 DEF Failed, IndInv, TypeOK
  <2> HIDE DEF r, l
  <2>2. Phases'
    BY <1>1, <1>7, <1>9, <2>1, PhaseStep DEF IndInv
  <2>3. QED
    BY <1>1, <1>2, <1>3, <1>5, <1>7, <2>1, <2>2, GiveUpStep DEF IndInv, TypeOK
<1>11. CASE ~(job[c].ordinary /\ Valid(job[c].ticket))
  <2>1. /\ job' = [job EXCEPT ![c] = NoJob] /\ pc' = [pc EXCEPT ![c] = "idle"]
        /\ due' = [due EXCEPT ![p] = due[p] /\ ~job[c].ordinary]
    BY <1>2, <1>11 DEF Failed, Return
  <2>2. due' \in [Paths -> BOOLEAN]
    BY <2>1 DEF IndInv, TypeOK
  <2> HIDE DEF r, l
  <2>3. Phases'
    BY <1>1, <1>8, <2>1, PhaseStep DEF IndInv
  <2>4. QED
    BY <1>1, <1>2, <1>3, <1>5, <1>8, <2>1, <2>2, <2>3, GiveUpStep
<1>12. QED
  BY <1>10, <1>11

\* A request goes into the queue and its thread is through.
LEMMA EnqueueStep ==
    ASSUME IndInv, NEW c \in Clients, pc[c] = "schedule", running, ~stop,
           job' = [job EXCEPT ![c] = NoJob],
           pc' \in [Actors -> {"idle", "schedule", "compact", "evaluate", "failed",
                               "top", "wait", "off"}],
           pc'[c] = "idle",
           \A b \in Actors \ {c} :
               pc'[b] = pc[b] \/ (b = Worker /\ pc[b] = "wait" /\ pc'[b] = "top"),
           queue' \in Seq(Requests), Distinct',
           \A p \in Paths : \A n \in DOMAIN queue :
               rec[p].state = "queued" /\ CarriedAt(p, n) =>
                   \E m \in DOMAIN queue' : CarriedAt(p, m)',
           \A p \in Paths : rec[p].state = "queued" /\ CarriedBy(p, c) =>
               \E m \in DOMAIN queue' : CarriedAt(p, m)',
           \A m \in DOMAIN queue' : queue'[m].ticket \in Out(queue'[m].path),
           UNCHANGED <<rec, running, stop, serving, lock, file, writer, seen, due, ops>>
    PROVE  IndInv'
<1>1. NoJob \in Jobs /\ NoJob.path = None /\ NoJob.ticket = NoTicket /\ NoTicket \in Tickets
  BY DEF NoJob, Jobs, NoTicket, Tickets
<1>2. c \in Actors /\ c # Worker /\ Worker \in Actors
  BY ConstantsAssumption DEF Actors
<1>3. \A b \in Actors : job'[b] = IF b = c THEN NoJob ELSE job[b]
  BY DEF IndInv, TypeOK
<1>4. TypeOK'
  BY <1>1, <1>2 DEF IndInv, TypeOK
<1>5. Phases'
  <2>1. \A d \in Clients : pc'[d] \in {"idle", "schedule", "compact", "evaluate", "failed"}
    BY ConstantsAssumption DEF IndInv, Phases, Actors
  <2>2. pc'[Worker] \in {"top", "wait", "off", "compact", "evaluate"}
    BY <1>2 DEF IndInv, Phases
  <2>3. ASSUME NEW b \in Actors
        PROVE  IF pc'[b] \in {"schedule", "compact", "evaluate", "failed"}
               THEN job'[b].path # None ELSE job'[b] = NoJob
    <3>1. CASE b = c
      BY <1>3, <3>1
    <3>2. CASE b # c
      BY <1>3, <3>2 DEF IndInv, Phases
    <3>3. QED
      BY <3>1, <3>2
  <2>4. QED
    BY <2>1, <2>2, <2>3 DEF Phases
<1>6. Control'
  <2>1. \A b \in Actors : pc'[b] = "evaluate" <=> pc[b] = "evaluate"
    BY <1>2
  <2>2. \A b \in Actors : pc[b] = "evaluate" => job'[b] = job[b]
    BY <1>3
  <2>3. \A q \in Paths : lock[q] = None => rec'[q].state # "inflight"
    BY DEF IndInv, Control, InflightLocked
  <2>4. QED
    BY <2>1, <2>2, <2>3, ControlKept DEF IndInv
<1>7. QueuedTracked'
  <2>1. \A b \in Actors \ {c} : pc[b] \in Carrying => pc'[b] \in Carrying /\ job'[b] = job[b]
    BY <1>3 DEF Carrying
  <2>2. QED
    BY <1>2, <2>1, TrackedStep DEF IndInv
<1>8. RecordsSound'
  <2>1. ASSUME NEW p \in Paths PROVE Out(p)' \subseteq Out(p) \cup {NoTicket}
    <3> SUFFICES ASSUME NEW k \in Out(p)' PROVE k \in Out(p)
      OBVIOUS
    <3>1. CASE \E b \in Actors : job'[b].path = p /\ job'[b].ticket = k
      <4>1. PICK b \in Actors : job'[b].path = p /\ job'[b].ticket = k
        BY <3>1
      <4>2. b # c
        BY <1>1, <1>3, <4>1, ConstantsAssumption
      <4>3. QED
        BY <1>3, <4>1, <4>2, HeldOut DEF IndInv
    <3>2. CASE \E m \in DOMAIN queue' : queue'[m].path = p /\ queue'[m].ticket = k
      BY <3>2
    <3>3. QED
      BY <3>1, <3>2 DEF Out
  <2>2. QED
    BY <2>1, SoundKept DEF IndInv
<1>9. Drained'
  BY <1>2 DEF IndInv, Drained
<1>10. QED
  BY <1>4, <1>5, <1>6, <1>7, <1>8, <1>9 DEF IndInv

\* What is queued is out.
LEMMA QueuedOut ==
    ASSUME TypeOK, NEW n \in DOMAIN queue
    PROVE  queue[n] \in Requests /\ queue[n].ticket \in Out(queue[n].path)
<1>1. queue[n] \in Requests
  BY QueueType DEF TypeOK
<1>2. queue[n].ticket \in Tickets
  BY <1>1 DEF Requests
<1>3. QED
  BY <1>1, <1>2 DEF Out

\* A new request carries the ticket of its thread.
LEMMA ScheduleNewInv ==
    ASSUME IndInv, NEW c \in Clients, ScheduleNew(c) PROVE IndInv'
<1>1. /\ pc[c] = "schedule" /\ running /\ ~stop /\ At(job[c].path) = {}
      /\ job' = [job EXCEPT ![c] = NoJob]
      /\ UNCHANGED <<rec, running, stop, serving, lock, file, writer, seen, due, ops>>
  BY DEF ScheduleNew
<1>2. c \in Actors /\ c # Worker /\ Worker \in Actors
  BY ConstantsAssumption DEF Actors
<1>3. job[c].path \in Paths /\ job[c].ticket \in Tickets /\ job[c].ordinary \in BOOLEAN
  BY <1>1, <1>2, WorkPath DEF IndInv
<1> DEFINE r == [path |-> job[c].path, ordinary |-> job[c].ordinary, ticket |-> job[c].ticket]
<1>4. r \in Requests /\ r.path = job[c].path /\ r.ticket = job[c].ticket
  BY <1>3 DEF Requests
<1>5. queue' = Append(queue, r)
  BY DEF ScheduleNew, Append1
<1> HIDE DEF r
<1>6. /\ queue' \in Seq(Requests) /\ Distinct'
      /\ \A n \in DOMAIN queue : n \in DOMAIN queue' /\ queue'[n] = queue[n]
      /\ \A m \in DOMAIN queue' : queue'[m] = r \/ (m \in DOMAIN queue /\ queue'[m] = queue[m])
      /\ \E m \in DOMAIN queue' : queue'[m] = r
  BY <1>1, <1>4, <1>5, QueueAppended DEF IndInv, TypeOK
<1>7. /\ pc' \in [Actors -> {"idle", "schedule", "compact", "evaluate", "failed",
                             "top", "wait", "off"}]
      /\ pc'[c] = "idle"
      /\ \A b \in Actors \ {c} :
            pc'[b] = pc[b] \/ (b = Worker /\ pc[b] = "wait" /\ pc'[b] = "top")
  BY <1>2 DEF ScheduleNew, IndInv, TypeOK
<1>8. \A p \in Paths : \A n \in DOMAIN queue : CarriedAt(p, n) => CarriedAt(p, n)'
  BY <1>1, <1>6 DEF CarriedAt, Carries
<1>9. ASSUME NEW p \in Paths, CarriedBy(p, c)
      PROVE  \E m \in DOMAIN queue' : CarriedAt(p, m)'
  <2>1. PICK m \in DOMAIN queue' : queue'[m] = r
    BY <1>6
  <2>2. CarriedAt(p, m)'
    BY <1>1, <1>4, <1>9, <2>1 DEF CarriedAt, CarriedBy, Carries
  <2>3. QED
    BY <2>2
<1>10. \A m \in DOMAIN queue' : queue'[m].ticket \in Out(queue'[m].path)
  BY <1>2, <1>4, <1>6, HeldOut, QueuedOut DEF IndInv
<1>11. QED
  BY <1>1, <1>6, <1>7, <1>8, <1>9, <1>10, EnqueueStep

\* A merged request keeps the valid ticket of the two, which are one if both are
\* valid.
LEMMA ScheduleMergedInv ==
    ASSUME IndInv, NEW c \in Clients, ScheduleMerged(c) PROVE IndInv'
<1> DEFINE k == job[c].ticket
<1>1. PICK n \in At(job[c].path) :
         /\ pc[c] = "schedule" /\ running /\ ~stop
         /\ ~(Valid(k) /\ Valid(queue[n].ticket) /\ ~SameTicket(k, queue[n].ticket))
         /\ queue' = [queue EXCEPT ![n].ordinary = @ \/ job[c].ordinary,
                                   ![n].ticket = IF Valid(k) THEN k ELSE @]
         /\ Return(c)
         /\ UNCHANGED <<rec, running, stop, serving, lock, file, writer, seen, due, ops>>
  BY DEF ScheduleMerged
<1>2. c \in Actors /\ c # Worker /\ Worker \in Actors
  BY ConstantsAssumption DEF Actors
<1>3. job[c].path \in Paths /\ k \in Tickets /\ job[c].ordinary \in BOOLEAN
  BY <1>1, <1>2, WorkPath DEF IndInv
<1>4. n \in DOMAIN queue /\ queue[n].path = job[c].path /\ queue[n] \in Requests
      /\ queue[n].ticket \in Out(queue[n].path)
  BY QueuedOut DEF At, IndInv
<1> DEFINE o == queue[n].ordinary \/ job[c].ordinary
           t == IF Valid(k) THEN k ELSE queue[n].ticket
           r == [queue[n] EXCEPT !.ordinary = o, !.ticket = t]
<1>5. queue' = [queue EXCEPT ![n] = r]
  BY <1>1, <1>4 DEF Requests
<1>6. o \in BOOLEAN /\ t \in Tickets
  BY <1>3, <1>4 DEF Requests
<1>7. t \in Out(job[c].path)
  BY <1>2, <1>4, HeldOut DEF IndInv
<1>8. /\ Valid(k) => t = k
      /\ Valid(queue[n].ticket) => t.gen = queue[n].ticket.gen /\ t.eval = queue[n].ticket.eval
  BY <1>1 DEF SameTicket
<1> HIDE DEF o, t, k
<1>9. r \in Requests /\ r.path = queue[n].path /\ r.ticket = t
  BY <1>4, <1>6 DEF Requests
<1> HIDE DEF r
<1>10. /\ queue' \in Seq(Requests) /\ Distinct' /\ DOMAIN queue' = DOMAIN queue
       /\ queue'[n] = r /\ \A m \in DOMAIN queue : m # n => queue'[m] = queue[m]
  BY <1>4, <1>5, <1>9, QueueMerged DEF IndInv, TypeOK
<1>11. job' = [job EXCEPT ![c] = NoJob] /\ pc' = [pc EXCEPT ![c] = "idle"]
  BY <1>1 DEF Return
<1>12. /\ pc' \in [Actors -> {"idle", "schedule", "compact", "evaluate", "failed",
                              "top", "wait", "off"}]
       /\ pc'[c] = "idle" /\ \A b \in Actors \ {c} : pc'[b] = pc[b]
  BY <1>2, <1>11 DEF IndInv, TypeOK
<1>13. \A p \in Paths : rec[p].state = "queued" => rec[p].eval > 0
  BY DEF IndInv, RecordsSound, Sound, Waiting
<1>14. ASSUME NEW p \in Paths, NEW m \in DOMAIN queue, rec[p].state = "queued", CarriedAt(p, m)
       PROVE  CarriedAt(p, m)'
  <2>1. CASE m # n
    BY <1>1, <1>10, <1>14, <2>1 DEF CarriedAt, Carries
  <2>2. CASE m = n
    <3>1. Valid(queue[n].ticket)
      BY <1>13, <1>14, <2>2 DEF CarriedAt, Carries, Valid
    <3>2. QED
      BY <1>1, <1>8, <1>9, <1>10, <1>14, <2>2, <3>1 DEF CarriedAt, Carries
  <2>3. QED
    BY <2>1, <2>2
<1>15. ASSUME NEW p \in Paths, rec[p].state = "queued", CarriedBy(p, c)
       PROVE  CarriedAt(p, n)'
  <2>1. Valid(k) /\ p = job[c].path
    BY <1>13, <1>15 DEF CarriedBy, Carries, Valid, k
  <2>2. QED
    BY <1>1, <1>4, <1>8, <1>9, <1>10, <1>15, <2>1 DEF CarriedAt, CarriedBy, Carries, k
<1>16. \A m \in DOMAIN queue' : queue'[m].ticket \in Out(queue'[m].path)
  BY <1>4, <1>7, <1>9, <1>10, QueuedOut DEF IndInv
<1>17. QED
  BY <1>1, <1>4, <1>10, <1>11, <1>12, <1>14, <1>15, <1>16, EnqueueStep

\* A step that touches no request, no record and no lock.
LEMMA QuietStep ==
    ASSUME IndInv, TypeOK', Drained', UNCHANGED <<rec, queue, lock, job, seen>>,
           \A b \in Actors :
               \/ pc'[b] = pc[b]
               \/ b = Worker /\ pc[b] \in {"top", "wait", "off"} /\ pc'[b] \in {"top", "wait", "off"}
    PROVE  IndInv'
<1>1. Worker \in Actors /\ \A c \in Clients : c \in Actors /\ c # Worker
  BY ConstantsAssumption DEF Actors
<1>2. Phases'
  <2>1. \A d \in Clients : pc'[d] \in {"idle", "schedule", "compact", "evaluate", "failed"}
    BY <1>1 DEF IndInv, Phases
  <2>2. pc'[Worker] \in {"top", "wait", "off", "compact", "evaluate"}
    BY <1>1 DEF IndInv, Phases
  <2>3. \A b \in Actors : IF pc'[b] \in {"schedule", "compact", "evaluate", "failed"}
                          THEN job'[b].path # None ELSE job'[b] = NoJob
    BY DEF IndInv, Phases
  <2>4. QED
    BY <2>1, <2>2, <2>3 DEF Phases
<1>3. Control'
  <2>1. \A b \in Actors : pc'[b] = "evaluate" <=> pc[b] = "evaluate"
    OBVIOUS
  <2>2. \A q \in Paths : lock[q] = None => rec'[q].state # "inflight"
    BY DEF IndInv, Control, InflightLocked
  <2>3. QED
    BY <2>1, <2>2, ControlKept DEF IndInv
<1>4. QueuedTracked'
  <2>1. \A b \in Actors : pc[b] \in Carrying => pc'[b] \in Carrying
    BY DEF Carrying
  <2>2. \A q \in Paths : \A n \in DOMAIN queue : CarriedAt(q, n) => CarriedAt(q, n)'
    BY DEF CarriedAt, Carries
  <2>3. \A q \in Paths : CarriedBy(q, Worker) => CarriedBy(q, Worker)'
    BY <1>1, <2>1 DEF CarriedBy, Carries
  <2>4. QED
    BY <1>1, <2>1, <2>2, <2>3, TrackedStep DEF IndInv
<1>5. RecordsSound'
  BY OutSame, SoundKept DEF IndInv
<1>6. Distinct'
  BY DEF IndInv, Distinct
<1>7. QED
  BY <1>2, <1>3, <1>4, <1>5, <1>6 DEF IndInv

\* An open waits for the compaction that holds the path.
LEMMA OpenInv ==
    ASSUME IndInv, NEW c \in Clients, NEW p \in Paths, NEW w \in BOOLEAN, Open(c, p, w)
    PROVE  IndInv'
<1>1. ops' \in 0 .. MaxOps
  BY ConstantsAssumption DEF Open, Count, IndInv, TypeOK
<1>2. TypeOK'
  BY <1>1 DEF Open, IndInv, TypeOK
<1>3. Drained'
  BY DEF Open, IndInv, Drained
<1>4. QED
  BY <1>2, <1>3, QuietStep DEF Open

\* The worker waits only for a queue that is empty.
LEMMA SleepInv == ASSUME IndInv, Sleep PROVE IndInv'
<1>1. TypeOK'
  BY DEF Sleep, IndInv, TypeOK
<1>2. pc'[Worker] = "wait" /\ \A b \in Actors : b # Worker => pc'[b] = pc[b]
  BY DEF Sleep, IndInv, TypeOK, Actors
<1>3. QED
  BY <1>1, <1>2, QuietStep DEF Sleep, Drained

\* The worker ends only with an empty queue.
LEMMA ExitDrainedInv == ASSUME IndInv, ExitDrained PROVE IndInv'
<1>1. TypeOK'
  BY DEF ExitDrained, IndInv, TypeOK
<1>2. pc'[Worker] = "off" /\ \A b \in Actors : b # Worker => pc'[b] = pc[b]
  BY DEF ExitDrained, IndInv, TypeOK, Actors
<1>3. QED
  BY <1>1, <1>2, QuietStep DEF ExitDrained, Drained

\* A stop is asked for before the worker has ended.
LEMMA StopInv == ASSUME IndInv, Stop PROVE IndInv'
<1>1. TypeOK'
  BY ConstantsAssumption DEF Stop, IndInv, TypeOK
<1>2. /\ pc'[Worker] = IF pc[Worker] = "wait" THEN "top" ELSE pc[Worker]
      /\ \A b \in Actors : b # Worker => pc'[b] = pc[b]
  BY DEF Stop, IndInv, TypeOK, Actors
<1>3. Drained'
  BY <1>2 DEF Stop, IndInv, Drained
<1>4. QED
  BY <1>1, <1>2, <1>3, QuietStep DEF Stop

\* The thread that asked for the stop has waited for its end.
LEMMA JoinedInv == ASSUME IndInv, Joined PROVE IndInv'
<1>1. TypeOK'
  BY DEF Joined, IndInv, TypeOK
<1>2. Drained'
  BY DEF Joined, IndInv, Drained
<1>3. QED
  BY <1>1, <1>2, QuietStep DEF Joined

\* The records change by an operation that no actor holds a ticket for.
LEMMA RecordStep ==
    ASSUME IndInv, TypeOK', NEW p \in Paths,
           NEW r \in Records, rec' = [rec EXCEPT ![p] = r],
           NEW s \in Nat, seen' = [seen EXCEPT ![p] = s], Sound(r, s, Out(p)),
           lock[p] = None => r.state # "inflight",
           lock[p] # None =>
               r.state = rec[p].state /\ r.gen = rec[p].gen /\ r.eval = rec[p].eval,
           r.state = "queued" =>
               rec[p].state = "queued" /\ r.gen = rec[p].gen /\ r.eval = rec[p].eval,
           UNCHANGED <<queue, running, stop, lock, pc, job>>
    PROVE  IndInv'
<1>1. \A q \in Paths : rec'[q] = IF q = p THEN r ELSE rec[q]
  BY DEF IndInv, TypeOK
<1>2. Phases'
  BY DEF IndInv, Phases
<1>3. Control'
  <2>1. \A q \in Paths : lock[q] = None => rec'[q].state # "inflight"
    BY <1>1 DEF IndInv, Control, InflightLocked
  <2>2. \A q \in Paths : lock[q] # None =>
            /\ rec'[q].gen = rec[q].gen /\ rec'[q].eval = rec[q].eval
            /\ rec'[q].state = rec[q].state
    BY <1>1
  <2>3. QED
    BY <2>1, <2>2, ControlKept DEF IndInv
<1>4. QueuedTracked'
  <2>1. Worker \in Actors
    BY DEF Actors
  <2>2. \A q \in Paths : rec'[q].state = "queued" =>
            /\ rec[q].state = "queued" /\ rec'[q].gen = rec[q].gen
            /\ rec'[q].eval = rec[q].eval
    BY <1>1
  <2>3. \A q \in Paths : \A n \in DOMAIN queue :
            rec'[q].state = "queued" /\ CarriedAt(q, n) => CarriedAt(q, n)'
    BY <2>2 DEF CarriedAt, Carries
  <2>4. \A q \in Paths : rec'[q].state = "queued" /\ CarriedBy(q, Worker) => CarriedBy(q, Worker)'
    BY <2>2 DEF CarriedBy, Carries
  <2>5. QED
    BY <2>1, <2>2, <2>3, <2>4, TrackedStep DEF IndInv
<1>5. RecordsSound'
  <2>1. \A q \in Paths : Out(q)' = Out(q)
    BY OutSame
  <2>2. QED
    BY <2>1, SoundStep DEF IndInv
<1>6. Distinct' /\ Drained'
  BY DEF IndInv, Distinct, Drained
<1>7. QED
  BY <1>2, <1>3, <1>4, <1>5, <1>6 DEF IndInv

\* A replaced file starts with a new generation, for which no ticket is out.
LEMMA ReplaceInv == ASSUME IndInv, NEW p \in Paths, Replace(p) PROVE IndInv'
<1> DEFINE r == NewRecord(rec[p].gen + 1)
<1>1. /\ rec[p] \in Records /\ Sound(rec[p], seen[p], Out(p)) /\ Out(p) \in SUBSET Tickets
  BY DEF IndInv, TypeOK, RecordsSound, Out
<1>2. r \in Records /\ Sound(r, 0, Out(p)) /\ ~Waiting(r)
  BY <1>1, NewRecordSound
<1>3. rec' = [rec EXCEPT ![p] = r] /\ seen' = [seen EXCEPT ![p] = 0]
  BY DEF Replace
<1>4. ops' \in 0 .. MaxOps
  BY ConstantsAssumption DEF Replace, Count, IndInv, TypeOK
<1> HIDE DEF r
<1>5. TypeOK'
  BY <1>2, <1>3, <1>4 DEF Replace, IndInv, TypeOK
<1>6. QED
  BY <1>2, <1>3, <1>5, RecordStep DEF Replace, Waiting

\* The clock passes the end of a cooldown; such a record was never evaluated.
LEMMA TickInv == ASSUME IndInv, NEW p \in Paths, Tick(p) PROVE IndInv'
<1> DEFINE r == [rec[p] EXCEPT !.cooldown = "expired"]
<1>1. rec[p] \in Records /\ Sound(rec[p], seen[p], Out(p)) /\ seen[p] \in Nat
  BY DEF IndInv, TypeOK, RecordsSound
<1>2. rec[p].eval = 0 /\ ~Waiting(rec[p])
  BY <1>1 DEF Tick, Sound, Records
<1>3. /\ r \in Records /\ r.gen = rec[p].gen /\ r.eval = rec[p].eval
      /\ r.stats = rec[p].stats /\ r.state = rec[p].state
  BY <1>1 DEF Records
<1>4. rec' = [rec EXCEPT ![p] = r]
  BY DEF Tick
<1> HIDE DEF r
<1>5. Sound(r, seen[p], Out(p)) /\ ~Waiting(r)
  BY <1>1, <1>2, <1>3 DEF Sound, Waiting, Matches
<1>6. TypeOK'
  BY <1>3, <1>4 DEF Tick, IndInv, TypeOK
<1>7. seen' = [seen EXCEPT ![p] = seen[p]]
  BY DEF Tick, IndInv, TypeOK
<1>8. QED
  BY <1>1, <1>3, <1>4, <1>5, <1>6, <1>7, RecordStep DEF Tick, Waiting

\* A callback changes the record of its path and may leave with a request; a
\* record that begins to wait does so for the ticket of that request.
LEMMA ClaimStep ==
    ASSUME IndInv, TypeOK', NEW c \in Clients, pc[c] = "idle",
           NEW p \in Paths, lock[p] = None,
           NEW r \in Records, rec' = [rec EXCEPT ![p] = r],
           NEW s \in Nat, seen' = [seen EXCEPT ![p] = s],
           NEW x \in {"idle", "schedule"}, pc' = [pc EXCEPT ![c] = x],
           NEW j \in Jobs, job' = [job EXCEPT ![c] = j],
           IF x = "idle" THEN j = NoJob ELSE j.path = p,
           NEW T, Sound(r, s, T), Out(p) \subseteq T,
           x = "schedule" => j.ticket \in T \cup {NoTicket},
           r.state # "inflight",
           r.state = "queued" =>
               \/ rec[p].state = "queued" /\ r.gen = rec[p].gen /\ r.eval = rec[p].eval
               \/ x = "schedule" /\ r.gen = j.ticket.gen /\ r.eval = j.ticket.eval,
           UNCHANGED <<queue, running, stop, lock>>
    PROVE  IndInv'
<1>1. c \in Actors /\ c # Worker /\ Worker \in Actors /\ p # None
      /\ NoJob.path = None /\ NoJob.ticket = NoTicket
  BY ConstantsAssumption DEF Actors, NoJob
<1>2. /\ \A b \in Actors : /\ pc'[b] = IF b = c THEN x ELSE pc[b]
                           /\ job'[b] = IF b = c THEN j ELSE job[b]
      /\ \A q \in Paths : rec'[q] = IF q = p THEN r ELSE rec[q]
  BY DEF IndInv, TypeOK
<1>3. Phases'
  BY <1>1, PhaseStep DEF IndInv
<1>4. Control'
  <2>1. \A b \in Actors : pc'[b] = "evaluate" <=> pc[b] = "evaluate"
    BY <1>2
  <2>2. \A b \in Actors : pc[b] = "evaluate" => job'[b] = job[b]
    BY <1>2
  <2>3. \A q \in Paths : lock[q] = None => rec'[q].state # "inflight"
    BY <1>2 DEF IndInv, Control, InflightLocked
  <2>4. \A q \in Paths : lock[q] # None => rec'[q] = rec[q]
    BY <1>2
  <2>5. QED
    BY <2>1, <2>2, <2>3, <2>4, ControlKept DEF IndInv
<1>5. QueuedTracked'
  <2> SUFFICES ASSUME NEW q \in Paths, rec'[q].state = "queued"
               PROVE  (\E b \in Actors : CarriedBy(q, b)')
                      \/ \E m \in DOMAIN queue' : CarriedAt(q, m)'
    BY DEF QueuedTracked
  <2>1. CASE q = p /\ x = "schedule" /\ r.gen = j.ticket.gen /\ r.eval = j.ticket.eval
    <3>1. CarriedBy(q, c)'
      BY <1>1, <1>2, <2>1 DEF CarriedBy, Carries, Carrying
    <3>2. QED
      BY <1>1, <3>1
  <2>2. CASE rec[q].state = "queued" /\ rec'[q].gen = rec[q].gen /\ rec'[q].eval = rec[q].eval
    <3>1. ASSUME NEW b \in Actors, CarriedBy(q, b) PROVE CarriedBy(q, b)'
      <4>1. b # c
        BY <3>1 DEF CarriedBy, Carrying
      <4>2. QED
        BY <1>2, <2>2, <3>1, <4>1 DEF CarriedBy, Carries
    <3>2. \A n \in DOMAIN queue : CarriedAt(q, n) => CarriedAt(q, n)'
      BY <2>2 DEF CarriedAt, Carries
    <3>3. QED
      BY <2>2, <3>1, <3>2 DEF IndInv, QueuedTracked
  <2>3. QED
    BY <1>2, <2>1, <2>2
<1>6. RecordsSound'
  <2>1. \A q \in Paths : Out(q)' \subseteq Out(q) \cup (IF j.path = q THEN {j.ticket} ELSE {})
    BY <1>1, OutJob DEF IndInv
  <2>2. \A q \in Paths \ {p} : j.path # q
    BY <1>1, ConstantsAssumption
  <2>3. Out(p)' \subseteq T \cup {NoTicket}
    BY <1>1, <2>1
  <2>4. Sound(r, s, Out(p)')
    BY <2>3, FewerTickets
  <2>5. QED
    BY <2>1, <2>2, <2>4, SoundStep DEF IndInv
<1>7. Distinct' /\ Drained'
  BY <1>1, <1>2 DEF IndInv, Distinct, Drained
<1>8. QED
  BY <1>3, <1>4, <1>5, <1>6, <1>7 DEF IndInv

\* A write claims a ticket, defers the evaluation or only counts.
LEMMA WriteInv == ASSUME IndInv, NEW c \in Clients, Write(c) PROVE IndInv'
<1>1. PICK p \in Paths : p = file[c]
  BY DEF Write, IndInv, TypeOK
<1> DEFINE o == Observed(rec[p])
           s == Expired(p) + 1
<1>2. /\ pc[c] = "idle" /\ lock[p] = None /\ Count
      /\ UNCHANGED <<queue, running, stop, serving, lock, file, writer, due>>
      /\ seen' = [seen EXCEPT ![p] = s]
  BY <1>1 DEF Write
<1>3. /\ rec[p] \in Records /\ Sound(rec[p], seen[p], Out(p)) /\ seen[p] \in Nat
      /\ Out(p) \in SUBSET Tickets
  BY DEF IndInv, TypeOK, RecordsSound, Out
<1>4. /\ o \in Records /\ s \in Nat /\ Sound(o, s, Out(p))
      /\ o.gen = rec[p].gen /\ o.eval = rec[p].eval
      /\ o.state \in {rec[p].state, "idle"} /\ o.cooldown # "expired"
  BY <1>3, ObservedSound DEF Expired
<1>5. rec[p].state # "inflight"
  BY <1>2 DEF IndInv, Control, InflightLocked
<1>6. ops' \in 0 .. MaxOps
  BY <1>2, ConstantsAssumption DEF Count, IndInv, TypeOK
<1>7. CASE o.cooldown # "running" /\ CanClaim(o)
  <2> DEFINE r == Claim(o)
             k == TicketFor(o)
             j == Job(p, FALSE, k)
  <2>1. /\ rec' = [rec EXCEPT ![p] = r] /\ job' = [job EXCEPT ![c] = j]
        /\ pc' = [pc EXCEPT ![c] = "schedule"]
    BY <1>1, <1>7 DEF Write
  <2>2. o.cooldown = "none"
    BY <1>4, <1>7 DEF Records
  <2>3. /\ r \in Records /\ k \in Tickets /\ Sound(r, s, Out(p) \cup {k})
        /\ r.state = "queued" /\ r.gen = k.gen /\ r.eval = k.eval
    BY <1>3, <1>4, <1>7, <2>2, ClaimSound
  <2> HIDE DEF r, k
  <2>4. j \in Jobs /\ j.path = p /\ j.ticket = k
    BY <2>3 DEF Job, Jobs
  <2> HIDE DEF j
  <2> HIDE DEF o, s
  <2>5. TypeOK'
    BY <1>2, <1>4, <1>6, <2>1, <2>3, <2>4 DEF IndInv, TypeOK
  <2>6. QED
    BY <1>2, <1>4, <2>1, <2>3, <2>4, <2>5, ClaimStep
<1>8. CASE ~(o.cooldown # "running" /\ CanClaim(o))
  <2> DEFINE r == IF o.cooldown = "running" THEN Deferred(o) ELSE o
  <2>1. rec' = [rec EXCEPT ![p] = r] /\ UNCHANGED <<job, pc>>
    BY <1>1, <1>8 DEF Write
  <2>2. /\ r \in Records /\ Sound(r, s, Out(p)) /\ r.gen = o.gen /\ r.eval = o.eval
        /\ r.state \in {o.state, "deferred"}
    BY <1>4, DeferredSound
  <2> HIDE DEF r, o, s
  <2>3. TypeOK'
    BY <1>2, <1>4, <1>6, <2>1, <2>2 DEF IndInv, TypeOK
  <2>4. QED
    BY <1>2, <1>4, <1>5, <2>1, <2>2, <2>3, RecordStep
<1>9. QED
  BY <1>7, <1>8

\* The release of the last writer may claim a ticket; the record of a file that
\* nobody has open any more may be forgotten.
LEMMA ReleaseInv == ASSUME IndInv, NEW c \in Clients, Release(c) PROVE IndInv'
<1>1. PICK p \in Paths : p = file[c]
  BY DEF Release, IndInv, TypeOK
<1> DEFINE last == writer[c] /\ WritersOf(p) = {c}
           e == IF last THEN Expire(rec[p]) ELSE rec[p]
           s == IF last THEN Expired(p) ELSE seen[p]
           claim == last /\ e.cooldown # "running" /\ CanClaim(e)
           left == IF claim THEN Claim(e) ELSE e
           k == IF claim THEN TicketFor(e) ELSE NoTicket
           r == IF UsersOf(p) = {c} THEN Forget(left) ELSE left
           j == Job(p, TRUE, k)
           T == Out(p) \cup {k}
<1>2. /\ pc[c] = "idle" /\ lock[p] = None
      /\ UNCHANGED <<queue, running, stop, serving, lock, ops>>
      /\ rec' = [rec EXCEPT ![p] = r] /\ seen' = [seen EXCEPT ![p] = s]
      /\ job' = [job EXCEPT ![c] = j] /\ pc' = [pc EXCEPT ![c] = "schedule"]
      /\ due' = [due EXCEPT ![p] = due[p] \/ last]
      /\ file' = [file EXCEPT ![c] = None] /\ writer' = [writer EXCEPT ![c] = FALSE]
  BY <1>1 DEF Release
<1>3. /\ rec[p] \in Records /\ Sound(rec[p], seen[p], Out(p)) /\ seen[p] \in Nat
      /\ Out(p) \in SUBSET Tickets /\ rec[p].state # "inflight"
  BY <1>2 DEF IndInv, TypeOK, RecordsSound, Out, Control, InflightLocked
<1>4. /\ e \in Records /\ s \in Nat /\ Sound(e, s, Out(p))
      /\ e.gen = rec[p].gen /\ e.eval = rec[p].eval
      /\ e.state \in {rec[p].state, "idle"} /\ (last => e.cooldown # "expired")
  BY <1>3, ExpireSound DEF Expired
<1>5. NoTicket \in Tickets
  BY DEF NoTicket, Tickets
<1>6. /\ left \in Records /\ k \in Tickets /\ Sound(left, s, T) /\ left.state # "inflight"
      /\ left.state = "queued" =>
           \/ rec[p].state = "queued" /\ left.gen = rec[p].gen /\ left.eval = rec[p].eval
           \/ left.gen = k.gen /\ left.eval = k.eval
  <2>1. CASE claim
    <3>1. e.cooldown = "none" /\ CanClaim(e)
      BY <1>4, <2>1 DEF Records
    <3> HIDE DEF e, s, last
    <3>2. /\ Claim(e) \in Records /\ TicketFor(e) \in Tickets
          /\ Sound(Claim(e), s, Out(p) \cup {TicketFor(e)})
          /\ Claim(e).state = "queued"
          /\ Claim(e).gen = TicketFor(e).gen /\ Claim(e).eval = TicketFor(e).eval
      BY <1>3, <1>4, <3>1, ClaimSound
    <3>3. QED
      BY <2>1, <3>2
  <2>2. CASE ~claim
    <3>1. left = e /\ k = NoTicket
      BY <2>2
    <3> HIDE DEF e, s, left, k, claim
    <3>2. Sound(e, s, T)
      BY <1>4, <3>1, FewerTickets
    <3>3. QED
      BY <1>3, <1>4, <1>5, <3>1, <3>2
  <2>3. QED
    BY <2>1, <2>2
<1>7. Out(p) \subseteq T /\ T \in SUBSET Tickets
  BY <1>3, <1>6
<1> HIDE DEF T, left, k, e
<1>8. /\ r \in Records /\ Sound(r, s, T) /\ r.gen = left.gen /\ r.eval = left.eval
      /\ r.state = left.state
  BY <1>6, <1>7, ForgetSound
<1>9. j \in Jobs /\ j.path = p /\ j.ticket = k
  BY <1>6 DEF Job, Jobs
<1>10. k \in T
  BY DEF T
<1> HIDE DEF r, s, j
<1>11. TypeOK'
  BY <1>2, <1>4, <1>8, <1>9 DEF IndInv, TypeOK
<1>12. QED
  BY <1>2, <1>4, <1>6, <1>7, <1>8, <1>9, <1>10, <1>11, ClaimStep

\* The worker takes the ticket over from the queue.
LEMMA DequeueInv == ASSUME IndInv, Dequeue PROVE IndInv'
<1> DEFINE h == Head(queue)
           j == Job(h.path, h.ordinary, h.ticket)
<1>1. /\ pc[Worker] = "top" /\ queue # <<>> /\ queue' = Tail(queue)
      /\ job' = [job EXCEPT ![Worker] = j] /\ pc' = [pc EXCEPT ![Worker] = "compact"]
      /\ UNCHANGED <<rec, running, stop, serving, lock, file, writer, seen, due, ops>>
  BY DEF Dequeue
<1>2. /\ queue' \in Seq(Requests) /\ Distinct' /\ h \in Requests
      /\ \E n \in DOMAIN queue : h = queue[n]
      /\ \A m \in DOMAIN queue' : \E n \in DOMAIN queue : queue'[m] = queue[n]
      /\ \A n \in DOMAIN queue :
            queue[n] = h \/ \E m \in DOMAIN queue' : queue'[m] = queue[n]
  BY <1>1, QueueTaken DEF IndInv, TypeOK
<1>3. h.path \in Paths /\ h.ticket \in Tickets /\ h.ordinary \in BOOLEAN
      /\ h.ticket \in Out(h.path)
  BY <1>2, QueuedOut DEF IndInv, Requests
<1>4. j \in Jobs /\ j.path = h.path /\ j.ticket = h.ticket
  BY <1>3 DEF Job, Jobs
<1> HIDE DEF h, j
<1>5. Worker \in Actors /\ h.path # None
  BY <1>3, ConstantsAssumption DEF Actors
<1>6. \A b \in Actors : /\ pc'[b] = IF b = Worker THEN "compact" ELSE pc[b]
                        /\ job'[b] = IF b = Worker THEN j ELSE job[b]
  BY <1>1 DEF IndInv, TypeOK
<1>7. TypeOK'
  BY <1>1, <1>2, <1>4 DEF IndInv, TypeOK
<1>8. Phases'
  BY <1>1, <1>4, <1>5, PhaseStep DEF IndInv
<1>9. Control'
  <2>1. \A b \in Actors : pc'[b] = "evaluate" <=> pc[b] = "evaluate"
    BY <1>1, <1>6
  <2>2. \A b \in Actors : pc[b] = "evaluate" => job'[b] = job[b]
    BY <1>1, <1>6
  <2>3. \A q \in Paths : lock[q] = None => rec'[q].state # "inflight"
    BY <1>1 DEF IndInv, Control, InflightLocked
  <2>4. QED
    BY <1>1, <2>1, <2>2, <2>3, ControlKept DEF IndInv
<1>10. QueuedTracked'
  <2>1. \A b \in Actors \ {Worker} : pc'[b] = pc[b] /\ job'[b] = job[b]
    BY <1>6
  <2>2. ASSUME NEW q \in Paths, NEW n \in DOMAIN queue, CarriedAt(q, n)
        PROVE  (\E b \in Actors : CarriedBy(q, b)') \/ \E m \in DOMAIN queue' : CarriedAt(q, m)'
    <3>1. CASE queue[n] = h
      <4>1. CarriedBy(q, Worker)'
        BY <1>1, <1>4, <1>5, <1>6, <2>2, <3>1 DEF CarriedBy, CarriedAt, Carries, Carrying
      <4>2. QED
        BY <1>5, <4>1
    <3>2. ASSUME NEW m \in DOMAIN queue', queue'[m] = queue[n] PROVE CarriedAt(q, m)'
      BY <1>1, <2>2, <3>2 DEF CarriedAt, Carries
    <3>3. QED
      BY <1>2, <3>1, <3>2
  <2>3. \A q \in Paths : ~CarriedBy(q, Worker)
    BY <1>1 DEF CarriedBy, Carrying
  <2>4. QED
    BY <1>1, <1>5, <2>1, <2>2, <2>3, TrackedStep DEF IndInv
<1>11. RecordsSound'
  <2>1. ASSUME NEW q \in Paths PROVE Out(q)' \subseteq Out(q) \cup {NoTicket}
    <3> SUFFICES ASSUME NEW k \in Out(q)' PROVE k \in Out(q)
      OBVIOUS
    <3>1. CASE \E b \in Actors : job'[b].path = q /\ job'[b].ticket = k
      <4>1. PICK b \in Actors : job'[b].path = q /\ job'[b].ticket = k
        BY <3>1
      <4>2. CASE b = Worker
        BY <1>3, <1>4, <1>6, <4>1, <4>2
      <4>3. CASE b # Worker
        BY <1>6, <4>1, <4>3, HeldOut DEF IndInv
      <4>4. QED
        BY <4>2, <4>3
    <3>2. CASE \E m \in DOMAIN queue' : queue'[m].path = q /\ queue'[m].ticket = k
      BY <1>2, <3>2, QueuedOut DEF IndInv
    <3>3. QED
      BY <3>1, <3>2 DEF Out
  <2>2. QED
    BY <1>1, <2>1, SoundKept DEF IndInv
<1>12. Drained'
  BY <1>5, <1>6 DEF Drained
<1>13. QED
  BY <1>2, <1>7, <1>8, <1>9, <1>10, <1>11, <1>12 DEF IndInv

\* A step that changes no variable.
LEMMA StutterInv == ASSUME IndInv, UNCHANGED vars PROVE IndInv'
<1>1. TypeOK' /\ Drained'
  BY DEF vars, IndInv, TypeOK, Drained
<1>2. QED
  BY <1>1, QuietStep DEF vars

\* A step of a compaction, in the worker or in a callback thread.
LEMMA CompactStepInv ==
    ASSUME IndInv, NEW a \in Actors, CompactStep(a) PROVE IndInv'
<1>1. CASE LockFails(a) \/ ResolveFails(a) \/ Begin(a) \/ Yields(a) \/ BeginOrdinary(a) \/ Defers(a)
  BY <1>1, LockFailsInv, ResolveFailsInv, BeginInv, YieldsInv, BeginOrdinaryInv, DefersInv
<1>2. ASSUME NEW e \in BOOLEAN, Skips(a, e) \/ Resizes(a, e) \/ Compacts(a, e) PROVE IndInv'
  BY <1>2, SkipsInv, ResizesInv, CompactsInv
<1>3. QED
  BY <1>1, <1>2 DEF CompactStep

\* A step of a callback thread.
LEMMA ClientStepInv ==
    ASSUME IndInv, NEW c \in Clients, Callback(c) \/ ClientStep(c) PROVE IndInv'
<1>1. CASE Callback(c)
  BY <1>1, OpenInv, WriteInv, ReleaseInv DEF Callback
<1>2. CASE ScheduleStep(c)
  BY <1>2, ScheduleFallbackInv, ScheduleMergedInv, ScheduleBusyInv, ScheduleNewInv,
     ScheduleNoMemoryInv, FailedInv DEF ScheduleStep
<1>3. CASE CompactStep(c)
  BY <1>3, CompactStepInv DEF Actors
<1>4. QED
  BY <1>1, <1>2, <1>3 DEF ClientStep

\* A step of the system.
LEMMA StepInv == IndInv /\ [Next]_vars => IndInv'
<1> SUFFICES ASSUME IndInv, [Next]_vars PROVE IndInv'
  OBVIOUS
<1>1. ASSUME NEW c \in Clients, Callback(c) \/ ClientStep(c) PROVE IndInv'
  BY <1>1, ClientStepInv
<1>2. ASSUME NEW p \in Paths, Replace(p) \/ Tick(p) PROVE IndInv'
  BY <1>2, ReplaceInv, TickInv
<1>3. CASE WorkerStep
  BY <1>3, DequeueInv, SleepInv, ExitDrainedInv, CompactStepInv DEF WorkerStep, Actors
<1>4. CASE Stop \/ Joined
  BY <1>4, StopInv, JoinedInv
<1>5. CASE UNCHANGED vars
  BY <1>5, StutterInv
<1>6. QED
  BY <1>1, <1>2, <1>3, <1>4, <1>5 DEF Next

-----------------------------------------------------------------------------
(* The theorems.                                                           *)

(***************************************************************************)
(* The invariant that ties records, tickets, the queue and the path locks  *)
(* together holds in every behaviour of the queue and the registry.        *)
(***************************************************************************)
THEOREM IndInvHolds == Spec => []IndInv
  BY InitInv, StepInv, PTL DEF Spec

(***************************************************************************)
(* Every variable keeps its type: an evidence counter never goes below     *)
(* zero, what a resize and a cooldown take was there before.               *)
(***************************************************************************)
THEOREM TypeCorrect == Spec => []TypeOK
<1>1. IndInv => TypeOK
  BY DEF IndInv
<1>2. QED
  BY <1>1, IndInvHolds, PTL

(***************************************************************************)
(* No generation waits for a ticket that nobody has: whichever thread      *)
(* fails, yields or merges its request, a queued evaluation is with a      *)
(* thread or in the queue and an evaluation under way is with the thread   *)
(* that holds the path.                                                    *)
(***************************************************************************)
THEOREM TicketsTracked == Spec => []TicketTracked
<1>1. ASSUME IndInv PROVE TicketTracked
  <2> SUFFICES ASSUME NEW p \in Paths
               PROVE  /\ rec[p].state = "queued" =>
                            \/ \E a \in Actors : /\ pc[a] \in {"schedule", "failed", "compact"}
                                                 /\ job[a].path = p /\ Carries(p, job[a].ticket)
                            \/ \E n \in DOMAIN queue : queue[n].path = p
                                                       /\ Carries(p, queue[n].ticket)
                      /\ rec[p].state = "inflight" =>
                            /\ lock[p] # None
                            /\ pc[lock[p]] = "evaluate" /\ job[lock[p]].path = p
                            /\ Carries(p, job[lock[p]].ticket)
    BY DEF TicketTracked
  <2>1. ASSUME rec[p].state = "queued"
        PROVE  \/ \E a \in Actors : /\ pc[a] \in {"schedule", "failed", "compact"}
                                    /\ job[a].path = p /\ Carries(p, job[a].ticket)
               \/ \E n \in DOMAIN queue : queue[n].path = p /\ Carries(p, queue[n].ticket)
    BY <1>1, <2>1 DEF IndInv, QueuedTracked, CarriedBy, CarriedAt, Carrying
  <2>2. ASSUME rec[p].state = "inflight"
        PROVE  /\ lock[p] # None /\ lock[p] \in Actors
               /\ pc[lock[p]] = "evaluate" /\ job[lock[p]].path = p
               /\ Carries(p, job[lock[p]].ticket)
    <3>1. lock[p] # None /\ lock[p] \in Actors
      BY <1>1, <2>2 DEF IndInv, TypeOK, Control, InflightLocked
    <3>2. pc[lock[p]] = "evaluate" /\ job[lock[p]].path = p
      BY <1>1, <3>1 DEF IndInv, Control, Locked
    <3>3. OwnTicket(p, job[lock[p]].ticket)
      BY <1>1, <3>1, <3>2 DEF IndInv, Control, Evaluating
    <3>4. QED
      BY <2>2, <3>1, <3>2, <3>3 DEF OwnTicket, Waiting
  <2>3. QED
    BY <2>1, <2>2
<1>2. QED
  BY <1>1, IndInvHolds, PTL

(***************************************************************************)
(* What was written is in the record or in the one ticket that is out, for *)
(* any sample size: no evaluation counts a write twice and none is lost by *)
(* a failed, merged or rejected request.                                   *)
(***************************************************************************)
THEOREM EvidenceKept == Spec => []EvidenceConserved
<1>1. ASSUME IndInv, TicketTracked PROVE EvidenceConserved
  <2> SUFFICES ASSUME NEW p \in Paths
               PROVE  IF rec[p].state \in {"queued", "inflight"}
                      THEN \E k \in TicketsOut(p) : seen[p] = rec[p].stats + k.snap
                      ELSE seen[p] = rec[p].stats
    BY DEF EvidenceConserved
  <2>1. Sound(rec[p], seen[p], Out(p))
    BY <1>1 DEF IndInv, RecordsSound
  <2>2. CASE ~Waiting(rec[p])
    BY <2>1, <2>2 DEF Sound, Waiting
  <2>3. CASE Waiting(rec[p])
    <3>1. rec[p].eval > 0
      BY <2>1, <2>3 DEF Sound
    <3>2. ASSUME NEW k \in Out(p), Carries(p, k),
                 (\E a \in Actors : job[a].ticket = k)
                 \/ \E n \in DOMAIN queue : queue[n].ticket = k
          PROVE  k \in TicketsOut(p) /\ seen[p] = rec[p].stats + k.snap
      <4>1. Valid(k) /\ Matches(rec[p], k)
        BY <3>1, <3>2 DEF Carries, Valid, Matches
      <4>2. QED
        BY <2>1, <2>3, <3>2, <4>1 DEF Sound, TicketsOut
    <3>3. \/ \E a \in Actors : job[a].path = p /\ Carries(p, job[a].ticket)
          \/ \E n \in DOMAIN queue : queue[n].path = p /\ Carries(p, queue[n].ticket)
      <4>1. CASE rec[p].state = "queued"
        BY <1>1, <4>1 DEF TicketTracked
      <4>2. CASE rec[p].state = "inflight"
        <5>1. lock[p] \in Actors
          BY <1>1, <4>2 DEF TicketTracked, IndInv, TypeOK
        <5>2. QED
          BY <1>1, <4>2, <5>1 DEF TicketTracked
      <4>3. QED
        BY <2>3, <4>1, <4>2 DEF Waiting
    <3>4. ASSUME NEW a \in Actors, job[a].path = p, Carries(p, job[a].ticket)
          PROVE  \E k \in TicketsOut(p) : seen[p] = rec[p].stats + k.snap
      BY <1>1, <3>2, <3>4, HeldOut DEF IndInv
    <3>5. ASSUME NEW n \in DOMAIN queue, queue[n].path = p, Carries(p, queue[n].ticket)
          PROVE  \E k \in TicketsOut(p) : seen[p] = rec[p].stats + k.snap
      BY <1>1, <3>2, <3>5, QueuedOut DEF IndInv
    <3>6. QED
      BY <2>3, <3>3, <3>4, <3>5 DEF Waiting
  <2>4. QED
    BY <2>2, <2>3
<1>2. QED
  BY <1>1, IndInvHolds, TicketsTracked, PTL

(***************************************************************************)
(* The queue holds at most one request for a path.                         *)
(***************************************************************************)
THEOREM QueuedOnce == Spec => []OneRequestPerPath
<1>1. ASSUME IndInv PROVE OneRequestPerPath
  <2> SUFFICES ASSUME NEW p \in Paths PROVE Cardinality(At(p)) <= 1
    BY DEF OneRequestPerPath
  <2>1. \A m, n \in At(p) : m = n
    BY <1>1 DEF IndInv, Distinct, At
  <2>2. CASE At(p) = {}
    BY <2>2, FS_EmptySet
  <2>3. CASE At(p) # {}
    <3>1. PICK n : n \in At(p)
      BY <2>3
    <3>2. At(p) = {n}
      BY <2>1, <3>1
    <3>3. Cardinality({n}) = 1
      BY FS_Singleton
    <3>4. QED
      BY <3>2, <3>3
  <2>4. QED
    BY <2>2, <2>3
<1>2. QED
  BY <1>1, IndInvHolds, PTL

(***************************************************************************)
(* A worker that has ended leaves an empty queue and lets nobody add to    *)
(* it, whenever it is stopped and whatever callbacks are still running.    *)
(***************************************************************************)
THEOREM QueueDrained == Spec => []QueueServed
<1>1. IndInv => QueueServed
  BY DEF IndInv, Drained, QueueServed
<1>2. QED
  BY <1>1, IndInvHolds, PTL

-----------------------------------------------------------------------------
(* The last writer's release.                                              *)

\* Actor a works on an ordinary request for path p; the queue holds one.
Ordinary(p, a) ==
    pc[a] \in {"schedule", "failed", "compact", "evaluate"} /\ job[a].path = p /\ job[a].ordinary

OrdinaryAt(p, n) == queue[n].path = p /\ queue[n].ordinary

\* A callback thread is still to queue an ordinary request for path p.
ToQueue(p) == \E c \in Clients : Ordinary(p, c) /\ pc[c] \in {"schedule", "failed"}

\* The worker is stopped when no callback runs, and none begins afterwards;
\* callback threads compact only if there is no worker.
Quiet ==
    /\ stop => ~serving
    /\ ~serving => \A c \in Clients : pc[c] = "idle"
    /\ ~running => pc[Worker] = "off"
    /\ \A c \in Clients : pc[c] \in {"compact", "evaluate"} => ~running

\* The request of a write is that of an open writer.
WritesOpen ==
    \A c \in Clients : pc[c] # "idle" /\ ~job[c].ordinary => file[c] = job[c].path /\ writer[c]

\* What is due has no writers, and a queued request that is not ordinary is
\* about to be merged with one that is.
DueSound ==
    \A p \in Paths : due[p] =>
        /\ \A c \in Clients : ~(file[c] = p /\ writer[c])
        /\ \A n \in DOMAIN queue : queue[n].path = p => queue[n].ordinary \/ ToQueue(p)
        /\ (\E a \in Actors : Ordinary(p, a)) \/ (\E n \in DOMAIN queue : OrdinaryAt(p, n))

RelInv == IndInv /\ Quiet /\ WritesOpen /\ DueSound

\* A request for p is with somebody else than actor a, or in the queue.
Elsewhere(p, a) ==
    \/ \E b \in Actors \ {a} : Ordinary(p, b)
    \/ \E n \in DOMAIN queue : OrdinaryAt(p, n)

\* A step of an actor that works: its ordinary request stays with it, or is
\* elsewhere, or nothing is due any more.
LEMMA RequestStep ==
    ASSUME RelInv, NEW a \in Actors, NEW x, NEW j,
           pc' = [pc EXCEPT ![a] = x], job' = [job EXCEPT ![a] = j],
           pc[a] \in {"schedule", "compact", "evaluate", "failed"},
           UNCHANGED <<queue, running, stop, serving, file, writer>>,
           x \in {"idle", "top"} \/ (j.path = job[a].path /\ j.ordinary = job[a].ordinary),
           x \in {"idle", "top", "schedule", "failed", "compact", "evaluate"},
           x = "top" => a = Worker,
           a # Worker /\ x \in {"compact", "evaluate"} => ~running,
           \A p \in Paths : due'[p] => due[p],
           \A p \in Paths : due'[p] /\ Ordinary(p, a) =>
               x \notin {"idle", "top"} \/ Elsewhere(p, a),
           \A p \in Paths : due'[p] /\ Ordinary(p, a) /\ pc[a] \in {"schedule", "failed"} =>
               x \in {"schedule", "failed"} \/ queue = <<>>
    PROVE  Quiet' /\ WritesOpen' /\ DueSound'
<1>1. \A b \in Actors : /\ pc'[b] = IF b = a THEN x ELSE pc[b]
                        /\ job'[b] = IF b = a THEN j ELSE job[b]
  BY DEF RelInv, IndInv, TypeOK
<1>2. Worker \in Actors /\ \A c \in Clients : c \in Actors /\ c # Worker
  BY ConstantsAssumption DEF Actors
<1>3. Quiet'
  BY <1>1, <1>2 DEF RelInv, Quiet
<1>4. WritesOpen'
  BY <1>1, <1>2 DEF RelInv, WritesOpen, IndInv, Phases
<1>5. \A p : \A b \in Actors \ {a} : Ordinary(p, b)' <=> Ordinary(p, b)
  BY <1>1 DEF Ordinary
<1>6. \A p : Ordinary(p, a) /\ x \notin {"idle", "top"} => Ordinary(p, a)'
  BY <1>1 DEF Ordinary
<1>7. \A p, n : OrdinaryAt(p, n)' <=> OrdinaryAt(p, n)
  BY DEF OrdinaryAt
<1>8. ASSUME NEW p \in Paths, due'[p]
      PROVE  /\ \A c \in Clients : ~(file'[c] = p /\ writer'[c])
             /\ \A n \in DOMAIN queue' : queue'[n].path = p => queue'[n].ordinary \/ ToQueue(p)'
             /\ (\E b \in Actors : Ordinary(p, b)') \/ (\E n \in DOMAIN queue' : OrdinaryAt(p, n)')
  <2>1. /\ \A c \in Clients : ~(file[c] = p /\ writer[c])
        /\ \A n \in DOMAIN queue : queue[n].path = p => queue[n].ordinary \/ ToQueue(p)
        /\ (\E b \in Actors : Ordinary(p, b)) \/ (\E n \in DOMAIN queue : OrdinaryAt(p, n))
    BY <1>8 DEF RelInv, DueSound
  <2>2. ASSUME NEW n \in DOMAIN queue, ToQueue(p) PROVE ToQueue(p)'
    <3>1. PICK c \in Clients : Ordinary(p, c) /\ pc[c] \in {"schedule", "failed"}
      BY <2>2 DEF ToQueue
    <3>2. CASE c = a
      <4>1. x \in {"schedule", "failed"} \/ queue = <<>>
        BY <1>8, <3>1, <3>2
      <4>2. DOMAIN queue # {}
        BY <2>2
      <4>3. x \in {"schedule", "failed"}
        BY <4>1, <4>2
      <4>4. Ordinary(p, c)' /\ pc'[c] \in {"schedule", "failed"}
        BY <1>1, <1>2, <1>6, <3>1, <3>2, <4>3
      <4>5. QED
        BY <4>4 DEF ToQueue
    <3>3. CASE c # a
      <4>1. Ordinary(p, c)' /\ pc'[c] \in {"schedule", "failed"}
        BY <1>1, <1>2, <1>5, <3>1, <3>3
      <4>2. QED
        BY <4>1 DEF ToQueue
    <3>4. QED
      BY <3>2, <3>3
  <2>3. (\E b \in Actors : Ordinary(p, b)') \/ (\E n \in DOMAIN queue' : OrdinaryAt(p, n)')
    <3>1. CASE \E n \in DOMAIN queue : OrdinaryAt(p, n)
      BY <1>7, <3>1
    <3>2. CASE \E b \in Actors \ {a} : Ordinary(p, b)
      BY <1>5, <3>2
    <3>3. CASE Ordinary(p, a)
      BY <1>5, <1>6, <1>7, <1>8, <3>3 DEF Elsewhere
    <3>4. QED
      BY <2>1, <3>1, <3>2, <3>3
  <2>4. QED
    BY <2>1, <2>2, <2>3
<1>9. DueSound'
  BY <1>8 DEF DueSound
<1>10. QED
  BY <1>3, <1>4, <1>9

\* How a compaction of actor a returns.
LEMMA FinishRequest ==
    ASSUME RelInv, NEW a \in Actors, pc[a] \in {"compact", "evaluate"},
           NEW e \in BOOLEAN, Finish(a, e),
           UNCHANGED <<queue, running, stop, serving, file, writer>>,
           \A p \in Paths : due'[p] => due[p],
           \A p \in Paths : due'[p] /\ Ordinary(p, a) => (a # Worker /\ e) \/ Elsewhere(p, a)
    PROVE  Quiet' /\ WritesOpen' /\ DueSound'
<1>1. job[a] \in Jobs
  BY DEF RelInv, IndInv, TypeOK
<1>2. CASE a = Worker \/ ~e
  <2>1. PICK x \in {"idle", "top"} :
           /\ x = "top" => a = Worker
           /\ pc' = [pc EXCEPT ![a] = x] /\ job' = [job EXCEPT ![a] = NoJob]
    BY <1>2 DEF Finish, Return
  <2>2. QED
    BY <1>2, <2>1, RequestStep
<1>3. CASE a # Worker /\ e
  <2>1. PICK j : j = [job[a] EXCEPT !.cold = FALSE]
    OBVIOUS
  <2>2. j.path = job[a].path /\ j.ordinary = job[a].ordinary
    BY <1>1, <2>1 DEF Jobs
  <2>3. pc' = [pc EXCEPT ![a] = "failed"] /\ job' = [job EXCEPT ![a] = j]
    BY <1>3, <2>1 DEF Finish
  <2>4. QED
    BY <1>3, <2>2, <2>3, RequestStep
<1>4. QED
  BY <1>2, <1>3

\* What is no longer due after the request of actor a.
LEMMA LookedDue ==
    ASSUME RelInv, NEW a \in Actors, pc[a] \in {"schedule", "compact", "evaluate", "failed"},
           due' = [due EXCEPT ![job[a].path] = @ /\ ~job[a].ordinary]
    PROVE  \A p \in Paths : (due'[p] => due[p]) /\ (due'[p] => ~Ordinary(p, a))
<1>1. job[a].path \in Paths /\ due \in [Paths -> BOOLEAN] /\ job[a].ordinary \in BOOLEAN
  BY WorkPath DEF RelInv, IndInv, TypeOK
<1>2. QED
  BY <1>1 DEF Ordinary

\* A thread that has no worker to hand its request to: nothing is queued.
LEMMA NoWorker ==
    ASSUME RelInv, NEW c \in Clients, pc[c] # "idle", ~running \/ stop
    PROVE  ~running /\ pc[Worker] = "off" /\ queue = <<>>
  BY DEF RelInv, Quiet, IndInv, Drained

\* The thread keeps its request to compact itself.
LEMMA ScheduleFallbackRel ==
    ASSUME RelInv, NEW c \in Clients, ScheduleFallback(c) PROVE Quiet' /\ WritesOpen' /\ DueSound'
<1>1. c \in Actors /\ c # Worker /\ pc[c] = "schedule"
  BY ConstantsAssumption DEF Actors, ScheduleFallback
<1>2. ~running /\ queue = <<>>
  BY <1>1, NoWorker DEF ScheduleFallback
<1>3. PICK x, j : /\ x = "compact" /\ j = job[c]
                  /\ pc' = [pc EXCEPT ![c] = x] /\ job' = [job EXCEPT ![c] = j]
  BY <1>1 DEF ScheduleFallback, RelInv, IndInv, TypeOK
<1>4. UNCHANGED <<queue, running, stop, serving, file, writer, due>>
  BY DEF ScheduleFallback
<1>5. j.path = job[c].path /\ j.ordinary = job[c].ordinary
  BY <1>3
<1>6. \A p \in Paths : due'[p] /\ Ordinary(p, c) => x \notin {"idle", "top"} \/ Elsewhere(p, c)
  BY <1>3
<1>7. \A p \in Paths : due'[p] /\ Ordinary(p, c) /\ pc[c] \in {"schedule", "failed"} =>
          x \in {"schedule", "failed"} \/ queue = <<>>
  BY <1>2
<1>8. QED
  BY <1>1, <1>2, <1>3, <1>4, <1>5, <1>6, <1>7, RequestStep

\* The request that cannot be allocated stays with its thread.
LEMMA ScheduleNoMemoryRel ==
    ASSUME RelInv, NEW c \in Clients, ScheduleNoMemory(c) PROVE Quiet' /\ WritesOpen' /\ DueSound'
<1>1. c \in Actors /\ c # Worker /\ pc[c] = "schedule"
  BY ConstantsAssumption DEF Actors, ScheduleNoMemory
<1>2. PICK x, j : /\ x = "failed" /\ j = job[c]
                  /\ pc' = [pc EXCEPT ![c] = x] /\ job' = [job EXCEPT ![c] = j]
  BY <1>1, ZenonT(30) DEF ScheduleNoMemory, RelInv, IndInv, TypeOK
<1>3. UNCHANGED <<queue, running, stop, serving, file, writer, due>>
  BY DEF ScheduleNoMemory
<1>4. QED
  BY <1>1, <1>2, <1>3, RequestStep

\* A release tries again without its ticket; another thread is through, and an
\* ordinary request that is dropped is not due any more.
LEMMA FailedRel ==
    ASSUME RelInv, NEW c \in Clients, Failed(c) PROVE Quiet' /\ WritesOpen' /\ DueSound'
<1>1. c \in Actors /\ c # Worker /\ pc[c] = "failed"
  BY ConstantsAssumption DEF Actors, Failed
<1>2. UNCHANGED <<queue, running, stop, serving, file, writer>>
  BY DEF Failed
<1>3. CASE job[c].ordinary /\ Valid(job[c].ticket)
  <2>1. PICK x, j : /\ x = "schedule" /\ j = [job[c] EXCEPT !.ticket = NoTicket]
                    /\ pc' = [pc EXCEPT ![c] = x] /\ job' = [job EXCEPT ![c] = j]
    BY <1>3 DEF Failed
  <2>2. job[c] \in Jobs
    BY <1>1 DEF RelInv, IndInv, TypeOK
  <2>3. j.path = job[c].path /\ j.ordinary = job[c].ordinary
    BY <2>1, <2>2 DEF Jobs
  <2>4. due' = due
    BY <1>3 DEF Failed
  <2>5. QED
    BY <1>1, <1>2, <2>1, <2>3, <2>4, RequestStep
<1>4. CASE ~(job[c].ordinary /\ Valid(job[c].ticket))
  <2>1. /\ pc' = [pc EXCEPT ![c] = "idle"] /\ job' = [job EXCEPT ![c] = NoJob]
        /\ due' = [due EXCEPT ![job[c].path] = @ /\ ~job[c].ordinary]
    BY <1>4 DEF Failed, Return
  <2>2. PICK x : x = "idle" /\ pc' = [pc EXCEPT ![c] = x]
    BY <2>1
  <2>3. \A p \in Paths : (due'[p] => due[p]) /\ (due'[p] => ~Ordinary(p, c))
    BY <1>1, <2>1, LookedDue
  <2>4. QED
    BY <1>1, <1>2, <2>1, <2>2, <2>3, RequestStep
<1>5. QED
  BY <1>3, <1>4

\* What the queue holds when thread c has added its request or merged it: the
\* ordinary requests remain, and an ordinary one of c makes what is queued for its
\* path ordinary.
Enqueued(c) ==
    /\ \A p \in Paths : \A n \in DOMAIN queue : OrdinaryAt(p, n) =>
          \E m \in DOMAIN queue' : queue'[m].path = p /\ queue'[m].ordinary
    /\ \A p \in Paths : Ordinary(p, c) =>
          /\ \E m \in DOMAIN queue' : queue'[m].path = p /\ queue'[m].ordinary
          /\ \A m \in DOMAIN queue' : queue'[m].path = p => queue'[m].ordinary
    /\ \A m \in DOMAIN queue' : ~queue'[m].ordinary =>
          \/ \E n \in DOMAIN queue : queue[n].path = queue'[m].path /\ ~queue[n].ordinary
          \/ job[c].path = queue'[m].path /\ ~job[c].ordinary

\* A request reaches the queue and leaves its thread, or is refused.
LEMMA QueuedRequest ==
    ASSUME RelInv, NEW c \in Clients, pc[c] = "schedule", running, ~stop,
           NEW x \in {"idle", "failed"}, NEW j, job' = [job EXCEPT ![c] = j], pc'[c] = x,
           x = "failed" => j.path = job[c].path /\ j.ordinary = job[c].ordinary,
           \A b \in Actors \ {c} :
               pc'[b] = pc[b] \/ (b = Worker /\ pc[b] = "wait" /\ pc'[b] = "top"),
           UNCHANGED <<running, stop, serving, file, writer, due>>,
           Enqueued(c)
    PROVE  Quiet' /\ WritesOpen' /\ DueSound'
<1>1. Worker \in Actors /\ \A d \in Clients : d \in Actors /\ d # Worker
  BY ConstantsAssumption DEF Actors
<1>2. \A b \in Actors : job'[b] = IF b = c THEN j ELSE job[b]
  BY DEF RelInv, IndInv, TypeOK
<1>3. \A d \in Clients : pc'[d] = IF d = c THEN x ELSE pc[d]
  BY <1>1
<1>4. Quiet'
  BY <1>3 DEF RelInv, Quiet
<1>5. WritesOpen'
  BY <1>1, <1>2, <1>3 DEF RelInv, WritesOpen
<1>6. \A p : \A b \in Actors \ {c} : Ordinary(p, b) => Ordinary(p, b)'
  BY <1>2 DEF Ordinary
<1>7. ASSUME NEW p \in Paths, due'[p]
      PROVE  /\ \A d \in Clients : ~(file'[d] = p /\ writer'[d])
             /\ \A m \in DOMAIN queue' : queue'[m].path = p => queue'[m].ordinary \/ ToQueue(p)'
             /\ (\E b \in Actors : Ordinary(p, b)') \/ (\E m \in DOMAIN queue' : OrdinaryAt(p, m)')
  <2>1. /\ \A d \in Clients : ~(file[d] = p /\ writer[d])
        /\ \A n \in DOMAIN queue : queue[n].path = p => queue[n].ordinary \/ ToQueue(p)
        /\ (\E b \in Actors : Ordinary(p, b)) \/ (\E n \in DOMAIN queue : OrdinaryAt(p, n))
    BY <1>7 DEF RelInv, DueSound
  <2>2. ASSUME NEW m \in DOMAIN queue', queue'[m].path = p, ~queue'[m].ordinary
        PROVE  ToQueue(p)'
    <3>1. ~Ordinary(p, c)
      BY <2>2 DEF Enqueued
    <3>2. job[c].path # p \/ job[c].ordinary
      BY <2>1 DEF RelInv, WritesOpen
    <3>3. PICK n \in DOMAIN queue : queue[n].path = p /\ ~queue[n].ordinary
      BY <2>2, <3>2 DEF Enqueued
    <3>4. PICK d \in Clients : Ordinary(p, d) /\ pc[d] \in {"schedule", "failed"}
      BY <2>1, <3>3 DEF ToQueue
    <3>5. d # c
      BY <3>1, <3>4
    <3>6. Ordinary(p, d)' /\ pc'[d] \in {"schedule", "failed"}
      BY <1>1, <1>3, <1>6, <3>4, <3>5
    <3>7. QED
      BY <3>6 DEF ToQueue
  <2>3. (\E b \in Actors : Ordinary(p, b)') \/ (\E m \in DOMAIN queue' : OrdinaryAt(p, m)')
    <3>1. CASE \E m \in DOMAIN queue' : queue'[m].path = p /\ queue'[m].ordinary
      BY <3>1 DEF OrdinaryAt
    <3>2. CASE \E b \in Actors \ {c} : Ordinary(p, b)
      BY <1>6, <3>2
    <3>3. CASE Ordinary(p, c)
      BY <3>1, <3>3 DEF Enqueued
    <3>4. CASE \E n \in DOMAIN queue : OrdinaryAt(p, n)
      BY <3>1, <3>4 DEF Enqueued
    <3>5. QED
      BY <2>1, <3>2, <3>3, <3>4
  <2>4. QED
    BY <1>7, <2>1, <2>2, <2>3
<1>8. DueSound'
  BY <1>7 DEF DueSound
<1>9. QED
  BY <1>4, <1>5, <1>8

\* A request is merged into the one at n, which becomes ordinary if either was.
LEMMA MergedRequest ==
    ASSUME RelInv, NEW c \in Clients, pc[c] = "schedule", running, ~stop,
           NEW x \in {"idle", "failed"}, NEW j,
           job' = [job EXCEPT ![c] = j], pc' = [pc EXCEPT ![c] = x],
           x = "failed" => j.path = job[c].path /\ j.ordinary = job[c].ordinary,
           UNCHANGED <<running, stop, serving, file, writer, due>>,
           NEW n \in At(job[c].path), NEW r \in Requests,
           r.path = queue[n].path, r.ordinary <=> queue[n].ordinary \/ job[c].ordinary,
           queue' = [queue EXCEPT ![n] = r]
    PROVE  Quiet' /\ WritesOpen' /\ DueSound'
<1>1. n \in DOMAIN queue /\ queue[n].path = job[c].path
  BY DEF At
<1>2. /\ queue' \in Seq(Requests) /\ Distinct' /\ DOMAIN queue' = DOMAIN queue
      /\ queue'[n] = r /\ \A m \in DOMAIN queue : m # n => queue'[m] = queue[m]
  BY <1>1, QueueMerged DEF RelInv, IndInv, TypeOK
<1>3. c \in Actors /\ job[c].ordinary \in BOOLEAN
  BY WorkPath DEF RelInv, IndInv, Actors
<1>4. pc'[c] = x /\ \A b \in Actors \ {c} : pc'[b] = pc[b]
  BY <1>3 DEF RelInv, IndInv, TypeOK
<1>5. \A p \in Paths : \A i \in DOMAIN queue : OrdinaryAt(p, i) =>
          \E m \in DOMAIN queue' : queue'[m].path = p /\ queue'[m].ordinary
  BY <1>1, <1>2 DEF OrdinaryAt
<1>6. ASSUME NEW p \in Paths, Ordinary(p, c)
      PROVE  /\ \E m \in DOMAIN queue' : queue'[m].path = p /\ queue'[m].ordinary
             /\ \A m \in DOMAIN queue' : queue'[m].path = p => queue'[m].ordinary
  <2>1. queue'[n].ordinary /\ queue'[n].path = p
    BY <1>1, <1>2, <1>6 DEF Ordinary
  <2>2. \A m \in DOMAIN queue' : queue'[m].path = p => m = n
    BY <1>1, <1>2, <2>1 DEF Distinct
  <2>3. QED
    BY <1>1, <1>2, <2>1, <2>2
<1>7. \A m \in DOMAIN queue' : ~queue'[m].ordinary =>
          \/ \E i \in DOMAIN queue : queue[i].path = queue'[m].path /\ ~queue[i].ordinary
          \/ job[c].path = queue'[m].path /\ ~job[c].ordinary
  BY <1>1, <1>2
<1>8. \A b \in Actors \ {c} :
          pc'[b] = pc[b] \/ (b = Worker /\ pc[b] = "wait" /\ pc'[b] = "top")
  BY <1>4
<1>9. Enqueued(c)
  BY <1>5, <1>6, <1>7 DEF Enqueued
<1>10. QED
  BY <1>4, <1>8, <1>9, QueuedRequest

\* A refused request leaves its ordinary part in the queue.
LEMMA ScheduleBusyRel ==
    ASSUME RelInv, NEW c \in Clients, ScheduleBusy(c) PROVE Quiet' /\ WritesOpen' /\ DueSound'
<1>1. c \in Actors /\ pc[c] = "schedule" /\ running /\ ~stop
  BY DEF Actors, ScheduleBusy
<1>2. PICK n \in At(job[c].path) :
         queue' = [queue EXCEPT ![n].ordinary = queue[n].ordinary \/ job[c].ordinary]
  BY DEF ScheduleBusy
<1>3. n \in DOMAIN queue /\ queue[n] \in Requests
  BY QueueType DEF RelInv, IndInv, TypeOK, At
<1>4. PICK o \in BOOLEAN : o = (queue[n].ordinary \/ job[c].ordinary)
  OBVIOUS
<1>5. PICK r : r = [queue[n] EXCEPT !.ordinary = o]
  OBVIOUS
<1>6. queue' = [queue EXCEPT ![n] = r]
  BY <1>2, <1>3, <1>4, <1>5
<1>7. r \in Requests /\ r.path = queue[n].path /\ r.ordinary = o
  BY <1>3, <1>4, <1>5 DEF Requests
<1>8. PICK x, j : /\ x = "failed" /\ j = job[c]
                  /\ pc' = [pc EXCEPT ![c] = x] /\ job' = [job EXCEPT ![c] = j]
  <2>1. pc' = [pc EXCEPT ![c] = "failed"] /\ job' = job
    BY DEF ScheduleBusy
  <2>2. job' = [job EXCEPT ![c] = job[c]]
    BY <1>1, <2>1 DEF RelInv, IndInv, TypeOK
  <2>3. QED
    BY <2>1, <2>2
<1>9. UNCHANGED <<running, stop, serving, file, writer, due>>
  BY DEF ScheduleBusy
<1>10. r.ordinary <=> queue[n].ordinary \/ job[c].ordinary
  BY <1>4, <1>7
<1>11. j.path = job[c].path /\ j.ordinary = job[c].ordinary /\ x \in {"idle", "failed"}
  BY <1>8
<1>12. QED
  BY <1>1, <1>6, <1>7, <1>8, <1>9, <1>10, <1>11, MergedRequest

\* A merged request is ordinary if one of the two was.
LEMMA ScheduleMergedRel ==
    ASSUME RelInv, NEW c \in Clients, ScheduleMerged(c) PROVE Quiet' /\ WritesOpen' /\ DueSound'
<1> DEFINE k == job[c].ticket
<1>1. PICK n \in At(job[c].path) :
         /\ pc[c] = "schedule" /\ running /\ ~stop
         /\ queue' = [queue EXCEPT ![n].ordinary = @ \/ job[c].ordinary,
                                   ![n].ticket = IF Valid(k) THEN k ELSE @]
         /\ Return(c)
         /\ UNCHANGED <<rec, running, stop, serving, lock, file, writer, seen, due, ops>>
  BY DEF ScheduleMerged
<1>2. c \in Actors /\ job[c].ticket \in Tickets
  BY <1>1, WorkPath DEF RelInv, IndInv, Actors
<1>3. n \in DOMAIN queue /\ queue[n] \in Requests
  BY QueueType DEF RelInv, IndInv, TypeOK, At
<1>4. PICK o \in BOOLEAN : o = (queue[n].ordinary \/ job[c].ordinary)
  OBVIOUS
<1>5. PICK t : t = IF Valid(k) THEN k ELSE queue[n].ticket
  OBVIOUS
<1>6. PICK r : r = [queue[n] EXCEPT !.ordinary = o, !.ticket = t]
  OBVIOUS
<1>7. queue' = [queue EXCEPT ![n] = r]
  BY <1>1, <1>3, <1>4, <1>5, <1>6 DEF Requests
<1>8. t \in Tickets
  BY <1>2, <1>3, <1>5 DEF Requests
<1>9. r \in Requests /\ r.path = queue[n].path /\ r.ordinary = o
  BY <1>3, <1>6, <1>8 DEF Requests
<1>10. PICK x, j : /\ x = "idle"
                   /\ pc' = [pc EXCEPT ![c] = x] /\ job' = [job EXCEPT ![c] = j]
  BY <1>1 DEF Return
<1>11. r.ordinary <=> queue[n].ordinary \/ job[c].ordinary
  BY <1>4, <1>9
<1>12. x \in {"idle", "failed"} /\ x # "failed"
  BY <1>10
<1>13. pc[c] = "schedule" /\ running /\ ~stop
       /\ UNCHANGED <<running, stop, serving, file, writer, due>>
  BY <1>1
<1>14. QED
  BY <1>7, <1>9, <1>10, <1>11, <1>12, <1>13, MergedRequest

\* A new request is as ordinary as the one of its thread.
LEMMA ScheduleNewRel ==
    ASSUME RelInv, NEW c \in Clients, ScheduleNew(c) PROVE Quiet' /\ WritesOpen' /\ DueSound'
<1>1. /\ pc[c] = "schedule" /\ running /\ ~stop /\ At(job[c].path) = {}
      /\ job' = [job EXCEPT ![c] = NoJob]
      /\ UNCHANGED <<rec, running, stop, serving, lock, file, writer, seen, due, ops>>
  BY DEF ScheduleNew
<1>2. c \in Actors /\ c # Worker /\ Worker \in Actors
  BY ConstantsAssumption DEF Actors
<1>3. job[c].path \in Paths /\ job[c].ticket \in Tickets /\ job[c].ordinary \in BOOLEAN
  BY <1>1, <1>2, WorkPath DEF RelInv, IndInv
<1> DEFINE r == [path |-> job[c].path, ordinary |-> job[c].ordinary, ticket |-> job[c].ticket]
<1>4. r \in Requests /\ r.path = job[c].path /\ r.ordinary = job[c].ordinary
  BY <1>3 DEF Requests
<1>5. queue' = Append(queue, r)
  BY DEF ScheduleNew, Append1
<1> HIDE DEF r
<1>6. /\ \A n \in DOMAIN queue : n \in DOMAIN queue' /\ queue'[n] = queue[n]
      /\ \A m \in DOMAIN queue' : queue'[m] = r \/ (m \in DOMAIN queue /\ queue'[m] = queue[m])
      /\ \E m \in DOMAIN queue' : queue'[m] = r
  BY <1>1, <1>4, <1>5, QueueAppended DEF RelInv, IndInv, TypeOK
<1>7. PICK x : x = "idle" /\ pc'[c] = x
  BY <1>2 DEF ScheduleNew, RelInv, IndInv, TypeOK
<1>8. \A b \in Actors \ {c} :
          pc'[b] = pc[b] \/ (b = Worker /\ pc[b] = "wait" /\ pc'[b] = "top")
  BY <1>2 DEF ScheduleNew, RelInv, IndInv, TypeOK
<1>9. \A p \in Paths : \A n \in DOMAIN queue : OrdinaryAt(p, n) =>
          \E m \in DOMAIN queue' : queue'[m].path = p /\ queue'[m].ordinary
  BY <1>6 DEF OrdinaryAt
<1>10. \A n \in DOMAIN queue : queue[n].path # job[c].path
  BY <1>1 DEF At
<1>11. ASSUME NEW p \in Paths, Ordinary(p, c)
       PROVE  /\ \E m \in DOMAIN queue' : queue'[m].path = p /\ queue'[m].ordinary
              /\ \A m \in DOMAIN queue' : queue'[m].path = p => queue'[m].ordinary
  BY <1>4, <1>6, <1>10, <1>11 DEF Ordinary
<1>12. \A m \in DOMAIN queue' : ~queue'[m].ordinary =>
          \/ \E n \in DOMAIN queue : queue[n].path = queue'[m].path /\ ~queue[n].ordinary
          \/ job[c].path = queue'[m].path /\ ~job[c].ordinary
  BY <1>4, <1>6
<1>13. Enqueued(c)
  BY <1>9, <1>11, <1>12 DEF Enqueued
<1>14. QED
  BY <1>1, <1>7, <1>8, <1>13, QueuedRequest

\* A compaction that could not take the path lock.
LEMMA LockFailsRel ==
    ASSUME RelInv, NEW a \in Actors, LockFails(a) PROVE Quiet' /\ WritesOpen' /\ DueSound'
<1>1. pc[a] = "compact" /\ Finish(a, TRUE)
      /\ UNCHANGED <<queue, running, stop, serving, file, writer>>
  BY DEF LockFails
<1>2. PICK e \in BOOLEAN : e /\ Finish(a, e)
  BY <1>1
<1>3. CASE a = Worker
  <2>1. due' = [due EXCEPT ![job[a].path] = @ /\ ~job[a].ordinary]
    BY <1>3 DEF LockFails
  <2>2. \A p \in Paths : (due'[p] => due[p]) /\ (due'[p] => ~Ordinary(p, a))
    BY <1>1, <2>1, LookedDue
  <2>3. QED
    BY <1>1, <1>2, <2>2, FinishRequest
<1>4. CASE a # Worker
  <2>1. due' = due
    BY <1>4 DEF LockFails
  <2>2. QED
    BY <1>1, <1>2, <1>4, <2>1, FinishRequest
<1>5. QED
  BY <1>3, <1>4

\* A compaction that has looked at the file, or tried to.
LEMMA LookedRel ==
    ASSUME RelInv, NEW a \in Actors, pc[a] \in {"compact", "evaluate"},
           NEW e \in BOOLEAN, Finish(a, e),
           due' = [due EXCEPT ![job[a].path] = @ /\ ~job[a].ordinary],
           UNCHANGED <<queue, running, stop, serving, file, writer>>
    PROVE  Quiet' /\ WritesOpen' /\ DueSound'
<1>1. \A p \in Paths : (due'[p] => due[p]) /\ (due'[p] => ~Ordinary(p, a))
  BY LookedDue
<1>2. QED
  BY <1>1, FinishRequest

\* A compaction begins, with its ticket or without.
LEMMA BeginRel ==
    ASSUME RelInv, NEW a \in Actors, Begin(a) \/ BeginOrdinary(a)
    PROVE  Quiet' /\ WritesOpen' /\ DueSound'
<1>1. /\ pc[a] = "compact" /\ pc' = [pc EXCEPT ![a] = "evaluate"]
      /\ UNCHANGED <<queue, running, stop, serving, file, writer, due>>
  BY DEF Begin, BeginOrdinary
<1>2. job[a] \in Jobs
  BY DEF RelInv, IndInv, TypeOK
<1>3. PICK j : /\ job' = [job EXCEPT ![a] = j]
               /\ j.path = job[a].path /\ j.ordinary = job[a].ordinary
  <2>1. CASE Begin(a)
    <3>1. PICK d : job' = [job EXCEPT ![a].cold = d]
      BY <2>1 DEF Begin
    <3>2. PICK j : j = [job[a] EXCEPT !.cold = d]
      OBVIOUS
    <3>3. job' = [job EXCEPT ![a] = j] /\ j.path = job[a].path /\ j.ordinary = job[a].ordinary
      BY <1>2, <3>1, <3>2 DEF Jobs
    <3>4. QED
      BY <3>3
  <2>2. CASE BeginOrdinary(a)
    <3>1. PICK j : j = [job[a] EXCEPT !.ticket = NoTicket]
      OBVIOUS
    <3>2. job' = [job EXCEPT ![a] = j] /\ j.path = job[a].path /\ j.ordinary = job[a].ordinary
      BY <1>2, <2>2, <3>1 DEF BeginOrdinary, Jobs
    <3>3. QED
      BY <3>2
  <2>3. QED
    BY <2>1, <2>2
<1>4. PICK x : x = "evaluate" /\ pc' = [pc EXCEPT ![a] = x]
  BY <1>1
<1>5. a # Worker => ~running
  BY <1>1 DEF RelInv, Quiet, Actors
<1>6. UNCHANGED <<queue, running, stop, serving, file, writer, due>> /\ pc[a] = "compact"
      /\ pc[a] \notin {"schedule", "failed"} /\ x \notin {"idle", "top"}
  BY <1>1, <1>4
<1>7. QED
  BY <1>3, <1>4, <1>5, <1>6, RequestStep

\* A generation that waits for its ticket: somebody else carries the ticket, and
\* what is due is with that request or with one that will be merged into it.
LEMMA YieldsRel ==
    ASSUME RelInv, NEW a \in Actors, Yields(a) PROVE Quiet' /\ WritesOpen' /\ DueSound'
<1>1. /\ pc[a] = "compact" /\ Finish(a, FALSE) /\ ~Begins(a)
      /\ Reject(rec[job[a].path], job[a].ticket).state = "queued"
      /\ UNCHANGED <<queue, running, stop, serving, file, writer, due>>
  BY DEF Yields
<1>2. PICK p \in Paths : p = job[a].path
  BY <1>1, WorkPath DEF RelInv, IndInv
<1>3. PICK r : r = Reject(rec[p], job[a].ticket)
  OBVIOUS
<1>4. r = rec[p] \/ (Waiting(rec[p]) /\ r.state = "idle")
  BY <1>1, <1>2, <1>3, RejectStep DEF RelInv
<1>5. rec[p].state = "queued"
  BY <1>1, <1>2, <1>3, <1>4
<1>6. ~Matches(rec[p], job[a].ticket)
  BY <1>1, <1>2, <1>5 DEF Begins
<1>7. \A k : Carries(p, k) => Matches(rec[p], k)
  <2>1. rec[p].eval > 0
    BY <1>5 DEF RelInv, IndInv, RecordsSound, Sound, Waiting
  <2>2. QED
    BY <2>1 DEF Carries, Matches, Valid
<1>8. (\E b \in Actors : CarriedBy(p, b)) \/ (\E n \in DOMAIN queue : CarriedAt(p, n))
  BY <1>5 DEF RelInv, IndInv, QueuedTracked
<1>9. ASSUME due[p] PROVE Elsewhere(p, a)
  <2>1. /\ \A c \in Clients : ~(file[c] = p /\ writer[c])
        /\ \A n \in DOMAIN queue : queue[n].path = p => queue[n].ordinary \/ ToQueue(p)
    BY <1>9 DEF RelInv, DueSound
  <2>2. ASSUME NEW b \in Actors, CarriedBy(p, b) PROVE Elsewhere(p, a)
    <3>1. b # a
      BY <1>6, <1>7, <2>2 DEF CarriedBy
    <3>2. b # Worker
      <4>1. CASE b = Worker
        <5>1. a \in Clients
          BY <3>1, <4>1 DEF Actors
        <5>2. pc[Worker] = "off"
          BY <1>1, <5>1 DEF RelInv, Quiet
        <5>3. QED
          BY <2>2, <4>1, <5>2 DEF CarriedBy, Carrying
      <4>2. QED
        BY <4>1
    <3>3. b \in Clients /\ pc[b] # "idle" /\ job[b].path = p
      BY <2>2, <3>2 DEF Actors, CarriedBy, Carrying
    <3>4. job[b].ordinary
      BY <2>1, <3>3 DEF RelInv, WritesOpen
    <3>5. Ordinary(p, b)
      BY <2>2, <3>4 DEF Ordinary, CarriedBy, Carrying
    <3>6. QED
      BY <3>1, <3>5 DEF Elsewhere
  <2>3. ASSUME NEW n \in DOMAIN queue, CarriedAt(p, n) PROVE Elsewhere(p, a)
    <3>1. queue[n].path = p
      BY <2>3 DEF CarriedAt
    <3>2. CASE queue[n].ordinary
      BY <3>1, <3>2 DEF Elsewhere, OrdinaryAt
    <3>3. CASE ToQueue(p)
      <4>1. PICK c \in Clients : Ordinary(p, c) /\ pc[c] \in {"schedule", "failed"}
        BY <3>3 DEF ToQueue
      <4>2. c \in Actors \ {a}
        BY <1>1, <4>1 DEF Actors
      <4>3. QED
        BY <4>1, <4>2 DEF Elsewhere
    <3>4. QED
      BY <2>1, <3>1, <3>2, <3>3
  <2>4. QED
    BY <1>8, <2>2, <2>3
<1>10. \A q \in Paths : due'[q] /\ Ordinary(q, a) => Elsewhere(q, a)
  BY <1>1, <1>2, <1>9 DEF Ordinary
<1>11. PICK e \in BOOLEAN : ~e /\ Finish(a, e)
  BY <1>1
<1>12. QED
  BY <1>1, <1>10, <1>11, FinishRequest

\* A file with writers is not due.
LEMMA DefersRel ==
    ASSUME RelInv, NEW a \in Actors, Defers(a) PROVE Quiet' /\ WritesOpen' /\ DueSound'
<1>1. /\ pc[a] = "evaluate" /\ Finish(a, FALSE) /\ WritersOf(job[a].path) # {}
      /\ UNCHANGED <<queue, running, stop, serving, file, writer, due>>
  BY DEF Defers
<1>2. \A q \in Paths : due'[q] => ~Ordinary(q, a)
  BY <1>1 DEF RelInv, DueSound, Ordinary, WritersOf
<1>3. PICK e \in BOOLEAN : ~e /\ Finish(a, e)
  BY <1>1
<1>4. QED
  BY <1>1, <1>2, <1>3, FinishRequest

\* Every step of a compaction.
LEMMA CompactStepRel ==
    ASSUME RelInv, NEW a \in Actors, CompactStep(a) PROVE Quiet' /\ WritesOpen' /\ DueSound'
<1>1. CASE ResolveFails(a)
  <2>1. /\ pc[a] = "compact" /\ Finish(a, TRUE)
        /\ due' = [due EXCEPT ![job[a].path] = @ /\ ~job[a].ordinary]
        /\ UNCHANGED <<queue, running, stop, serving, file, writer>>
    BY <1>1 DEF ResolveFails
  <2>2. PICK e \in BOOLEAN : Finish(a, e)
    BY <2>1
  <2>3. QED
    BY <2>1, <2>2, LookedRel
<1>2. ASSUME NEW e \in BOOLEAN, Skips(a, e) \/ Resizes(a, e) \/ Compacts(a, e)
      PROVE  Quiet' /\ WritesOpen' /\ DueSound'
  <2>1. /\ pc[a] = "evaluate" /\ Finish(a, e)
        /\ due' = [due EXCEPT ![job[a].path] = @ /\ ~job[a].ordinary]
        /\ UNCHANGED <<queue, running, stop, serving, file, writer>>
    BY <1>2 DEF Skips, Resizes, Compacts, Looked
  <2>2. QED
    BY <2>1, LookedRel
<1>3. QED
  BY <1>1, <1>2, LockFailsRel, BeginRel, YieldsRel, DefersRel DEF CompactStep

\* Every step of a thread that schedules its request.
LEMMA ScheduleStepRel ==
    ASSUME RelInv, NEW c \in Clients, ScheduleStep(c) PROVE Quiet' /\ WritesOpen' /\ DueSound'
  BY ScheduleFallbackRel, ScheduleMergedRel, ScheduleBusyRel, ScheduleNewRel,
     ScheduleNoMemoryRel, FailedRel DEF ScheduleStep

\* A step in which no actor takes a request or leaves one.
LEMMA IdleStep ==
    ASSUME RelInv, Quiet', WritesOpen', UNCHANGED <<queue, job>>,
           \A b \in Actors : pc'[b] = pc[b] \/ (b = Worker /\ pc[b] \in {"top", "wait", "off"}),
           \A p \in Paths : due'[p] =>
               due[p] /\ \A c \in Clients : file'[c] = p /\ writer'[c] => file[c] = p /\ writer[c]
    PROVE  DueSound'
<1>1. Worker \in Actors /\ \A c \in Clients : c \in Actors /\ c # Worker
  BY ConstantsAssumption DEF Actors
<1>2. \A p : \A b \in Actors : Ordinary(p, b) => Ordinary(p, b)'
  BY DEF Ordinary
<1>3. \A p : \A n : OrdinaryAt(p, n)' <=> OrdinaryAt(p, n)
  BY DEF OrdinaryAt
<1>4. ASSUME NEW p, ToQueue(p) PROVE ToQueue(p)'
  <2>1. PICK c \in Clients : Ordinary(p, c) /\ pc[c] \in {"schedule", "failed"}
    BY <1>4 DEF ToQueue
  <2>2. Ordinary(p, c)' /\ pc'[c] \in {"schedule", "failed"}
    BY <1>1, <1>2, <2>1
  <2>3. QED
    BY <2>2 DEF ToQueue
<1>5. ASSUME NEW p \in Paths, due'[p]
      PROVE  /\ \A c \in Clients : ~(file'[c] = p /\ writer'[c])
             /\ \A n \in DOMAIN queue' : queue'[n].path = p => queue'[n].ordinary \/ ToQueue(p)'
             /\ (\E b \in Actors : Ordinary(p, b)') \/ (\E n \in DOMAIN queue' : OrdinaryAt(p, n)')
  <2>1. /\ \A c \in Clients : ~(file[c] = p /\ writer[c])
        /\ \A n \in DOMAIN queue : queue[n].path = p => queue[n].ordinary \/ ToQueue(p)
        /\ (\E b \in Actors : Ordinary(p, b)) \/ (\E n \in DOMAIN queue : OrdinaryAt(p, n))
    BY <1>5 DEF RelInv, DueSound
  <2>2. \A c \in Clients : ~(file'[c] = p /\ writer'[c])
    BY <1>5, <2>1
  <2>3. \A n \in DOMAIN queue' : queue'[n].path = p => queue'[n].ordinary \/ ToQueue(p)'
    BY <1>4, <2>1
  <2>4. (\E b \in Actors : Ordinary(p, b)') \/ (\E n \in DOMAIN queue' : OrdinaryAt(p, n)')
    BY <1>2, <1>3, <2>1
  <2>5. QED
    BY <2>2, <2>3, <2>4
<1>6. QED
  BY <1>5 DEF DueSound

\* A thread comes back from a critical section with a request to schedule.
LEMMA TakeStep ==
    ASSUME RelInv, NEW c \in Clients, pc[c] = "idle", serving, NEW j,
           job' = [job EXCEPT ![c] = j], pc' = [pc EXCEPT ![c] = "schedule"],
           UNCHANGED <<queue, running, stop, serving>>,
           j.ordinary \/ (file'[c] = j.path /\ writer'[c]),
           \A d \in Clients \ {c} : file'[d] = file[d] /\ writer'[d] = writer[d],
           \A p \in Paths : due'[p] => due[p] \/ (j.ordinary /\ j.path = p),
           \A p \in Paths : due'[p] => \A d \in Clients : ~(file'[d] = p /\ writer'[d])
    PROVE  Quiet' /\ WritesOpen' /\ DueSound'
<1>1. Worker \in Actors /\ \A d \in Clients : d \in Actors /\ d # Worker
  BY ConstantsAssumption DEF Actors
<1>2. \A b \in Actors : /\ pc'[b] = IF b = c THEN "schedule" ELSE pc[b]
                        /\ job'[b] = IF b = c THEN j ELSE job[b]
  BY DEF RelInv, IndInv, TypeOK
<1>3. Quiet'
  BY <1>1, <1>2 DEF RelInv, Quiet
<1>4. WritesOpen'
  BY <1>1, <1>2 DEF RelInv, WritesOpen
<1>5. \A p : \A b \in Actors : Ordinary(p, b) => Ordinary(p, b)'
  BY <1>2 DEF Ordinary
<1>6. \A p, n : OrdinaryAt(p, n)' <=> OrdinaryAt(p, n)
  BY DEF OrdinaryAt
<1>7. ASSUME NEW p \in Paths, due'[p]
      PROVE  /\ \A n \in DOMAIN queue' : queue'[n].path = p => queue'[n].ordinary \/ ToQueue(p)'
             /\ (\E b \in Actors : Ordinary(p, b)') \/ (\E n \in DOMAIN queue' : OrdinaryAt(p, n)')
  <2>1. CASE j.ordinary /\ j.path = p
    <3>1. Ordinary(p, c)' /\ pc'[c] \in {"schedule", "failed"} /\ c \in Actors
      BY <1>1, <1>2, <2>1 DEF Ordinary
    <3>2. ToQueue(p)'
      BY <3>1 DEF ToQueue
    <3>3. QED
      BY <3>1, <3>2
  <2>2. CASE due[p]
    <3>1. /\ \A n \in DOMAIN queue : queue[n].path = p => queue[n].ordinary \/ ToQueue(p)
          /\ (\E b \in Actors : Ordinary(p, b)) \/ (\E n \in DOMAIN queue : OrdinaryAt(p, n))
      BY <2>2 DEF RelInv, DueSound
    <3>2. ASSUME ToQueue(p) PROVE ToQueue(p)'
      <4>1. PICK d \in Clients : Ordinary(p, d) /\ pc[d] \in {"schedule", "failed"}
        BY <3>2 DEF ToQueue
      <4>2. Ordinary(p, d)' /\ pc'[d] \in {"schedule", "failed"}
        BY <1>1, <1>2, <1>5, <4>1
      <4>3. QED
        BY <4>2 DEF ToQueue
    <3>3. \A n \in DOMAIN queue' : queue'[n].path = p => queue'[n].ordinary \/ ToQueue(p)'
      BY <3>1, <3>2
    <3>4. (\E b \in Actors : Ordinary(p, b)') \/ (\E n \in DOMAIN queue' : OrdinaryAt(p, n)')
      BY <1>5, <1>6, <3>1
    <3>5. QED
      BY <3>3, <3>4
  <2>3. QED
    BY <1>7, <2>1, <2>2
<1>8. DueSound'
  BY <1>7 DEF DueSound
<1>9. QED
  BY <1>3, <1>4, <1>8

\* A step of a callback that leaves every thread where it is.
LEMMA ReturnedStep ==
    ASSUME RelInv, UNCHANGED <<queue, running, stop, serving, pc, job>>,
           \A d \in Clients : pc[d] # "idle" => file'[d] = file[d] /\ writer'[d] = writer[d],
           \A p \in Paths : due'[p] =>
               due[p] /\ \A c \in Clients : file'[c] = p /\ writer'[c] => file[c] = p /\ writer[c]
    PROVE  Quiet' /\ WritesOpen' /\ DueSound'
<1>1. Quiet'
  BY DEF RelInv, Quiet
<1>2. WritesOpen'
  BY DEF RelInv, WritesOpen
<1>3. QED
  BY <1>1, <1>2, IdleStep

\* An open for writing makes a compaction wait for its release.
LEMMA OpenRel ==
    ASSUME RelInv, NEW c \in Clients, NEW p \in Paths, NEW w \in BOOLEAN, Open(c, p, w)
    PROVE  Quiet' /\ WritesOpen' /\ DueSound'
<1>1. /\ pc[c] = "idle"
      /\ file' = [file EXCEPT ![c] = p] /\ writer' = [writer EXCEPT ![c] = w]
      /\ due' = [due EXCEPT ![p] = @ /\ ~w]
      /\ UNCHANGED <<queue, running, stop, serving, pc, job>>
  BY DEF Open
<1>2. \A d \in Clients : /\ file'[d] = IF d = c THEN p ELSE file[d]
                         /\ writer'[d] = IF d = c THEN w ELSE writer[d]
  BY <1>1 DEF RelInv, IndInv, TypeOK
<1>3. \A q \in Paths : due'[q] => due[q] /\ (q = p => ~w)
  BY <1>1 DEF RelInv, IndInv, TypeOK
<1>4. \A d \in Clients : pc[d] # "idle" => file'[d] = file[d] /\ writer'[d] = writer[d]
  BY <1>1, <1>2
<1>5. \A q \in Paths : due'[q] =>
          due[q] /\ \A d \in Clients : file'[d] = q /\ writer'[d] => file[d] = q /\ writer[d]
  BY <1>2, <1>3
<1>6. QED
  BY <1>1, <1>4, <1>5, ReturnedStep

\* The request of a write is not ordinary, but its file has a writer.
LEMMA WriteRel ==
    ASSUME RelInv, NEW c \in Clients, Write(c) PROVE Quiet' /\ WritesOpen' /\ DueSound'
<1>1. /\ pc[c] = "idle" /\ serving /\ writer[c] /\ file[c] # None
      /\ UNCHANGED <<queue, running, stop, serving, file, writer, due>>
  BY DEF Write, Count
<1>2. CASE UNCHANGED <<job, pc>>
  BY <1>1, <1>2, ReturnedStep
<1>3. ASSUME NEW k, job' = [job EXCEPT ![c] = Job(file[c], FALSE, k)],
             pc' = [pc EXCEPT ![c] = "schedule"]
      PROVE  Quiet' /\ WritesOpen' /\ DueSound'
  <2>1. PICK j : j = Job(file[c], FALSE, k)
    OBVIOUS
  <2>2. job' = [job EXCEPT ![c] = j] /\ j.path = file[c] /\ ~j.ordinary
    BY <1>3, <2>1 DEF Job
  <2>3. \A p \in Paths : due'[p] => \A d \in Clients : ~(file'[d] = p /\ writer'[d])
    BY <1>1 DEF RelInv, DueSound
  <2>4. QED
    BY <1>1, <1>3, <2>2, <2>3, TakeStep
<1>4. QED
  BY <1>2, <1>3 DEF Write

\* The last writer's release has an ordinary request.
LEMMA ReleaseRel ==
    ASSUME RelInv, NEW c \in Clients, Release(c) PROVE Quiet' /\ WritesOpen' /\ DueSound'
<1>1. PICK p \in Paths : p = file[c]
  BY DEF Release, RelInv, IndInv, TypeOK
<1>2. PICK last \in BOOLEAN : last = (writer[c] /\ WritersOf(p) = {c})
  OBVIOUS
<1>3. /\ pc[c] = "idle" /\ serving
      /\ UNCHANGED <<queue, running, stop, serving>>
      /\ due' = [due EXCEPT ![p] = due[p] \/ last]
      /\ pc' = [pc EXCEPT ![c] = "schedule"]
      /\ file' = [file EXCEPT ![c] = None] /\ writer' = [writer EXCEPT ![c] = FALSE]
  BY <1>1, <1>2 DEF Release
<1>4. PICK k : job' = [job EXCEPT ![c] = Job(p, TRUE, k)]
  BY <1>1 DEF Release
<1>5. PICK j : j = Job(p, TRUE, k)
  OBVIOUS
<1>6. job' = [job EXCEPT ![c] = j] /\ j.path = p /\ j.ordinary
  BY <1>4, <1>5 DEF Job
<1>7. \A d \in Clients : /\ file'[d] = IF d = c THEN None ELSE file[d]
                         /\ writer'[d] = IF d = c THEN FALSE ELSE writer[d]
  BY <1>3 DEF RelInv, IndInv, TypeOK
<1>8. \A q \in Paths : due'[q] => due[q] \/ (q = p /\ last)
  BY <1>3 DEF RelInv, IndInv, TypeOK
<1>9. \A q \in Paths : due'[q] => \A d \in Clients : ~(file'[d] = q /\ writer'[d])
  <2> SUFFICES ASSUME NEW q \in Paths, due'[q], NEW d \in Clients, file'[d] = q, writer'[d]
               PROVE  FALSE
    OBVIOUS
  <2>1. d # c /\ file[d] = q /\ writer[d]
    BY <1>7
  <2>2. CASE due[q]
    BY <2>1, <2>2 DEF RelInv, DueSound
  <2>3. CASE q = p /\ last
    BY <1>2, <2>1, <2>3 DEF WritersOf
  <2>4. QED
    BY <1>8, <2>2, <2>3
<1>10. \A d \in Clients \ {c} : file'[d] = file[d] /\ writer'[d] = writer[d]
  BY <1>7
<1>11. \A q \in Paths : due'[q] => due[q] \/ (j.ordinary /\ j.path = q)
  BY <1>6, <1>8
<1>12. QED
  BY <1>3, <1>6, <1>9, <1>10, <1>11, TakeStep

\* A file that is created again is not due, and the clock changes a record only.
LEMMA PathStepRel ==
    ASSUME RelInv, NEW p \in Paths, Replace(p) \/ Tick(p)
    PROVE  Quiet' /\ WritesOpen' /\ DueSound'
<1>1. UNCHANGED <<queue, running, stop, serving, pc, job, file, writer>>
  BY DEF Replace, Tick
<1>2. \A q \in Paths : due'[q] => due[q]
  BY DEF Replace, Tick, RelInv, IndInv, TypeOK
<1>3. QED
  BY <1>1, <1>2, ReturnedStep

\* The request at the head of the queue is the worker's.
LEMMA DequeueRel ==
    ASSUME RelInv, Dequeue PROVE Quiet' /\ WritesOpen' /\ DueSound'
<1>1. /\ pc[Worker] = "top" /\ queue # <<>> /\ queue' = Tail(queue)
      /\ pc' = [pc EXCEPT ![Worker] = "compact"]
      /\ UNCHANGED <<running, stop, serving, file, writer, due>>
  BY DEF Dequeue
<1>2. PICK h : h = Head(queue)
  OBVIOUS
<1>3. /\ h \in Requests
      /\ \A m \in DOMAIN queue' : \E n \in DOMAIN queue : queue'[m] = queue[n]
      /\ \A n \in DOMAIN queue :
            queue[n] = h \/ \E m \in DOMAIN queue' : queue'[m] = queue[n]
  BY <1>1, <1>2, QueueTaken DEF RelInv, IndInv, TypeOK
<1>4. PICK j : j = Job(h.path, h.ordinary, h.ticket)
  OBVIOUS
<1>5. job' = [job EXCEPT ![Worker] = j] /\ j.path = h.path /\ j.ordinary = h.ordinary
  BY <1>2, <1>4 DEF Dequeue, Job
<1>6. Worker \in Actors /\ \A d \in Clients : d \in Actors /\ d # Worker
  BY ConstantsAssumption DEF Actors
<1>7. \A b \in Actors : /\ pc'[b] = IF b = Worker THEN "compact" ELSE pc[b]
                        /\ job'[b] = IF b = Worker THEN j ELSE job[b]
  BY <1>1, <1>5 DEF RelInv, IndInv, TypeOK
<1>8. Quiet'
  BY <1>1, <1>6, <1>7 DEF RelInv, Quiet
<1>9. WritesOpen'
  BY <1>1, <1>6, <1>7 DEF RelInv, WritesOpen
<1>10. ASSUME NEW p \in Paths, due'[p]
       PROVE  /\ \A c \in Clients : ~(file'[c] = p /\ writer'[c])
              /\ \A n \in DOMAIN queue' : queue'[n].path = p => queue'[n].ordinary \/ ToQueue(p)'
              /\ (\E b \in Actors : Ordinary(p, b)') \/ (\E n \in DOMAIN queue' : OrdinaryAt(p, n)')
  <2>1. /\ \A c \in Clients : ~(file[c] = p /\ writer[c])
        /\ \A n \in DOMAIN queue : queue[n].path = p => queue[n].ordinary \/ ToQueue(p)
        /\ (\E b \in Actors : Ordinary(p, b)) \/ (\E n \in DOMAIN queue : OrdinaryAt(p, n))
    BY <1>1, <1>10 DEF RelInv, DueSound
  <2>2. ASSUME ToQueue(p) PROVE ToQueue(p)'
    <3>1. PICK c \in Clients : Ordinary(p, c) /\ pc[c] \in {"schedule", "failed"}
      BY <2>2 DEF ToQueue
    <3>2. Ordinary(p, c)' /\ pc'[c] \in {"schedule", "failed"}
      BY <1>6, <1>7, <3>1 DEF Ordinary
    <3>3. QED
      BY <3>2 DEF ToQueue
  <2>3. \A m \in DOMAIN queue' : queue'[m].path = p => queue'[m].ordinary \/ ToQueue(p)'
    BY <1>3, <2>1, <2>2
  <2>4. (\E b \in Actors : Ordinary(p, b)') \/ (\E n \in DOMAIN queue' : OrdinaryAt(p, n)')
    <3>1. ASSUME NEW b \in Actors, Ordinary(p, b) PROVE Ordinary(p, b)'
      BY <1>1, <1>7, <3>1 DEF Ordinary
    <3>2. ASSUME NEW n \in DOMAIN queue, OrdinaryAt(p, n)
          PROVE  Ordinary(p, Worker)' \/ \E m \in DOMAIN queue' : OrdinaryAt(p, m)'
      <4>1. CASE queue[n] = h
        BY <1>5, <1>6, <1>7, <3>2, <4>1 DEF Ordinary, OrdinaryAt
      <4>2. ASSUME NEW m \in DOMAIN queue', queue'[m] = queue[n] PROVE OrdinaryAt(p, m)'
        BY <3>2, <4>2 DEF OrdinaryAt
      <4>3. QED
        BY <1>3, <4>1, <4>2
    <3>3. QED
      BY <1>6, <2>1, <3>1, <3>2
  <2>5. QED
    BY <1>1, <2>1, <2>3, <2>4
<1>11. DueSound'
  BY <1>10 DEF DueSound
<1>12. QED
  BY <1>8, <1>9, <1>11

\* The worker waits or ends.
LEMMA WorkerIdleRel ==
    ASSUME RelInv, Sleep \/ ExitDrained PROVE Quiet' /\ WritesOpen' /\ DueSound'
<1>1. /\ pc[Worker] = "top" /\ pc'[Worker] \in {"wait", "off"}
      /\ \A b \in Actors : b # Worker => pc'[b] = pc[b]
      /\ UNCHANGED <<queue, running, stop, serving, job, file, writer, due>>
  BY DEF Sleep, ExitDrained, RelInv, IndInv, TypeOK, Actors
<1>2. \A d \in Clients : pc'[d] = pc[d]
  BY <1>1, ConstantsAssumption DEF Actors
<1>3. Quiet'
  BY <1>1, <1>2 DEF RelInv, Quiet
<1>4. WritesOpen'
  BY <1>1, <1>2 DEF RelInv, WritesOpen
<1>5. QED
  BY <1>1, <1>3, <1>4, IdleStep

\* The worker is stopped when the FUSE loop is over.
LEMMA StopRel ==
    ASSUME QuiescentStop, RelInv, Stop \/ Joined PROVE Quiet' /\ WritesOpen' /\ DueSound'
<1>1. \A d \in Clients : d \in Actors /\ d # Worker
  BY ConstantsAssumption DEF Actors
<1>2. CASE Stop
  <2>1. /\ running /\ stop' /\ ~serving'
        /\ UNCHANGED <<queue, running, job, file, writer, due>>
        /\ \A d \in Clients : pc[d] = "idle"
        /\ pc' = [pc EXCEPT ![Worker] = IF @ = "wait" THEN "top" ELSE @]
    BY <1>2 DEF Stop
  <2>2. \A b \in Actors : pc'[b] = pc[b] \/ (b = Worker /\ pc[b] = "wait")
    BY <2>1 DEF RelInv, IndInv, TypeOK
  <2>3. \A d \in Clients : pc'[d] = "idle"
    BY <1>1, <2>1, <2>2
  <2>4. Quiet'
    BY <2>1, <2>3 DEF Quiet
  <2>5. WritesOpen'
    BY <2>3 DEF WritesOpen
  <2>6. QED
    BY <2>1, <2>2, <2>4, <2>5, IdleStep
<1>3. CASE Joined
  <2>1. /\ stop /\ ~running' /\ ~stop' /\ pc[Worker] = "off"
        /\ UNCHANGED <<queue, serving, pc, job, file, writer, due>>
    BY <1>3 DEF Joined
  <2>2. \A d \in Clients : pc[d] = "idle"
    BY <2>1 DEF RelInv, Quiet
  <2>3. Quiet'
    BY <2>1, <2>2 DEF Quiet
  <2>4. WritesOpen'
    BY <2>1, <2>2 DEF WritesOpen
  <2>5. QED
    BY <2>1, <2>3, <2>4, IdleStep
<1>4. QED
  BY <1>2, <1>3

\* Every step of a system whose worker is stopped after the FUSE loop.
LEMMA RelStep == ASSUME QuiescentStop PROVE RelInv /\ [Next]_vars => RelInv'
<1> SUFFICES ASSUME RelInv, [Next]_vars PROVE RelInv'
  OBVIOUS
<1>1. IndInv'
  BY StepInv DEF RelInv
<1>2. Worker \in Actors /\ \A c \in Clients : c \in Actors
  BY DEF Actors
<1>3. ASSUME NEW c \in Clients, Callback(c) PROVE Quiet' /\ WritesOpen' /\ DueSound'
  BY <1>3, OpenRel, WriteRel, ReleaseRel DEF Callback
<1>4. ASSUME NEW c \in Clients, ClientStep(c) PROVE Quiet' /\ WritesOpen' /\ DueSound'
  BY <1>2, <1>4, ScheduleStepRel, CompactStepRel DEF ClientStep
<1>5. ASSUME WorkerStep PROVE Quiet' /\ WritesOpen' /\ DueSound'
  BY <1>2, <1>5, DequeueRel, WorkerIdleRel, CompactStepRel DEF WorkerStep
<1>6. ASSUME UNCHANGED vars PROVE Quiet' /\ WritesOpen' /\ DueSound'
  BY <1>6, ReturnedStep DEF vars
<1>7. Quiet' /\ WritesOpen' /\ DueSound'
  BY <1>3, <1>4, <1>5, <1>6, PathStepRel, StopRel DEF Next
<1>8. QED
  BY <1>1, <1>7 DEF RelInv

\* At first no request is out and nothing is due.
LEMMA RelInit == Init => RelInv
<1> SUFFICES ASSUME Init PROVE RelInv
  OBVIOUS
<1>1. IndInv
  BY InitInv
<1>2. Worker \in Actors /\ \A c \in Clients : c \in Actors /\ c # Worker
  BY ConstantsAssumption DEF Actors
<1>3. \A c \in Clients : pc[c] = "idle"
  BY <1>2 DEF Init
<1>4. ~running => pc[Worker] = "off"
  BY <1>2 DEF Init
<1>5. Quiet /\ WritesOpen
  BY <1>3, <1>4 DEF Init, Quiet, WritesOpen
<1>6. DueSound
  BY DEF Init, DueSound
<1>7. QED
  BY <1>1, <1>5, <1>6 DEF RelInv

(***************************************************************************)
(* The last writer's release is not forgotten when the worker is stopped   *)
(* only after the FUSE loop, as myfs_destroy does: a compaction that       *)
(* yields to a ticket (compact.c:1965-1970) leaves the release to the      *)
(* request of that ticket, which is an ordinary one or about to be merged  *)
(* with one, whatever was refused, merged or dropped before.               *)
(***************************************************************************)
THEOREM ReleaseRemembered == ASSUME QuiescentStop PROVE Spec => []ReleaseNotForgotten
<1>1. RelInv => ReleaseNotForgotten
  BY DEF RelInv, DueSound, ReleaseNotForgotten, Ordinary, OrdinaryAt
<1>2. QED
  BY <1>1, RelInit, RelStep, PTL DEF Spec

-----------------------------------------------------------------------------
(* What becomes of a ticket.                                               *)

\* Nobody waits for ticket k any more: its generation is gone, has claimed another
\* ticket since, or has this one answered.
Spent(r, k) ==
    \/ k.gen < r.gen
    \/ k.gen = r.gen /\ k.eval < r.eval
    \/ k.gen = r.gen /\ k.eval = r.eval /\ ~Waiting(r)

\* A record never goes back to an earlier generation or evaluation nor to a
\* ticket that was answered, and an answer that keeps the generation observes
\* nothing and uses nothing; s and t are the evidence before and after.
Moves(r, q, s, t) ==
    \/ q.gen > r.gen
    \/ q.gen = r.gen /\ q.eval > r.eval /\ ~Waiting(r)
    \/ /\ q.gen = r.gen /\ q.eval = r.eval
       /\ Waiting(q) => Waiting(r)
       /\ Waiting(r) /\ ~Waiting(q) => t = s

AllMove == \A p \in Paths : Moves(rec[p], rec'[p], seen[p], seen'[p])

\* A path whose record moves while those of the others stay.
LEMMA MovesAt ==
    ASSUME IndInv, NEW p \in Paths, NEW q, NEW t, rec' = [rec EXCEPT ![p] = q],
           seen' = [seen EXCEPT ![p] = t], Moves(rec[p], q, seen[p], t)
    PROVE  AllMove
<1> SUFFICES ASSUME NEW x \in Paths PROVE Moves(rec[x], rec'[x], seen[x], seen'[x])
  BY DEF AllMove
<1>1. CASE x = p
  <2>1. rec'[x] = q /\ seen'[x] = t
    BY <1>1 DEF IndInv, TypeOK
  <2>2. QED
    BY <1>1, <2>1
<1>2. CASE x # p
  <2>1. rec'[x] = rec[x] /\ seen'[x] = seen[x]
    BY <1>2 DEF IndInv, TypeOK
  <2>2. QED
    BY <2>1 DEF Moves
<1>3. QED
  BY <1>1, <1>2

\* A path whose record moves while nothing is observed.
LEMMA MovesUnseen ==
    ASSUME IndInv, NEW p \in Paths, NEW q, rec' = [rec EXCEPT ![p] = q], seen' = seen,
           Moves(rec[p], q, seen[p], seen[p])
    PROVE  AllMove
<1>1. seen' = [seen EXCEPT ![p] = seen[p]]
  BY DEF IndInv, TypeOK
<1>2. QED
  BY <1>1, MovesAt

LEMMA MovesQuiet == ASSUME UNCHANGED <<rec, seen>> PROVE AllMove
  BY DEF AllMove, Moves

\* A ticket that is given back or rejected leaves the evaluation answered.
LEMMA GivenUpMoves ==
    ASSUME NEW r \in Records, NEW k \in Tickets, NEW s
    PROVE  /\ ScheduleFailed(r, k).gen = r.gen /\ ScheduleFailed(r, k).eval = r.eval
           /\ Moves(r, ScheduleFailed(r, k), s, s)
           /\ Reject(r, k).gen = r.gen /\ Reject(r, k).eval = r.eval
           /\ Moves(r, Reject(r, k), s, s)
<1>1. ASSUME NEW e \in BOOLEAN
      PROVE  /\ Restore(r, k, e).gen = r.gen /\ Restore(r, k, e).eval = r.eval
             /\ Restore(r, k, e).state = "idle"
  BY DEF Restore, Records
<1>2. ASSUME NEW e \in BOOLEAN, Waiting(r) PROVE Moves(r, Restore(r, k, e), s, s)
  <2>1. ~Waiting(Restore(r, k, e))
    BY <1>1 DEF Waiting
  <2>2. QED
    BY <1>1, <2>1 DEF Moves
<1>3. Moves(r, r, s, s)
  BY DEF Moves
<1>4. QED
  BY <1>1, <1>2, <1>3 DEF ScheduleFailed, Reject, Waiting

\* A publication starts another generation.
LEMMA PublishedMoves ==
    ASSUME NEW r \in Records, NEW resize \in BOOLEAN, NEW old, old \in Records, old.gen = r.gen,
           NEW s, NEW t
    PROVE  Moves(old, Published(r, resize), s, t)
<1>1. Published(r, resize).gen = r.gen + 1
  BY DEF Published, NewRecord
<1>2. r.gen \in Nat
  BY DEF Records
<1>3. Published(r, resize).gen > old.gen
  BY <1>1, <1>2
<1>4. QED
  BY <1>3 DEF Moves

\* A claim starts another evaluation of a record that waits for none.
LEMMA ClaimMoves ==
    ASSUME NEW r \in Records, NEW e \in Records, e.gen = r.gen, e.eval = r.eval,
           Waiting(e) <=> Waiting(r), CanClaim(e), NEW s, NEW t
    PROVE  /\ Moves(r, Claim(e), s, t)
           /\ Forget(Claim(e)) = Claim(e)
<1>1. ~Waiting(r)
  BY DEF CanClaim, Waiting
<1>2. Claim(e).gen = e.gen /\ Claim(e).eval = e.eval + 1 /\ Claim(e).state = "queued"
  BY DEF Claim, Records
<1>3. Forget(Claim(e)) = Claim(e)
  BY <1>2 DEF Forget
<1>4. r.eval \in Nat /\ Claim(e).eval = r.eval + 1 /\ Claim(e).gen = r.gen
  BY <1>2 DEF Records
<1>5. Claim(e).eval > r.eval
  BY <1>4
<1>6. QED
  BY <1>1, <1>3, <1>4, <1>5 DEF Moves

\* What the compaction of an actor's request does to the record of its path.
LEMMA WorkMoves ==
    ASSUME IndInv, NEW a \in Actors, pc[a] \in {"failed", "compact", "evaluate"}
    PROVE  \E p \in Paths :
              /\ p = job[a].path /\ rec[p] \in Records
              /\ Moves(rec[p], ScheduleFailed(rec[p], job[a].ticket), seen[p], seen[p])
              /\ Moves(rec[p], Reject(rec[p], job[a].ticket), seen[p], seen[p])
              /\ Reject(rec[p], job[a].ticket).gen = rec[p].gen
<1>1. job[a].path \in Paths /\ job[a].ticket \in Tickets
  BY WorkPath DEF IndInv
<1>2. rec[job[a].path] \in Records
  BY <1>1 DEF IndInv, TypeOK
<1>3. QED
  BY <1>1, <1>2, GivenUpMoves

\* The record of a request stays, is rejected, is taken up by the evaluation or
\* makes way for that of the published generation.
LEMMA CompactStepMoves == ASSUME IndInv, NEW a \in Actors, CompactStep(a) PROVE AllMove
<1>1. pc[a] \in {"failed", "compact", "evaluate"}
  BY DEF CompactStep, LockFails, ResolveFails, Begin, Yields, BeginOrdinary, Defers, Skips,
         Resizes, Compacts
<1>2. PICK p \in Paths :
              /\ p = job[a].path /\ rec[p] \in Records
              /\ Moves(rec[p], ScheduleFailed(rec[p], job[a].ticket), seen[p], seen[p])
              /\ Moves(rec[p], Reject(rec[p], job[a].ticket), seen[p], seen[p])
              /\ Reject(rec[p], job[a].ticket).gen = rec[p].gen
  BY <1>1, WorkMoves
<1>3. CASE LockFails(a) \/ Defers(a)
  <2>1. \/ UNCHANGED <<rec, seen>>
        \/ rec' = [rec EXCEPT ![p] = ScheduleFailed(rec[p], job[a].ticket)] /\ seen' = seen
    BY <1>2, <1>3 DEF LockFails, Defers
  <2>2. QED
    BY <1>2, <2>1, MovesQuiet, MovesUnseen
<1>4. CASE ResolveFails(a) \/ Yields(a) \/ BeginOrdinary(a) \/ \E e \in BOOLEAN : Skips(a, e)
  <2>1. rec' = [rec EXCEPT ![p] = Reject(rec[p], job[a].ticket)] /\ seen' = seen
    BY <1>2, <1>4 DEF ResolveFails, Yields, BeginOrdinary, Skips
  <2>2. QED
    BY <1>2, <2>1, MovesUnseen
<1>5. CASE Begin(a)
  <2>1. PICK q : q = [rec[p] EXCEPT !.state = "inflight"]
    OBVIOUS
  <2>2. rec' = [rec EXCEPT ![p] = q] /\ seen' = seen /\ rec[p].state = "queued"
    BY <1>2, <1>5, <2>1 DEF Begin, Begins
  <2>3. Moves(rec[p], q, seen[p], seen[p])
    BY <1>2, <2>1, <2>2 DEF Moves, Waiting, Records
  <2>4. QED
    BY <2>2, <2>3, MovesUnseen
<1>6. ASSUME NEW e \in BOOLEAN, Resizes(a, e) PROVE AllMove
  <2>1. PICK t : t = seen[p] - job[a].ticket.snap
    OBVIOUS
  <2>2. rec' = [rec EXCEPT ![p] = Published(rec[p], TRUE)] /\ seen' = [seen EXCEPT ![p] = t]
    BY <1>2, <1>6, <2>1 DEF Resizes
  <2>3. QED
    BY <1>2, <2>2, PublishedMoves, MovesAt
<1>7. ASSUME NEW e \in BOOLEAN, Compacts(a, e) PROVE AllMove
  <2>1. PICK r : r = Reject(rec[p], job[a].ticket)
    OBVIOUS
  <2>2. rec' = [rec EXCEPT ![p] = Published(r, FALSE)] /\ seen' = seen
    BY <1>2, <1>7, <2>1 DEF Compacts
  <2>3. r \in Records /\ r.gen = rec[p].gen
    <3>1. pc[a] \in {"compact", "evaluate"}
      BY <1>7 DEF Compacts
    <3>2. QED
      BY <1>2, <2>1, <3>1, RejectStep
  <2>4. Moves(rec[p], Published(r, FALSE), seen[p], seen[p])
    BY <1>2, <2>3, PublishedMoves
  <2>5. QED
    BY <2>2, <2>4, MovesUnseen
<1>8. QED
  BY <1>3, <1>4, <1>5, <1>6, <1>7 DEF CompactStep

\* A write may end a cooldown and may claim a ticket.
LEMMA WriteMoves == ASSUME IndInv, NEW c \in Clients, Write(c) PROVE AllMove
<1>1. PICK p \in Paths : p = file[c]
  BY DEF Write, IndInv, TypeOK
<1>2. PICK o : o = Observed(rec[p])
  OBVIOUS
<1>3. PICK t : t = Expired(p) + 1
  OBVIOUS
<1>4. /\ rec[p] \in Records /\ Sound(rec[p], seen[p], Out(p)) /\ seen[p] \in Nat
      /\ Out(p) \in SUBSET Tickets
  BY DEF IndInv, TypeOK, RecordsSound, Out
<1>5. /\ o \in Records /\ Sound(o, t, Out(p))
      /\ o.gen = rec[p].gen /\ o.eval = rec[p].eval /\ (Waiting(o) <=> Waiting(rec[p]))
  BY <1>2, <1>3, <1>4, ObservedSound DEF Expired
<1>6. /\ seen' = [seen EXCEPT ![p] = t]
      /\ IF o.cooldown # "running" /\ CanClaim(o) THEN rec' = [rec EXCEPT ![p] = Claim(o)]
         ELSE rec' = [rec EXCEPT ![p] = IF o.cooldown = "running" THEN Deferred(o) ELSE o]
  BY <1>1, <1>2, <1>3 DEF Write
<1>7. CASE o.cooldown # "running" /\ CanClaim(o)
  <2>1. Moves(rec[p], Claim(o), seen[p], t)
    BY <1>4, <1>5, <1>7, ClaimMoves
  <2>2. QED
    BY <1>6, <1>7, <2>1, MovesAt
<1>8. CASE ~(o.cooldown # "running" /\ CanClaim(o))
  <2>1. PICK q : q = IF o.cooldown = "running" THEN Deferred(o) ELSE o
    OBVIOUS
  <2>2. q.gen = o.gen /\ q.eval = o.eval /\ (Waiting(q) <=> Waiting(o))
    BY <1>5, <2>1, DeferredSound
  <2>3. Moves(rec[p], q, seen[p], t)
    BY <1>5, <2>2 DEF Moves
  <2>4. QED
    BY <1>6, <1>8, <2>1, <2>3, MovesAt
<1>9. QED
  BY <1>7, <1>8

\* A release may claim a ticket, and the last one may free a record, but only
\* one that was never evaluated.
LEMMA ReleaseMoves == ASSUME IndInv, NEW c \in Clients, Release(c) PROVE AllMove
<1>1. PICK p \in Paths : p = file[c]
  BY DEF Release, IndInv, TypeOK
<1>2. PICK last \in BOOLEAN : last <=> (writer[c] /\ WritersOf(p) = {c})
  OBVIOUS
<1>3. PICK free \in BOOLEAN : free <=> UsersOf(p) = {c}
  OBVIOUS
<1>4. PICK e : e = IF last THEN Expire(rec[p]) ELSE rec[p]
  OBVIOUS
<1>5. PICK t : t = IF last THEN Expired(p) ELSE seen[p]
  OBVIOUS
<1>6. PICK claim \in BOOLEAN : claim <=> (last /\ e.cooldown # "running" /\ CanClaim(e))
  OBVIOUS
<1>7. PICK left : left = IF claim THEN Claim(e) ELSE e
  OBVIOUS
<1>8. PICK q : q = IF free THEN Forget(left) ELSE left
  OBVIOUS
<1>9. rec' = [rec EXCEPT ![p] = q] /\ seen' = [seen EXCEPT ![p] = t]
  BY <1>1, <1>2, <1>3, <1>4, <1>5, <1>6, <1>7, <1>8 DEF Release
<1>10. /\ rec[p] \in Records /\ Sound(rec[p], seen[p], Out(p)) /\ seen[p] \in Nat
       /\ Out(p) \in SUBSET Tickets
  BY DEF IndInv, TypeOK, RecordsSound, Out
<1>11. /\ e \in Records /\ Sound(e, t, Out(p))
       /\ e.gen = rec[p].gen /\ e.eval = rec[p].eval /\ (Waiting(e) <=> Waiting(rec[p]))
  BY <1>4, <1>5, <1>10, ExpireSound DEF Expired
<1>12. Moves(rec[p], q, seen[p], t)
  <2>1. CASE claim
    <3>1. Moves(rec[p], Claim(e), seen[p], t) /\ Forget(Claim(e)) = Claim(e)
      BY <1>6, <1>10, <1>11, <2>1, ClaimMoves
    <3>2. QED
      BY <1>7, <1>8, <2>1, <3>1
  <2>2. CASE ~claim
    <3>1. q.gen = e.gen /\ q.eval = e.eval /\ (Waiting(q) <=> Waiting(e))
      BY <1>7, <1>8, <1>10, <1>11, <2>2, ForgetSound
    <3>2. CASE last
      <4>1. (Waiting(q) <=> Waiting(rec[p])) /\ q.gen = rec[p].gen /\ q.eval = rec[p].eval
        BY <1>11, <3>1
      <4>2. QED
        BY <4>1 DEF Moves
    <3>3. CASE ~last
      BY <1>5, <1>11, <3>1, <3>3 DEF Moves
    <3>4. QED
      BY <3>2, <3>3
  <2>3. QED
    BY <2>1, <2>2
<1>13. QED
  BY <1>9, <1>12, MovesAt

\* Another file and the clock.
LEMMA PathStepMoves ==
    ASSUME IndInv, NEW p \in Paths, Replace(p) \/ Tick(p) PROVE AllMove
<1>1. rec[p] \in Records
  BY DEF IndInv, TypeOK
<1>2. CASE Replace(p)
  <2>1. rec' = [rec EXCEPT ![p] = NewRecord(rec[p].gen + 1)] /\ seen' = [seen EXCEPT ![p] = 0]
    BY <1>2 DEF Replace
  <2>2. NewRecord(rec[p].gen + 1).gen > rec[p].gen
    BY <1>1 DEF NewRecord, Records
  <2>3. QED
    BY <2>1, <2>2, MovesAt DEF Moves
<1>3. CASE Tick(p)
  <2>1. PICK q : q = [rec[p] EXCEPT !.cooldown = "expired"]
    OBVIOUS
  <2>2. rec' = [rec EXCEPT ![p] = q] /\ seen' = seen
    BY <1>3, <2>1 DEF Tick
  <2>3. q.gen = rec[p].gen /\ q.eval = rec[p].eval /\ q.state = rec[p].state
    BY <1>1, <2>1 DEF Records
  <2>4. Moves(rec[p], q, seen[p], seen[p])
    BY <2>3 DEF Moves, Waiting
  <2>5. QED
    BY <2>2, <2>4, MovesUnseen
<1>4. QED
  BY <1>2, <1>3

\* A thread whose request was refused gives its ticket back.
LEMMA FailedMoves == ASSUME IndInv, NEW c \in Clients, Failed(c) PROVE AllMove
<1>1. PICK p \in Paths :
              /\ p = job[c].path /\ rec[p] \in Records
              /\ Moves(rec[p], ScheduleFailed(rec[p], job[c].ticket), seen[p], seen[p])
              /\ Moves(rec[p], Reject(rec[p], job[c].ticket), seen[p], seen[p])
              /\ Reject(rec[p], job[c].ticket).gen = rec[p].gen
  BY WorkMoves DEF Failed, Actors
<1>2. rec' = [rec EXCEPT ![p] = ScheduleFailed(rec[p], job[c].ticket)] /\ seen' = seen
  BY <1>1 DEF Failed
<1>3. QED
  BY <1>1, <1>2, MovesUnseen

LEMMA StepMoves == IndInv /\ [Next]_vars => AllMove
<1> SUFFICES ASSUME IndInv, [Next]_vars PROVE AllMove
  OBVIOUS
<1>1. ASSUME NEW c \in Clients, Callback(c) PROVE AllMove
  <2>1. ASSUME NEW p \in Paths, NEW w \in BOOLEAN, Open(c, p, w) PROVE AllMove
    BY <2>1, MovesQuiet DEF Open
  <2>2. QED
    BY <1>1, <2>1, WriteMoves, ReleaseMoves DEF Callback
<1>2. ASSUME NEW c \in Clients, ScheduleStep(c) PROVE AllMove
  <2>1. Failed(c) \/ UNCHANGED <<rec, seen>>
    BY <1>2 DEF ScheduleStep, ScheduleFallback, ScheduleMerged, ScheduleBusy, ScheduleNew,
                ScheduleNoMemory
  <2>2. QED
    BY <2>1, FailedMoves, MovesQuiet
<1>3. ASSUME NEW c \in Clients, ClientStep(c) PROVE AllMove
  BY <1>2, <1>3, CompactStepMoves DEF ClientStep, Actors
<1>4. CASE WorkerStep
  <2>1. CompactStep(Worker) \/ UNCHANGED <<rec, seen>>
    BY <1>4 DEF WorkerStep, Dequeue, Sleep, ExitDrained
  <2>2. QED
    BY <2>1, CompactStepMoves, MovesQuiet DEF Actors
<1>5. CASE Stop \/ Joined \/ UNCHANGED vars
  <2>1. UNCHANGED <<rec, seen>>
    BY <1>5 DEF Stop, Joined, vars
  <2>2. QED
    BY <2>1, MovesQuiet
<1>6. QED
  BY <1>1, <1>3, <1>4, <1>5, PathStepMoves DEF Next

(***************************************************************************)
(* A ticket that was answered, or that its generation has left behind, is  *)
(* never waited for again: a thread that fails late, or a request that was *)
(* merged away and rejected a second time, adds its evidence to no record. *)
(* The record is compared with the ticket by generation and evaluation     *)
(* number only (compact.c:631-632, 1547-1549), and a release may free it,  *)
(* so that the next open starts to count anew.                             *)
(***************************************************************************)
TicketsStaySpent ==
    [][\A p \in Paths : \A k \in Tickets : Spent(rec[p], k) => Spent(rec'[p], k)]_vars

THEOREM SpentForGood == Spec => TicketsStaySpent
<1>1. ASSUME IndInv, IndInv', [Next]_vars, NEW p \in Paths, NEW k \in Tickets, Spent(rec[p], k)
      PROVE  Spent(rec'[p], k)
  <2>1. Moves(rec[p], rec'[p], seen[p], seen'[p])
    BY <1>1, StepMoves DEF AllMove
  <2>2. PICK r, q : r = rec[p] /\ q = rec'[p]
    OBVIOUS
  <2>3. /\ k.gen \in Nat /\ k.eval \in Nat /\ r.gen \in Nat /\ r.eval \in Nat
        /\ q.gen \in Nat /\ q.eval \in Nat
    BY <1>1, <2>2 DEF IndInv, TypeOK, Records, Tickets
  <2>4. CASE q.gen > r.gen
    BY <1>1, <2>2, <2>3, <2>4 DEF Spent
  <2>5. CASE q.gen = r.gen /\ q.eval > r.eval
    BY <1>1, <2>2, <2>3, <2>5 DEF Spent
  <2>6. CASE q.gen = r.gen /\ q.eval = r.eval /\ (Waiting(q) => Waiting(r))
    BY <1>1, <2>2, <2>3, <2>6 DEF Spent
  <2>7. QED
    BY <2>1, <2>2, <2>4, <2>5, <2>6 DEF Moves
<1>2. IndInv /\ IndInv' /\ [Next]_vars =>
        [\A p \in Paths : \A k \in Tickets : Spent(rec[p], k) => Spent(rec'[p], k)]_vars
  BY <1>1
<1>3. QED
  BY <1>2, IndInvHolds, PTL DEF Spec, TicketsStaySpent

(***************************************************************************)
(* An evaluation that ends without another generation restores the record: *)
(* it holds again all evidence there is, what came in meanwhile and what   *)
(* the one ticket that was out carried, whether a failed scheduling        *)
(* (compact.c:620-639) or a rejection (compact.c:1538-1554) returned it.   *)
(***************************************************************************)
AnswersRestore ==
    [][\A p \in Paths :
          Waiting(rec[p]) /\ ~Waiting(rec'[p]) /\ rec'[p].gen = rec[p].gen =>
             /\ rec'[p].stats = seen[p]
             /\ \E k \in TicketsOut(p) : rec'[p].stats = rec[p].stats + k.snap]_vars

THEOREM AnsweredInFull == Spec => AnswersRestore
<1>1. ASSUME IndInv, IndInv', EvidenceConserved, EvidenceConserved', [Next]_vars, NEW p \in Paths,
             Waiting(rec[p]), ~Waiting(rec'[p]), rec'[p].gen = rec[p].gen
      PROVE  /\ rec'[p].stats = seen[p]
             /\ \E k \in TicketsOut(p) : rec'[p].stats = rec[p].stats + k.snap
  <2>1. Moves(rec[p], rec'[p], seen[p], seen'[p])
    BY <1>1, StepMoves DEF AllMove
  <2>2. rec[p].gen \in Nat
    BY <1>1 DEF IndInv, TypeOK, Records
  <2>3. seen'[p] = seen[p]
    BY <1>1, <2>1, <2>2 DEF Moves
  <2>4. rec'[p].stats = seen'[p]
    BY <1>1 DEF EvidenceConserved, Waiting
  <2>5. \E k \in TicketsOut(p) : seen[p] = rec[p].stats + k.snap
    BY <1>1 DEF EvidenceConserved, Waiting
  <2>6. QED
    BY <2>3, <2>4, <2>5
<1>2. IndInv /\ IndInv' /\ EvidenceConserved /\ EvidenceConserved' /\ [Next]_vars =>
        [\A p \in Paths :
            Waiting(rec[p]) /\ ~Waiting(rec'[p]) /\ rec'[p].gen = rec[p].gen =>
               /\ rec'[p].stats = seen[p]
               /\ \E k \in TicketsOut(p) : rec'[p].stats = rec[p].stats + k.snap]_vars
  BY <1>1
<1>3. QED
  BY <1>2, IndInvHolds, EvidenceKept, PTL DEF Spec, AnswersRestore
=============================================================================
