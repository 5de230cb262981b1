---------------------------- MODULE CompactQueue ----------------------------
(***************************************************************************)
(* When a file is compacted: the adaptive tickets kept in the generation   *)
(* registry and the request queue of the compaction worker, both of        *)
(* src/core/compact.c, with the write and release handlers that feed them. *)
(*                                                                         *)
(* A write or a final release claims a ticket under the path lock, drops   *)
(* the lock and only then hands the ticket to the queue, so the ticket is  *)
(* on its way through three owners (callback thread, queue, worker) while  *)
(* its generation refuses other evaluations.  A thread that cannot queue   *)
(* its ticket gives it back without the path lock; without a worker it     *)
(* compacts the file itself.                                               *)
(*                                                                         *)
(* What a compaction does to the storage is module Generations; here it    *)
(* succeeds or fails, and a publication replaces the generation.  A client *)
(* is one open file together with the callback thread that serves it: the  *)
(* kernel sends the release of a file after its writes have returned.      *)
(***************************************************************************)
EXTENDS Naturals, Sequences, FiniteSets

CONSTANTS Paths,      \* logical paths
          Clients,    \* open files and their callback threads
          Worker,     \* the compaction worker thread
          MinSample,  \* ADAPTIVE_MIN_SAMPLE
          MaxOps,     \* bound: opens, writes and replacements of a file
          QuiescentStop, \* is the worker stopped only after the FUSE loop?
          None

Actors == Clients \cup {Worker}

ASSUME ConstantsAssumption ==
    /\ Worker \notin Clients
    /\ None \notin Paths /\ None \notin Actors
    /\ MinSample \in Nat \ {0}
    /\ MaxOps \in Nat /\ QuiescentStop \in BOOLEAN

VARIABLES rec,      \* per path: the record of the active generation
          queue,    \* compact_queue_head .. compact_queue_tail
          running,  \* compact_worker_running
          stop,     \* compact_worker_stop
          serving,  \* do callbacks still begin?
          lock,     \* per path: who is inside a compaction of it
          file,     \* per client: the path it has open
          writer,   \* per client: is it open for writing?
          pc, job,  \* per actor: control point; request it holds
          seen,     \* history, per path: evidence not yet used or expired
          due,      \* history, per path: the last writer has gone and no
                    \* compaction has looked at the file since
          ops       \* number of bounded operations so far

vars == <<rec, queue, running, stop, serving, lock, file, writer, pc, job, seen, due, ops>>

\* A ticket names the generation and the evaluation it is for and carries
\* the evidence; eval is 0 in NoTicket (ticket.valid = false).
Tickets == [gen : Nat, eval : Nat, snap : Nat]
NoTicket == [gen |-> 0, eval |-> 0, snap |-> 0]
Valid(k) == k.eval > 0

Requests == [path : Paths, ordinary : BOOLEAN, ticket : Tickets]

\* What an actor works on; cold: the file was in its cooldown when the
\* evaluation began.
Jobs == [path : Paths \cup {None}, ordinary : BOOLEAN, ticket : Tickets, cold : BOOLEAN]

NoJob == [path |-> None, ordinary |-> FALSE, ticket |-> NoTicket, cold |-> FALSE]

Job(p, ordinary, k) == [path |-> p, ordinary |-> ordinary, ticket |-> k, cold |-> FALSE]

RecordStates == {"idle", "queued", "inflight", "deferred"}

Records == [gen : Nat, stats : Nat, evidence : Nat, eval : Nat,
            state : RecordStates, cooldown : {"none", "running", "expired"}]

NewRecord(g) == [gen |-> g, stats |-> 0, evidence |-> 0, eval |-> 0,
                 state |-> "idle", cooldown |-> "none"]

(***************************************************************************)
(* The only typing statement of this module.                               *)
(***************************************************************************)
TypeOK ==
    /\ rec \in [Paths -> Records]
    /\ queue \in Seq(Requests)
    /\ running \in BOOLEAN /\ stop \in BOOLEAN /\ serving \in BOOLEAN
    /\ lock \in [Paths -> Actors \cup {None}]
    /\ file \in [Clients -> Paths \cup {None}]
    /\ writer \in [Clients -> BOOLEAN]
    /\ pc \in [Actors -> {"idle", "schedule", "compact", "evaluate", "failed",
                          "top", "wait", "off"}]
    /\ job \in [Actors -> Jobs]
    /\ seen \in [Paths -> Nat]
    /\ due \in [Paths -> BOOLEAN]
    /\ ops \in 0 .. MaxOps

\* pthread_create may fail: then there is no worker.
Init ==
    /\ rec = [p \in Paths |-> NewRecord(1)]
    /\ queue = <<>>
    /\ running \in BOOLEAN /\ stop = FALSE /\ serving = TRUE
    /\ lock = [p \in Paths |-> None]
    /\ file = [c \in Clients |-> None]
    /\ writer = [c \in Clients |-> FALSE]
    /\ pc = [a \in Actors |-> IF a # Worker THEN "idle" ELSE IF running THEN "top" ELSE "off"]
    /\ job = [a \in Actors |-> NoJob]
    /\ seen = [p \in Paths |-> 0]
    /\ due = [p \in Paths |-> FALSE]
    /\ ops = 0

WritersOf(p) == {c \in Clients : file[c] = p /\ writer[c]}
UsersOf(p) == {c \in Clients : file[c] = p}

-----------------------------------------------------------------------------
(***************************************************************************)
(* Evidence and tickets, under the registry shard's mutex.                 *)
(***************************************************************************)

\* process_expired_cooldown
Expire(r) ==
    IF r.cooldown # "expired" THEN r
    ELSE IF r.state # "deferred" THEN [r EXCEPT !.cooldown = "none"]
    ELSE [r EXCEPT !.stats = @ \div 2, !.evidence = r.stats \div 2,
                   !.state = "idle", !.cooldown = "none"]

CanClaim(r) == r.state = "idle" /\ r.stats >= MinSample /\ r.evidence >= MinSample

\* Defect: the ticket counts a write more than the record has seen.
TicketForNext(r) == [gen |-> r.gen, eval |-> r.eval + 1, snap |-> r.stats + 1]

\* claim_adaptive_ticket: the ticket and the record it leaves behind.
TicketFor(r) == [gen |-> r.gen, eval |-> r.eval + 1, snap |-> r.stats]

Claim(r) == [r EXCEPT !.eval = @ + 1, !.stats = 0, !.evidence = 0, !.state = "queued"]

\* restore_adaptive_ticket_locked
Restore(r, k, evidence) ==
    [r EXCEPT !.stats = @ + k.snap,
              !.evidence = IF evidence THEN @ + k.snap ELSE @,
              !.state = "idle"]

Matches(r, k) == Valid(k) /\ r.gen = k.gen /\ r.eval = k.eval

\* Defect: a ticket that could not be scheduled is dropped.
ScheduleFailedDropped(r, k) == r

\* generation_adaptive_schedule_failed
ScheduleFailed(r, k) ==
    IF Matches(r, k) /\ r.state = "queued" THEN Restore(r, k, TRUE) ELSE r

\* Defect: a request whose ticket did not begin is not rejected.
RejectInflightOnly(r, k) ==
    IF Matches(r, k) /\ r.state = "inflight" THEN Restore(r, k, FALSE) ELSE r

\* adaptive_reject
Reject(r, k) ==
    IF Matches(r, k) /\ r.state \in {"queued", "inflight"} THEN Restore(r, k, FALSE) ELSE r

\* generation_observe_write_locked: what one write adds, and what is left if
\* it claims a ticket.
Observed(r) == LET e == Expire(r) IN [e EXCEPT !.stats = @ + 1, !.evidence = @ + 1]

Deferred(r) == IF r.state = "idle" THEN [r EXCEPT !.state = "deferred"] ELSE r

\* unregister_generation_handle_locked frees a record that says nothing; the
\* next open starts a new one.
Forget(r) ==
    IF r.stats = 0 /\ r.state = "idle" /\ r.cooldown = "none" THEN NewRecord(r.gen) ELSE r

\* History: what a cooldown that ends takes from the evidence.
Expired(p) == seen[p] - (rec[p].stats - Expire(rec[p]).stats)

-----------------------------------------------------------------------------
(***************************************************************************)
(* The callbacks.  Each critical section of a path is one step and needs   *)
(* the path lock, which a compaction keeps for several steps.              *)
(***************************************************************************)
Count == serving /\ ops < MaxOps /\ ops' = ops + 1

Open(c, p, w) ==
    /\ pc[c] = "idle" /\ file[c] = None /\ lock[p] = None
    /\ Count
    /\ file' = [file EXCEPT ![c] = p]
    /\ writer' = [writer EXCEPT ![c] = w]
    /\ due' = [due EXCEPT ![p] = @ /\ ~w]
    /\ UNCHANGED <<rec, queue, running, stop, serving, lock, pc, job, seen>>

\* myfs_write up to the unlocking of the path.
Write(c) ==
    LET p == file[c]
        r == Observed(rec[p])
    IN
    /\ pc[c] = "idle" /\ p # None /\ writer[c] /\ lock[p] = None
    /\ Count
    /\ seen' = [seen EXCEPT ![p] = Expired(p) + 1]
    /\ IF r.cooldown # "running" /\ CanClaim(r)
       THEN /\ rec' = [rec EXCEPT ![p] = Claim(r)]
            /\ job' = [job EXCEPT ![c] = Job(p, FALSE, TicketFor(r))]
            /\ pc' = [pc EXCEPT ![c] = "schedule"]
       ELSE /\ rec' = [rec EXCEPT ![p] = IF r.cooldown = "running" THEN Deferred(r) ELSE r]
            /\ UNCHANGED <<job, pc>>
    /\ UNCHANGED <<queue, running, stop, serving, lock, file, writer, due>>

\* myfs_release up to the unlocking of the path: generation_claim_release,
\* then unregister.  A request with or without a ticket is scheduled next.
Release(c) ==
    LET p == file[c]
        last == writer[c] /\ WritersOf(p) = {c}
        e == IF last THEN Expire(rec[p]) ELSE rec[p]
        claim == last /\ e.cooldown # "running" /\ CanClaim(e)
        left == IF claim THEN Claim(e) ELSE e
    IN
    /\ serving
    /\ pc[c] = "idle" /\ p # None /\ lock[p] = None
    /\ rec' = [rec EXCEPT ![p] = IF UsersOf(p) = {c} THEN Forget(left) ELSE left]
    /\ seen' = [seen EXCEPT ![p] = IF last THEN Expired(p) ELSE @]
    /\ due' = [due EXCEPT ![p] = @ \/ last]
    /\ job' = [job EXCEPT ![c] = Job(p, TRUE, IF claim THEN TicketFor(e) ELSE NoTicket)]
    /\ pc' = [pc EXCEPT ![c] = "schedule"]
    /\ file' = [file EXCEPT ![c] = None]
    /\ writer' = [writer EXCEPT ![c] = FALSE]
    /\ UNCHANGED <<queue, running, stop, serving, lock, ops>>

\* The file is unlinked and created again: nobody has it open, the collector
\* frees its record, and the new file has a record of its own.
Replace(p) ==
    /\ UsersOf(p) = {} /\ lock[p] = None
    /\ Count
    /\ rec' = [rec EXCEPT ![p] = NewRecord(@.gen + 1)]
    /\ seen' = [seen EXCEPT ![p] = 0]
    /\ due' = [due EXCEPT ![p] = FALSE]
    /\ UNCHANGED <<queue, running, stop, serving, lock, file, writer, pc, job>>

\* The clock passes cooldown_until_mono.
Tick(p) ==
    /\ rec[p].cooldown = "running"
    /\ rec' = [rec EXCEPT ![p].cooldown = "expired"]
    /\ UNCHANGED <<queue, running, stop, serving, lock, file, writer, pc, job, seen, due, ops>>

-----------------------------------------------------------------------------
(***************************************************************************)
(* schedule_request, under compact_queue_mu.                               *)
(***************************************************************************)
At(p) == {n \in DOMAIN queue : queue[n].path = p}

\* The thread is through with its request.
Return(c) ==
    /\ pc' = [pc EXCEPT ![c] = "idle"]
    /\ job' = [job EXCEPT ![c] = NoJob]

\* No worker, or a worker that is stopping: compact in this thread.
ScheduleFallback(c) ==
    /\ pc[c] = "schedule"
    /\ ~running \/ stop
    /\ pc' = [pc EXCEPT ![c] = "compact"]
    /\ UNCHANGED <<rec, queue, running, stop, serving, lock, file, writer, job, seen, due, ops>>

\* Defect: a merged request keeps its own kind.
ScheduleMergedUnchanged(c) ==
    \E n \in At(job[c].path) :
        /\ pc[c] = "schedule"
        /\ running /\ ~stop
        /\ Valid(queue[n].ticket) => queue[n].ticket = job[c].ticket \/ ~Valid(job[c].ticket)
        /\ queue' = [queue EXCEPT ![n].ticket = IF Valid(job[c].ticket) THEN job[c].ticket ELSE @]
        /\ Return(c)
        /\ UNCHANGED <<rec, running, stop, serving, lock, file, writer, seen, due, ops>>

SameTicket(k1, k2) == k1.eval = k2.eval /\ k1.gen = k2.gen

\* The path is queued already: one request for both.
ScheduleMerged(c) ==
    LET k == job[c].ticket IN
    \E n \in At(job[c].path) :
        /\ pc[c] = "schedule"
        /\ running /\ ~stop
        /\ ~(Valid(k) /\ Valid(queue[n].ticket) /\ ~SameTicket(k, queue[n].ticket))
        /\ queue' = [queue EXCEPT ![n].ordinary = @ \/ job[c].ordinary,
                                  ![n].ticket = IF Valid(k) THEN k ELSE @]
        /\ Return(c)
        /\ UNCHANGED <<rec, running, stop, serving, lock, file, writer, seen, due, ops>>

\* It is queued with another ticket: EBUSY, after the ordinary part has been
\* merged.
ScheduleBusy(c) ==
    LET k == job[c].ticket IN
    \E n \in At(job[c].path) :
        /\ pc[c] = "schedule"
        /\ running /\ ~stop
        /\ Valid(k) /\ Valid(queue[n].ticket) /\ ~SameTicket(k, queue[n].ticket)
        /\ queue' = [queue EXCEPT ![n].ordinary = @ \/ job[c].ordinary]
        /\ pc' = [pc EXCEPT ![c] = "failed"]
        /\ UNCHANGED <<rec, running, stop, serving, lock, file, writer, job, seen, due, ops>>

Append1(c) == Append(queue, [path |-> job[c].path, ordinary |-> job[c].ordinary,
                             ticket |-> job[c].ticket])

\* Defect: the worker is not woken.
ScheduleSilently(c) ==
    /\ pc[c] = "schedule"
    /\ running /\ ~stop
    /\ At(job[c].path) = {}
    /\ queue' = Append1(c)
    /\ Return(c)
    /\ UNCHANGED <<rec, running, stop, serving, lock, file, writer, seen, due, ops>>

\* Defect: the queue is not searched for the path.
ScheduleAlways(c) ==
    /\ pc[c] = "schedule"
    /\ running /\ ~stop
    /\ queue' = Append1(c)
    /\ pc' = [pc EXCEPT ![c] = "idle", ![Worker] = IF @ = "wait" THEN "top" ELSE @]
    /\ job' = [job EXCEPT ![c] = NoJob]
    /\ UNCHANGED <<rec, running, stop, serving, lock, file, writer, seen, due, ops>>

\* A new request at the tail, and a signal for the worker.
ScheduleNew(c) ==
    /\ pc[c] = "schedule"
    /\ running /\ ~stop
    /\ At(job[c].path) = {}
    /\ queue' = Append1(c)
    /\ pc' = [pc EXCEPT ![c] = "idle", ![Worker] = IF @ = "wait" THEN "top" ELSE @]
    /\ job' = [job EXCEPT ![c] = NoJob]
    /\ UNCHANGED <<rec, running, stop, serving, lock, file, writer, seen, due, ops>>

\* malloc or strdup fails.
ScheduleNoMemory(c) ==
    /\ pc[c] = "schedule"
    /\ running /\ ~stop
    /\ At(job[c].path) = {}
    /\ pc' = [pc EXCEPT ![c] = "failed"]
    /\ UNCHANGED <<rec, queue, running, stop, serving, lock, file, writer, job, seen, due, ops>>

\* The caller learns of an error: it gives its ticket back, and a release
\* tries again without one.  An ordinary request is logged and dropped.
Failed(c) ==
    LET p == job[c].path
        again == job[c].ordinary /\ Valid(job[c].ticket)
    IN
    /\ pc[c] = "failed"
    /\ rec' = [rec EXCEPT ![p] = ScheduleFailed(@, job[c].ticket)]
    /\ IF again
       THEN /\ job' = [job EXCEPT ![c].ticket = NoTicket]
            /\ pc' = [pc EXCEPT ![c] = "schedule"]
            /\ UNCHANGED due
       ELSE /\ Return(c)
            /\ due' = [due EXCEPT ![p] = @ /\ ~job[c].ordinary]
    /\ UNCHANGED <<queue, running, stop, serving, lock, file, writer, seen, ops>>

-----------------------------------------------------------------------------
(***************************************************************************)
(* compact_data_file_locked, for the worker or for a callback thread.      *)
(***************************************************************************)

\* What happens to an actor when its compaction has returned.
Finish(a, error) ==
    /\ IF a = Worker THEN pc' = [pc EXCEPT ![a] = "top"] /\ job' = [job EXCEPT ![a] = NoJob]
       ELSE IF error THEN pc' = [pc EXCEPT ![a] = "failed"] /\ job' = [job EXCEPT ![a].cold = FALSE]
       ELSE Return(a)

\* myfs_lock_file fails.  The worker gives the ticket back and forgets the
\* request; a callback thread does so in Failed.
LockFails(a) ==
    LET p == job[a].path IN
    /\ pc[a] = "compact"
    /\ Finish(a, TRUE)
    /\ IF a = Worker
       THEN /\ rec' = [rec EXCEPT ![p] = ScheduleFailed(@, job[a].ticket)]
            /\ due' = [due EXCEPT ![p] = @ /\ ~job[a].ordinary]
       ELSE UNCHANGED <<rec, due>>
    /\ UNCHANGED <<queue, running, stop, serving, lock, file, writer, seen, ops>>

\* The storage cannot be resolved.
ResolveFails(a) ==
    LET p == job[a].path IN
    /\ pc[a] = "compact" /\ lock[p] = None
    /\ rec' = [rec EXCEPT ![p] = Reject(@, job[a].ticket)]
    /\ due' = [due EXCEPT ![p] = @ /\ ~job[a].ordinary]
    /\ Finish(a, TRUE)
    /\ UNCHANGED <<queue, running, stop, serving, lock, file, writer, seen, ops>>

\* adaptive_begin takes the ticket, or adaptive_reject returns it.
Begins(a) ==
    LET r == rec[job[a].path] IN Matches(r, job[a].ticket) /\ r.state = "queued"

Begin(a) ==
    LET p == job[a].path
        k == job[a].ticket
    IN
    /\ pc[a] = "compact" /\ lock[p] = None
    /\ Begins(a)
    /\ lock' = [lock EXCEPT ![p] = a]
    /\ rec' = [rec EXCEPT ![p].state = "inflight"]
    /\ job' = [job EXCEPT ![a].cold = rec[p].cooldown = "running"]
    /\ pc' = [pc EXCEPT ![a] = "evaluate"]
    /\ UNCHANGED <<queue, running, stop, serving, file, writer, seen, due, ops>>

\* Without a ticket of its own the compaction leaves a generation alone whose
\* ticket is on the way: that request has not been dropped.
Yields(a) ==
    LET p == job[a].path IN
    /\ pc[a] = "compact" /\ lock[p] = None
    /\ ~Begins(a)
    /\ Reject(rec[p], job[a].ticket).state = "queued"
    /\ rec' = [rec EXCEPT ![p] = Reject(@, job[a].ticket)]
    /\ Finish(a, FALSE)
    /\ UNCHANGED <<queue, running, stop, serving, lock, file, writer, seen, due, ops>>

BeginOrdinary(a) ==
    LET p == job[a].path
        r == Reject(rec[p], job[a].ticket)
    IN
    /\ pc[a] = "compact" /\ lock[p] = None
    /\ ~Begins(a)
    /\ r.state # "queued"
    /\ lock' = [lock EXCEPT ![p] = a]
    /\ rec' = [rec EXCEPT ![p] = r]
    /\ job' = [job EXCEPT ![a].ticket = NoTicket]
    /\ pc' = [pc EXCEPT ![a] = "evaluate"]
    /\ UNCHANGED <<queue, running, stop, serving, file, writer, seen, due, ops>>

Adaptive(a) == Valid(job[a].ticket)

Unlock(p) == lock' = [lock EXCEPT ![p] = None]

\* A file that still has writers waits for their release.
Defers(a) ==
    LET p == job[a].path IN
    /\ pc[a] = "evaluate"
    /\ ~Adaptive(a) /\ WritersOf(p) # {}
    /\ Unlock(p) /\ Finish(a, FALSE)
    /\ UNCHANGED <<rec, queue, running, stop, serving, file, writer, seen, due, ops>>

\* History: a compaction has looked at the file's waste, or tried to.
Looked(a, p) == due' = [due EXCEPT ![p] = @ /\ ~job[a].ordinary]

\* Nothing to gain, or an error before or in the publication.
Skips(a, error) ==
    LET p == job[a].path IN
    /\ pc[a] = "evaluate"
    /\ Adaptive(a) \/ WritersOf(p) = {}
    /\ rec' = [rec EXCEPT ![p] = Reject(@, job[a].ticket)]
    /\ Looked(a, p)
    /\ Unlock(p) /\ Finish(a, error)
    /\ UNCHANGED <<queue, running, stop, serving, file, writer, seen, ops>>

\* The new generation's record: the evidence that came in since the claim
\* moves on, a resize starts a cooldown.
Published(r, resize) ==
    LET cool == IF resize THEN "running" ELSE r.cooldown IN
    [NewRecord(r.gen + 1) EXCEPT
        !.stats = r.stats, !.evidence = r.evidence, !.cooldown = cool,
        !.state = IF cool = "running" /\ r.stats > 0 THEN "deferred" ELSE "idle"]

\* A resize is published, possibly under live writers, and uses its ticket.
\* The collection that follows may fail: that is an error, too.
Resizes(a, error) ==
    LET p == job[a].path IN
    /\ pc[a] = "evaluate"
    /\ Adaptive(a) /\ ~job[a].cold
    /\ rec' = [rec EXCEPT ![p] = Published(@, TRUE)]
    /\ seen' = [seen EXCEPT ![p] = @ - job[a].ticket.snap]
    /\ Looked(a, p)
    /\ Unlock(p) /\ Finish(a, error)
    /\ UNCHANGED <<queue, running, stop, serving, file, writer, ops>>

\* An ordinary compaction; a rejected resize of a combined request becomes one.
Compacts(a, error) ==
    LET p == job[a].path IN
    /\ pc[a] = "evaluate"
    /\ IF Adaptive(a) THEN job[a].ordinary ELSE WritersOf(p) = {}
    /\ rec' = [rec EXCEPT ![p] = Published(Reject(@, job[a].ticket), FALSE)]
    /\ Looked(a, p)
    /\ Unlock(p) /\ Finish(a, error)
    /\ UNCHANGED <<queue, running, stop, serving, file, writer, seen, ops>>

-----------------------------------------------------------------------------
(***************************************************************************)
(* The worker.                                                             *)
(***************************************************************************)

\* The head of the queue.
Dequeue ==
    /\ pc[Worker] = "top" /\ queue # <<>>
    /\ job' = [job EXCEPT ![Worker] = Job(Head(queue).path, Head(queue).ordinary,
                                          Head(queue).ticket)]
    /\ queue' = Tail(queue)
    /\ pc' = [pc EXCEPT ![Worker] = "compact"]
    /\ UNCHANGED <<rec, running, stop, serving, lock, file, writer, seen, due, ops>>

\* pthread_cond_wait, until a signal.
Sleep ==
    /\ pc[Worker] = "top" /\ queue = <<>> /\ ~stop
    /\ pc' = [pc EXCEPT ![Worker] = "wait"]
    /\ UNCHANGED <<rec, queue, running, stop, serving, lock, file, writer, job, seen, due, ops>>

\* Defect: the thread ends as soon as it is asked to.
ExitAtOnce ==
    /\ pc[Worker] = "top" /\ stop
    /\ pc' = [pc EXCEPT ![Worker] = "off"]
    /\ UNCHANGED <<rec, queue, running, stop, serving, lock, file, writer, job, seen, due, ops>>

\* Stop is requested and the queue is empty: the thread ends.
ExitDrained ==
    /\ pc[Worker] = "top" /\ queue = <<>> /\ stop
    /\ pc' = [pc EXCEPT ![Worker] = "off"]
    /\ UNCHANGED <<rec, queue, running, stop, serving, lock, file, writer, job, seen, due, ops>>

\* Defect: the sleeping worker is not woken.
StopSilently ==
    /\ running /\ ~stop
    /\ stop' = TRUE /\ serving' = ~QuiescentStop
    /\ UNCHANGED <<rec, queue, running, lock, file, writer, pc, job, seen, due, ops>>

\* stop_compaction_worker: ask, wake, join, then forget the thread.
\* myfs_destroy calls it when the FUSE loop is over.
Stop ==
    /\ running /\ ~stop
    /\ QuiescentStop => \A c \in Clients : pc[c] = "idle"
    /\ stop' = TRUE /\ serving' = ~QuiescentStop
    /\ pc' = [pc EXCEPT ![Worker] = IF @ = "wait" THEN "top" ELSE @]
    /\ UNCHANGED <<rec, queue, running, lock, file, writer, job, seen, due, ops>>

Joined ==
    /\ stop /\ pc[Worker] = "off"
    /\ running' = FALSE /\ stop' = FALSE
    /\ UNCHANGED <<serving, rec, queue, lock, file, writer, pc, job, seen, due, ops>>

-----------------------------------------------------------------------------
ScheduleStep(c) ==
    \/ ScheduleFallback(c) \/ ScheduleMerged(c) \/ ScheduleBusy(c)
    \/ ScheduleNew(c) \/ ScheduleNoMemory(c) \/ Failed(c)

CompactStep(a) ==
    \/ LockFails(a) \/ ResolveFails(a) \/ Begin(a) \/ Yields(a) \/ BeginOrdinary(a)
    \/ Defers(a)
    \/ \E error \in BOOLEAN : Skips(a, error) \/ Resizes(a, error) \/ Compacts(a, error)

WorkerStep == Dequeue \/ Sleep \/ ExitDrained \/ CompactStep(Worker)

ClientStep(c) == ScheduleStep(c) \/ CompactStep(c)

Callback(c) ==
    \/ \E p \in Paths, w \in BOOLEAN : Open(c, p, w)
    \/ Write(c) \/ Release(c)

Next ==
    \/ \E c \in Clients : Callback(c) \/ ClientStep(c)
    \/ \E p \in Paths : Replace(p) \/ Tick(p)
    \/ WorkerStep \/ Stop \/ Joined

Spec == Init /\ [][Next]_vars

(***************************************************************************)
(* The worker and a callback that has begun to schedule keep running; the  *)
(* thread in stop_compaction_worker returns from the join.  Callbacks,     *)
(* failures, the clock and the stop itself are never forced.               *)
(***************************************************************************)
FairSpec ==
    /\ Spec
    /\ WF_vars(WorkerStep) /\ WF_vars(Joined)
    /\ \A c \in Clients : WF_vars(ClientStep(c))

-----------------------------------------------------------------------------
Carries(p, k) == rec[p].gen = k.gen /\ rec[p].eval = k.eval

(***************************************************************************)
(* A generation that waits for the evaluation of its ticket is never       *)
(* forgotten: the ticket is in the hands of a callback thread, in the      *)
(* queue or with the worker, and a generation under evaluation belongs to  *)
(* the thread that holds the path.  A record stuck in ADAPTIVE_QUEUED      *)
(* would refuse every later compaction, ordinary ones too                  *)
(* (compact.c:1965-1970).                                                  *)
(***************************************************************************)
TicketTracked ==
    \A p \in Paths :
        /\ rec[p].state = "queued" =>
              \/ \E a \in Actors : /\ pc[a] \in {"schedule", "failed", "compact"}
                                   /\ job[a].path = p /\ Carries(p, job[a].ticket)
              \/ \E n \in DOMAIN queue : queue[n].path = p /\ Carries(p, queue[n].ticket)
        /\ rec[p].state = "inflight" =>
              /\ lock[p] # None
              /\ pc[lock[p]] = "evaluate" /\ job[lock[p]].path = p
              /\ Carries(p, job[lock[p]].ticket)

TicketsOut(p) ==
    {k \in {job[a].ticket : a \in Actors} \cup {queue[n].ticket : n \in DOMAIN queue} :
        Valid(k) /\ Carries(p, k)}

(***************************************************************************)
(* No evidence is lost or counted twice: what was observed and neither     *)
(* used by a resize nor halved by a cooldown is in the record or in the    *)
(* one ticket that is out, whichever of the giving back and the rejecting  *)
(* runs first (compact.c:530-545, 620-639, 1538-1554).                     *)
(***************************************************************************)
EvidenceConserved ==
    \A p \in Paths :
        IF rec[p].state \in {"queued", "inflight"}
        THEN \E k \in TicketsOut(p) : seen[p] = rec[p].stats + k.snap
        ELSE seen[p] = rec[p].stats

(***************************************************************************)
(* A path is queued once: "Queue deduplication is by path"                 *)
(* (compact.c:2240).                                                       *)
(***************************************************************************)
OneRequestPerPath == \A p \in Paths : Cardinality(At(p)) <= 1

(***************************************************************************)
(* Nothing is queued that no worker will take: the thread has ended only   *)
(* with an empty queue, "shutdown drains the queue before exit"            *)
(* (compact.c:2240), also when callbacks still run while it is stopped.    *)
(***************************************************************************)
QueueServed == pc[Worker] = "off" => queue = <<>>

(***************************************************************************)
(* The last writer's release is not forgotten: until a compaction has      *)
(* looked at the file, an ordinary request for it is being scheduled, is   *)
(* queued, or is being executed (file.c:1176-1203).  A request may be      *)
(* dropped because its generation waits for a ticket: then that ticket's   *)
(* request must be an ordinary one as well (compact.c:1965-1970).          *)
(***************************************************************************)
ReleaseNotForgotten ==
    \A p \in Paths : due[p] =>
        \/ \E a \in Actors : /\ pc[a] \in {"schedule", "failed", "compact", "evaluate"}
                             /\ job[a].path = p /\ job[a].ordinary
        \/ \E n \in DOMAIN queue : queue[n].path = p /\ queue[n].ordinary

(***************************************************************************)
(* Every release of a last writer is followed by a compaction that looks   *)
(* at the file, or by another writer, or by a logged failure.              *)
(***************************************************************************)
ReleaseServed == \A p \in Paths : due[p] ~> ~due[p]

(***************************************************************************)
(* The unmount does not hang: a stop that was requested is followed by the *)
(* end of the worker and the return of stop_compaction_worker.             *)
(***************************************************************************)
StopReturns == stop ~> ~running
=============================================================================
