------------------------------ MODULE JobQueue ------------------------------
(***************************************************************************)
(* The table mail_sync_jobs and the operations of JobQueue (mailarc_sync,  *)
(* jobs/queue.py).  Every operation opens its own session and commits it,  *)
(* so each is one atomic step here, with one exception: claim reads the    *)
(* queued ids before its first UPDATE takes the write lock, so the ids and *)
(* the moment the claim began are arguments of Claim that may be stale.    *)
(*                                                                         *)
(* Time is not a clock but what is left of a lease: lease = n > 0 says     *)
(* lease_until is still ahead, 0 says it lies in the past.  Tick is the    *)
(* passing of time for every row at once.                                  *)
(*                                                                         *)
(* Spec at the end lets anybody call any operation in any order: what it   *)
(* satisfies is what the table promises whatever its callers do.           *)
(***************************************************************************)
EXTENDS Integers

CONSTANTS
    Worker,      \* the worker processes
    NoWorker,    \* a NULL worker_id
    Kind,        \* values of the column kind, unknown ones included
    KnownKinds,  \* the kinds of this build's JobKind enum
    MaxJobs,     \* bound: rows the table may hold
    MaxDone,     \* bound: values of messages_done
    Lease,       \* ticks a claim or a heartbeat buys
    Error        \* what the column error can say, by class of failure

ASSUME QueueAssumption ==
    /\ NoWorker \notin Worker
    /\ KnownKinds \subseteq Kind
    /\ MaxJobs \in Nat
    /\ MaxDone \in Nat
    /\ Lease \in Nat \ {0}
    /\ {"none", "unknown_kind"} \subseteq Error

JobId   == 1..MaxJobs
NoLease == -1
Leases  == 0..Lease
Done    == 0..MaxDone

Ended     == {"succeeded", "failed", "cancelled"}
OpenState == {"queued", "running"}
JobState  == {"absent"} \cup OpenState \cup Ended

Row == [kind   : Kind,
        state  : JobState,
        worker : Worker \cup {NoWorker},
        lease  : Leases \cup {NoLease},
        cancel : BOOLEAN,
        error  : Error,
        done   : Done]

VARIABLE job     \* the rows by id; "absent" is an id not handed out yet

Queued  == {j \in JobId : job[j].state = "queued"}
Running == {j \in JobId : job[j].state = "running"}

QueueInit ==
    \E k \in [JobId -> Kind] :
        job = [j \in JobId |-> [kind |-> k[j], state |-> "absent",
                                worker |-> NoWorker, lease |-> NoLease,
                                cancel |-> FALSE, error |-> "none",
                                done |-> 0]]

-----------------------------------------------------------------------------
(* Row states: what one UPDATE leaves in the row it matched.               *)

(* Mutant of Freed: the lease is forgotten when the row is let go. *)
FreedKeepsLease(r, s) == [r EXCEPT !.state = s, !.worker = NoWorker]

Freed(r, s) == [r EXCEPT !.state = s, !.worker = NoWorker, !.lease = NoLease]

(* Mutant of Held: a claim starts the job with a clean flag. *)
HeldUnflagged(r, w, ticks) ==
    [r EXCEPT !.state = "running", !.worker = w, !.lease = ticks, !.error = "none",
              !.cancel = FALSE]

Held(r, w, ticks) ==
    [r EXCEPT !.state = "running", !.worker = w, !.lease = ticks, !.error = "none"]

Closed(r, outcome, error) == [Freed(r, outcome) EXCEPT !.error = error]

Refused(r) == Closed(r, "failed", "unknown_kind")

(* enqueue: ids are handed out in order, so the oldest job is the least id. *)
Enqueue(j) ==
    /\ job[j].state = "absent"
    /\ \A i \in JobId : i < j => job[i].state # "absent"
    /\ job' = [job EXCEPT ![j].state = "queued"]

(* claim, from its first UPDATE to its commit.  seen holds the ids it read, *)
(* ticks what is left of a lease counted from the moment it read the clock. *)
(* An id somebody else took in between is passed over; a kind this build    *)
(* does not know is taken and failed in the same transaction.               *)
Claimable(seen) ==
    {j \in seen : job[j].state = "queued" /\ job[j].kind \in KnownKinds}

Unknown(seen) ==
    {j \in seen : job[j].state = "queued" /\ job[j].kind \notin KnownKinds}

Claim(w, seen, ticks, j) ==
    /\ j \in Claimable(seen)
    /\ \A i \in Claimable(seen) : j <= i
    /\ job' = [i \in JobId |->
                 IF i = j THEN Held(job[i], w, ticks)
                 ELSE IF i \in Unknown(seen) /\ i < j THEN Refused(job[i])
                 ELSE job[i]]

ClaimNothing(seen) ==
    /\ Claimable(seen) = {}
    /\ job' = [i \in JobId |->
                 IF i \in Unknown(seen) THEN Refused(job[i]) ELSE job[i]]

(* heartbeat: guarded on running alone, whoever calls it. *)
Heartbeat(j) ==
    /\ job[j].state = "running"
    /\ job' = [job EXCEPT ![j].lease = Lease]

LapsedOrNot == Running   \* mutant of Lapsed: leases are not looked at
NeverLapsed == {}        \* mutant of Lapsed: NULL compares false

(* reclaim_expired: one UPDATE over every running row whose lease lapsed. *)
Lapsed == {j \in Running : job[j].lease # NoLease /\ job[j].lease = 0}

ReclaimExpired ==
    job' = [j \in JobId |-> IF j \in Lapsed THEN Freed(job[j], "queued") ELSE job[j]]

(* progress: guarded on running; otherwise the report is dropped. *)
Progress(j, d) ==
    job' = IF job[j].state = "running" THEN [job EXCEPT ![j].done = d] ELSE job

(* request_cancel: two conditional writes in one transaction.  A job nobody *)
(* claimed ends here, a running one is flagged, an ended one is left alone. *)
RequestCancel(j) ==
    /\ job[j].state # "absent"
    /\ job' = IF job[j].state = "queued"
              THEN [job EXCEPT ![j] = [Freed(@, "cancelled") EXCEPT !.cancel = TRUE]]
              ELSE IF job[j].state = "running"
              THEN [job EXCEPT ![j].cancel = TRUE]
              ELSE job

(* succeed, fail, cancel through _finish: an UPDATE by id with no condition. *)
Finish(j, outcome, error) ==
    /\ job[j].state # "absent"
    /\ job' = [job EXCEPT ![j] = Closed(@, outcome, error)]

(* Time passes for every row that holds a lease. *)
TickLeases ==
    job' = [j \in JobId |->
              IF job[j].lease > 0 THEN [job[j] EXCEPT !.lease = @ - 1] ELSE job[j]]

-----------------------------------------------------------------------------
(* Any caller, any order. *)

AnyClaim ==
    \E w \in Worker, seen \in SUBSET JobId, ticks \in Leases :
        \/ \E j \in JobId : Claim(w, seen, ticks, j)
        \/ ClaimNothing(seen)

QueueNext ==
    \/ \E j \in JobId : Enqueue(j)
    \/ AnyClaim
    \/ \E j \in JobId : Heartbeat(j)
    \/ ReclaimExpired
    \/ \E j \in JobId, d \in Done : Progress(j, d)
    \/ \E j \in JobId : RequestCancel(j)
    \/ \E j \in JobId, outcome \in Ended, e \in Error : Finish(j, outcome, e)
    \/ TickLeases

QueueSpec == QueueInit /\ [][QueueNext]_job

-----------------------------------------------------------------------------
(* Every row has the columns of MailSyncJobEntity with values of their type. *)
QueueTypeOK == job \in [JobId -> Row]

(* A running row always carries an owner and a lease, and no other row does. *)
(* reclaim_expired skips a NULL lease_until, so a running row without one    *)
(* would stay running for ever after its worker died.                        *)
NoStrandedRow ==
    \A j \in JobId :
        /\ job[j].state = "running" <=> job[j].worker # NoWorker
        /\ job[j].state = "running" <=> job[j].lease # NoLease

(* A kind this build cannot name is never seen running: it is failed in the  *)
(* transaction that took it, so the poll loop cannot meet it again.          *)
UnknownNeverRuns ==
    \A j \in JobId : job[j].kind \notin KnownKinds => job[j].state # "running"

(* Whatever the callers do, an ended job never re-enters the queue and its   *)
(* counters stay what they were: a late heartbeat, report, reclaim or claim  *)
(* finds no row to write.                                                    *)
EndedNeverReopens ==
    [][\A j \in JobId : job[j].state \in Ended =>
          job'[j].state \in Ended /\ job'[j].done = job[j].done]_job

(* A cancel is never forgotten: the flag survives a crash, the reclaim and   *)
(* the next claim of the job.                                                *)
CancelIsSticky ==
    [][\A j \in JobId : job[j].cancel => job'[j].cancel]_job
=============================================================================
