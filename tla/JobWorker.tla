----------------------------- MODULE JobWorker -----------------------------
(***************************************************************************)
(* Worker processes around the job table: the loop of JobWorker            *)
(* (mailarc_sync, jobs/worker.py) and the handlers app/worker.py gives it.  *)
(*                                                                         *)
(* While a job runs, three tasks race (_run_job): the handler, the          *)
(* heartbeat and the wait for a stop request.  pc[w] is where the loop, or  *)
(* the handler task while there is one, stands; the other two tasks are     *)
(* actions enabled beside it.  Every queue call is a step of its own, since *)
(* each is awaited and its transaction commits before the next statement.   *)
(*                                                                         *)
(* A handler that works in asyncio.to_thread cannot be stopped by           *)
(* cancelling its task: the thread runs on, kept in thread[w], and goes on  *)
(* reporting into the row.                                                  *)
(***************************************************************************)
EXTENDS JobQueue

CONSTANTS
    HandledKinds,  \* kinds build_handlers maps to a handler
    MailboxKinds,  \* kinds whose jobs name an account
    ThreadKinds,   \* kinds whose handler works in a thread (derive, repair)
    MaxAttempts,   \* JobWorker.max_attempts
    MaxFaults,     \* bound: crashes and stop requests of a behaviour
    Punctual       \* TRUE: a living worker's lease never lapses

ASSUME WorkerAssumption ==
    /\ HandledKinds \subseteq KnownKinds
    /\ MailboxKinds \subseteq Kind
    /\ ThreadKinds \subseteq Kind
    /\ MaxAttempts \in Nat \ {0}
    /\ MaxFaults \in Nat
    /\ Punctual \in BOOLEAN
    /\ {"auth", "transient", "permanent", "other", "unhandled"} \subseteq Error

VARIABLES
    pc,        \* where each worker's loop stands
    cur,       \* the job it runs, 0 for none
    claim,     \* the ids its claim read, and what is left of the lease it will write
    run,       \* of its handler: batches done, attempts, the outcome it is about to write
    stopping,  \* the stop event
    thread,    \* handler threads left behind: pairs <<job, batch>>
    noted,     \* account marks and failure rows written for each job
    faults     \* crashes and stop requests so far

vars == <<job, pc, cur, claim, run, stopping, thread, noted, faults>>

Batch    == 0..MaxDone
NoClaim  == [ids |-> {}, ticks |-> 0]
NoRun    == [batch |-> 0, attempt |-> 0, outcome |-> "failed", error |-> "none"]
FirstRun == [batch |-> 0, attempt |-> 1, outcome |-> "failed", error |-> "unhandled"]
RunState == [batch : Batch, attempt : Nat, outcome : Ended, error : Error]

OneBatchMore(r)            == [r EXCEPT !.batch = @ + 1]
RunOnceMore(r)             == [r EXCEPT !.attempt = @ + 1, !.batch = 0]
Verdict(r, outcome, error) == [r EXCEPT !.outcome = outcome, !.error = error]

Handling == {"work", "ask"}                       \* inside the handler
Guarded  == Handling \cup {"backoff", "mark", "fail", "settle", "finish"}
InJob    == Guarded \cup {"unhandled"}            \* owes the row an outcome
Location == {"off", "poll", "claim", "claiming", "idle", "ended", "exiting"} \cup InJob

Raised == {"auth", "transient", "permanent", "other"}

Working(w) == pc[w] \in InJob

WorkerInit ==
    /\ QueueInit
    /\ pc = [w \in Worker |-> "off"]
    /\ cur = [w \in Worker |-> 0]
    /\ claim = [w \in Worker |-> NoClaim]
    /\ run = [w \in Worker |-> NoRun]
    /\ stopping = [w \in Worker |-> FALSE]
    /\ thread = [w \in Worker |-> {}]
    /\ noted = [j \in JobId |-> {}]
    /\ faults = 0

Goto(w, label) == pc' = [pc EXCEPT ![w] = label]

-----------------------------------------------------------------------------
(* The loop: reclaim, claim, run or idle. *)

Start(w) ==
    /\ pc[w] = "off"
    /\ Goto(w, "poll")
    /\ UNCHANGED <<job, cur, claim, run, stopping, thread, noted, faults>>

Reclaim(w) ==
    /\ pc[w] = "poll" /\ ~stopping[w]
    /\ ReclaimExpired
    /\ Goto(w, "claim")
    /\ UNCHANGED <<cur, claim, run, stopping, thread, noted, faults>>

ReadQueued(w) ==
    /\ pc[w] = "claim"
    /\ claim' = [claim EXCEPT ![w] = [ids |-> Queued, ticks |-> Lease]]
    /\ Goto(w, "claiming")
    /\ UNCHANGED <<job, cur, run, stopping, thread, noted, faults>>

TakeJob(w) ==
    /\ pc[w] = "claiming"
    /\ \E j \in JobId :
         /\ Claim(w, claim[w].ids, claim[w].ticks, j)
         /\ cur' = [cur EXCEPT ![w] = j]
         /\ Goto(w, IF job[j].kind \in HandledKinds THEN "work" ELSE "unhandled")
    /\ run' = [run EXCEPT ![w] = FirstRun]
    /\ claim' = [claim EXCEPT ![w] = NoClaim]
    /\ UNCHANGED <<stopping, thread, noted, faults>>

TakeNothing(w) ==
    /\ pc[w] = "claiming"
    /\ ClaimNothing(claim[w].ids)
    /\ claim' = [claim EXCEPT ![w] = NoClaim]
    /\ Goto(w, "idle")
    /\ UNCHANGED <<cur, run, stopping, thread, noted, faults>>

Poll(w) ==
    /\ pc[w] = "idle"
    /\ Goto(w, "poll")
    /\ UNCHANGED <<job, cur, claim, run, stopping, thread, noted, faults>>

(* The outcome is written and the handler task is done: back to the loop. *)
NextJob(w) ==
    /\ pc[w] = "ended"
    /\ Goto(w, "poll")
    /\ cur' = [cur EXCEPT ![w] = 0]
    /\ run' = [run EXCEPT ![w] = NoRun]
    /\ UNCHANGED <<job, claim, stopping, thread, noted, faults>>

-----------------------------------------------------------------------------
(* The handler: batches, a report after each, then the cancel flag.        *)

Report(w) ==
    /\ pc[w] = "work"
    /\ run[w].batch < MaxDone
    /\ run' = [run EXCEPT ![w] = OneBatchMore(@)]
    /\ Progress(cur[w], run[w].batch + 1)
    /\ Goto(w, "ask")
    /\ UNCHANGED <<cur, claim, stopping, thread, noted, faults>>

AskCancel(w) ==
    /\ pc[w] = "ask"
    /\ Goto(w, IF job[cur[w]].cancel THEN "settle" ELSE "work")
    /\ UNCHANGED <<job, cur, claim, run, stopping, thread, noted, faults>>

Return(w) ==
    /\ pc[w] \in Handling
    /\ Goto(w, "settle")
    /\ UNCHANGED <<job, cur, claim, run, stopping, thread, noted, faults>>

RaiseUnmarked(w, e) ==    \* mutant: only an auth error is written down first
    /\ pc[w] \in Handling
    /\ run' = [run EXCEPT ![w] = Verdict(@, "failed", e)]
    /\ Goto(w, IF e = "transient" /\ run[w].attempt < MaxAttempts THEN "backoff"
               ELSE IF e = "auth" THEN "mark"
               ELSE "fail")
    /\ UNCHANGED <<job, cur, claim, stopping, thread, noted, faults>>

(* What the handler raises decides: a transient failure is run again until  *)
(* the attempts are used up, an auth or a permanent one leaves a note       *)
(* first, and only if the job names an account.                             *)
Raise(w, e) ==
    /\ pc[w] \in Handling
    /\ run' = [run EXCEPT ![w] = Verdict(@, "failed", e)]
    /\ Goto(w, IF e = "transient" /\ run[w].attempt < MaxAttempts THEN "backoff"
               ELSE IF e \in {"auth", "permanent"} THEN "mark"
               ELSE "fail")
    /\ UNCHANGED <<job, cur, claim, stopping, thread, noted, faults>>

RunAgain(w) ==
    /\ pc[w] = "backoff"
    /\ run' = [run EXCEPT ![w] = RunOnceMore(@)]
    /\ Goto(w, "work")
    /\ UNCHANGED <<job, cur, claim, stopping, thread, noted, faults>>

Mark(w) ==
    /\ pc[w] = "mark"
    /\ noted' = IF job[cur[w]].kind \in MailboxKinds
                THEN [noted EXCEPT ![cur[w]] = @ \cup {run[w].error}]
                ELSE noted
    /\ Goto(w, "fail")
    /\ UNCHANGED <<job, cur, claim, run, stopping, thread, faults>>

SettlePutsBack(w) ==    \* mutant: a cancelled job goes back to the queue
    /\ pc[w] = "settle"
    /\ run' = [run EXCEPT ![w] =
                 Verdict(@, IF job[cur[w]].cancel THEN "queued" ELSE "succeeded", "none")]
    /\ Goto(w, "finish")
    /\ UNCHANGED <<job, cur, claim, stopping, thread, noted, faults>>

(* _settle reads the flag in one transaction and writes in the next. *)
Settle(w) ==
    /\ pc[w] = "settle"
    /\ run' = [run EXCEPT ![w] =
                 Verdict(@, IF job[cur[w]].cancel THEN "cancelled" ELSE "succeeded", "none")]
    /\ Goto(w, "finish")
    /\ UNCHANGED <<job, cur, claim, stopping, thread, noted, faults>>

WriteOutcome(w) ==
    /\ pc[w] \in {"fail", "finish", "unhandled"}
    /\ Finish(cur[w], run[w].outcome, run[w].error)
    /\ Goto(w, "ended")
    /\ UNCHANGED <<cur, claim, run, stopping, thread, noted, faults>>

-----------------------------------------------------------------------------
(* The heartbeat, the stop request, and what letting go leaves behind.      *)

Beat(w) ==
    /\ pc[w] \in Guarded
    /\ Heartbeat(cur[w])
    /\ UNCHANGED <<pc, cur, claim, run, stopping, thread, noted, faults>>

(* Cancelling the handler task: its thread, if it has one, runs on. *)
LetGo(w) ==
    /\ thread' = [thread EXCEPT ![w] =
                    IF pc[w] \in Handling /\ job[cur[w]].kind \in ThreadKinds
                    THEN @ \cup {<<cur[w], run[w].batch>>} ELSE @]
    /\ Goto(w, "poll")
    /\ cur' = [cur EXCEPT ![w] = 0]
    /\ run' = [run EXCEPT ![w] = NoRun]
    /\ UNCHANGED <<job, claim, stopping, noted, faults>>

BeatRefused(w) ==
    /\ pc[w] \in Guarded \cup {"ended"}
    /\ job[cur[w]].state # "running"
    /\ LetGo(w)

RequestStop(w) ==
    /\ pc[w] \notin {"off", "exiting"} /\ ~stopping[w]
    /\ faults < MaxFaults
    /\ stopping' = [stopping EXCEPT ![w] = TRUE]
    /\ faults' = faults + 1
    /\ UNCHANGED <<job, pc, cur, claim, run, thread, noted>>

(* The job keeps its lease until it expires. *)
Abandon(w) ==
    /\ pc[w] \in Guarded /\ stopping[w]
    /\ LetGo(w)

LeaveLoop(w) ==
    /\ pc[w] \in {"poll", "idle"} /\ stopping[w]
    /\ Goto(w, "exiting")
    /\ UNCHANGED <<job, cur, claim, run, stopping, thread, noted, faults>>

Gone(w) ==
    /\ Goto(w, "off")
    /\ cur' = [cur EXCEPT ![w] = 0]
    /\ claim' = [claim EXCEPT ![w] = NoClaim]
    /\ run' = [run EXCEPT ![w] = NoRun]
    /\ stopping' = [stopping EXCEPT ![w] = FALSE]
    /\ thread' = [thread EXCEPT ![w] = {}]
    /\ UNCHANGED <<job, noted>>

(* asyncio.run waits for the default executor's threads before it returns. *)
Exit(w) ==
    /\ pc[w] = "exiting"
    /\ thread[w] = {}
    /\ Gone(w)
    /\ UNCHANGED faults

(* kill -9, the orphan watch's os._exit, a power cut. *)
Crash(w) ==
    /\ pc[w] # "off"
    /\ faults < MaxFaults
    /\ faults' = faults + 1
    /\ Gone(w)

-----------------------------------------------------------------------------
(* A thread left behind: it reports stage after stage through the same      *)
(* guarded write until it is through, fails, or reads a cancel.             *)

ThreadReport(w, t) ==
    /\ t \in thread[w]
    /\ t[2] < MaxDone
    /\ Progress(t[1], t[2] + 1)
    /\ thread' = [thread EXCEPT ![w] = (@ \ {t}) \cup
                    IF job[t[1]].cancel THEN {} ELSE {<<t[1], t[2] + 1>>}]
    /\ UNCHANGED <<pc, cur, claim, run, stopping, noted, faults>>

ThreadEnds(w, t) ==
    /\ t \in thread[w]
    /\ thread' = [thread EXCEPT ![w] = @ \ {t}]
    /\ UNCHANGED <<job, pc, cur, claim, run, stopping, noted, faults>>

-----------------------------------------------------------------------------
(* Time.  Punctual is what the defaults are for (heartbeat 10s, lease 120s, *)
(* one second between SIGTERM and SIGKILL): a living worker's row, its      *)
(* claim in flight, and the row of a thread on its way out never lapse.     *)
Due(j) == job[j].state = "running" /\ job[j].lease = 1

TickAllowed ==
    Punctual =>
        \A w \in Worker :
            /\ Working(w) => ~Due(cur[w])
            /\ pc[w] = "claiming" => claim[w].ticks > 1
            /\ \A t \in thread[w] : ~Due(t[1])

Tick ==
    /\ TickAllowed
    /\ TickLeases
    /\ claim' = [w \in Worker |-> [claim[w] EXCEPT
                                     !.ticks = IF @ > 0 THEN @ - 1 ELSE 0]]
    /\ UNCHANGED <<pc, cur, run, stopping, thread, noted, faults>>

Client ==
    /\ \E j \in JobId : Enqueue(j) \/ RequestCancel(j)
    /\ UNCHANGED <<pc, cur, claim, run, stopping, thread, noted, faults>>

Loop(w) ==
    \/ Reclaim(w) \/ ReadQueued(w) \/ TakeJob(w) \/ TakeNothing(w)
    \/ Poll(w) \/ NextJob(w) \/ LeaveLoop(w) \/ Exit(w)

Handler(w) ==
    \/ Report(w) \/ AskCancel(w) \/ Return(w)
    \/ \E e \in Raised : Raise(w, e)
    \/ RunAgain(w) \/ Mark(w) \/ Settle(w) \/ WriteOutcome(w)

Tasks(w) == Beat(w) \/ BeatRefused(w) \/ Abandon(w)

Threads(w) == \E t \in thread[w] : ThreadReport(w, t) \/ ThreadEnds(w, t)

WorkerNext ==
    \/ Client \/ Tick
    \/ \E w \in Worker :
         \/ Start(w) \/ Loop(w) \/ Handler(w) \/ Tasks(w) \/ Threads(w)
         \/ RequestStop(w) \/ Crash(w)

(* Time passes, beats are sent, and a process that runs keeps running; a    *)
(* stopped one is started again (the application starts its worker).        *)
(* Nobody has to queue, cancel, stop or crash anything.                     *)
Fairness ==
    /\ WF_vars(Tick)
    /\ \A w \in Worker :
         /\ WF_vars(Start(w))
         /\ WF_vars(Loop(w))
         /\ WF_vars(Handler(w))
         /\ WF_vars(Beat(w))
         /\ WF_vars(BeatRefused(w))
         /\ WF_vars(Threads(w))

WorkerSpec == WorkerInit /\ [][WorkerNext]_vars
FairSpec   == WorkerSpec /\ Fairness

-----------------------------------------------------------------------------
(* The types of the worker variables, with the table's. *)
WorkerTypeOK ==
    /\ QueueTypeOK
    /\ pc \in [Worker -> Location]
    /\ cur \in [Worker -> JobId \cup {0}]
    /\ claim \in [Worker -> [ids : SUBSET JobId, ticks : Leases]]
    /\ run \in [Worker -> RunState]
    /\ stopping \in [Worker -> BOOLEAN]
    /\ thread \in [Worker -> SUBSET (JobId \X Batch)]
    /\ noted \in [JobId -> SUBSET Error]
    /\ faults \in Nat

(* Who does the work of a job right now: handlers, and threads left behind. *)
Runs(w, j) == (Working(w) /\ cur[w] = j) \/ \E t \in thread[w] : t[1] = j

(* As long as no living worker's lease lapses, a job has at most one process *)
(* working on it, threads left behind included, and the row names it.        *)
OneRunner ==
    \A w \in Worker, j \in JobId :
        Runs(w, j) => job[j].state = "running" /\ job[j].worker = w

(* An ended job is never written again: no late outcome replaces the one it  *)
(* has, no late report moves its counters.  _finish is unconditional, so     *)
(* this rests on the lease alone.                                            *)
EndedIsFinal ==
    [][\A j \in JobId : job[j].state \in Ended => job'[j] = job[j]]_vars

(* A job that failed because its mailbox refused us, or because of a message *)
(* nobody can read, never ends without the account mark or the failure row   *)
(* that says so, whatever crashed in between.                                *)
FailureIsAccounted ==
    \A j \in JobId :
        /\ job[j].state = "failed"
        /\ job[j].error \in {"auth", "permanent"}
        /\ job[j].kind \in MailboxKinds
        => job[j].error \in noted[j]

(* Every job somebody queued ends, through crashes, stops and reclaims. *)
EveryJobEnds ==
    \A j \in JobId : job[j].state \in OpenState ~> job[j].state \in Ended

(* The workers implement the lifecycle: the refinement mapping reads a job's *)
(* state off its row and its runners off the processes.                      *)
Lifecycle == INSTANCE JobLifecycle WITH
    Job    <- JobId,
    state  <- [j \in JobId |-> job[j].state],
    runner <- [j \in JobId |-> {w \in Worker : Runs(w, j)}]

ImplementsLifecycle == Lifecycle!Spec
=============================================================================
