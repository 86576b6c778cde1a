--------------------------- MODULE JobWorkerProofs ---------------------------
(***************************************************************************)
(* The job table under any callers, and the worker protocol over it, for   *)
(* any number of workers, rows, kinds, batches, attempts and faults and    *)
(* for any length of a lease; and that the workers implement the lifecycle *)
(* the table promises.                                                     *)
(***************************************************************************)
EXTENDS JobWorker, TLAPS

(* The table: what it promises under any callers.                          *)

(* The inductive invariant of the table. *)
QueueInv == QueueTypeOK /\ NoStrandedRow /\ UnknownNeverRuns

(* Every operation writes rows of the right type. *)
LEMMA FreedRow ==
    ASSUME NEW r \in Row, NEW s \in JobState
    PROVE  Freed(r, s) \in Row
BY DEF Freed, Row

LEMMA ClosedRow ==
    ASSUME NEW r \in Row, NEW s \in Ended, NEW e \in Error
    PROVE  Closed(r, s, e) \in Row
BY DEF Closed, Freed, Row, JobState

LEMMA HeldRow ==
    ASSUME NEW r \in Row, NEW w \in Worker, NEW ticks \in Leases
    PROVE  Held(r, w, ticks) \in Row
BY QueueAssumption DEF Held, Row, JobState, OpenState

LEMMA RefusedRow ==
    ASSUME NEW r \in Row
    PROVE  Refused(r) \in Row
BY QueueAssumption, ClosedRow DEF Refused, Ended

-----------------------------------------------------------------------------
(* One lemma per operation that writes more than one column. *)

LEMMA ClaimInv ==
    ASSUME QueueInv, NEW w \in Worker, NEW seen \in SUBSET JobId,
           NEW ticks \in Leases, NEW j \in JobId, Claim(w, seen, ticks, j)
    PROVE  QueueInv'
<1>1. QueueTypeOK'
  BY HeldRow, RefusedRow DEF QueueInv, QueueTypeOK, Claim
<1>2. ASSUME NEW i \in JobId
      PROVE  /\ (job'[i].state = "running" <=> job'[i].worker # NoWorker)
             /\ (job'[i].state = "running" <=> job'[i].lease # NoLease)
             /\ (job'[i].kind \notin KnownKinds => job'[i].state # "running")
  <2>0. job[i] \in Row
    BY DEF QueueInv, QueueTypeOK
  <2>1. CASE i = j
    <3>1. job'[i] = Held(job[i], w, ticks) /\ job[i].kind \in KnownKinds
      BY <2>1 DEF Claim, Claimable
    <3> QED
      BY <2>0, <3>1, QueueAssumption DEF Held, Row, Leases, NoLease
  <2>2. CASE i # j /\ i \in Unknown(seen) /\ i < j
    <3>1. job'[i] = Refused(job[i])
      BY <2>2 DEF Claim
    <3> QED
      BY <2>0, <3>1 DEF Refused, Closed, Freed, Row
  <2>3. CASE i # j /\ ~(i \in Unknown(seen) /\ i < j)
    <3>1. job'[i] = job[i]
      BY <2>3 DEF Claim
    <3> QED
      BY <3>1 DEF QueueInv, NoStrandedRow, UnknownNeverRuns
  <2> QED BY <2>1, <2>2, <2>3
<1> QED BY <1>1, <1>2 DEF QueueInv, NoStrandedRow, UnknownNeverRuns

LEMMA ClaimNothingInv ==
    ASSUME QueueInv, NEW seen \in SUBSET JobId, ClaimNothing(seen)
    PROVE  QueueInv'
<1>1. QueueTypeOK'
  BY RefusedRow DEF QueueInv, QueueTypeOK, ClaimNothing
<1>2. NoStrandedRow' /\ UnknownNeverRuns'
  BY QueueAssumption, ZenonT(60) DEF QueueInv, QueueTypeOK, NoStrandedRow, UnknownNeverRuns,
     ClaimNothing, Refused, Closed, Freed, Row, NoLease
<1> QED BY <1>1, <1>2 DEF QueueInv

LEMMA ReclaimInv ==
    ASSUME QueueInv, ReclaimExpired
    PROVE  QueueInv'
<1>1. QueueTypeOK'
  BY FreedRow DEF QueueInv, QueueTypeOK, ReclaimExpired, JobState, OpenState
<1>2. NoStrandedRow' /\ UnknownNeverRuns'
  BY QueueAssumption, ZenonT(60) DEF QueueInv, QueueTypeOK, NoStrandedRow, UnknownNeverRuns,
     ReclaimExpired, Freed, Row, NoLease
<1> QED BY <1>1, <1>2 DEF QueueInv

LEMMA FinishInv ==
    ASSUME QueueInv, NEW j \in JobId, NEW outcome \in Ended, NEW e \in Error,
           Finish(j, outcome, e)
    PROVE  QueueInv'
<1>1. QueueTypeOK'
  BY ClosedRow DEF QueueInv, QueueTypeOK, Finish
<1>2. NoStrandedRow' /\ UnknownNeverRuns'
  BY QueueAssumption DEF QueueInv, QueueTypeOK, NoStrandedRow, UnknownNeverRuns,
     Finish, Closed, Freed, Row, NoLease, Ended
<1> QED BY <1>1, <1>2 DEF QueueInv

LEMMA RequestCancelInv ==
    ASSUME QueueInv, NEW j \in JobId, RequestCancel(j)
    PROVE  QueueInv'
<1>1. QueueTypeOK'
  <2>1. job[j] \in Row
    BY DEF QueueInv, QueueTypeOK
  <2>2. [Freed(job[j], "cancelled") EXCEPT !.cancel = TRUE] \in Row
    BY <2>1, FreedRow DEF JobState, Ended, Row
  <2>3. [job[j] EXCEPT !.cancel = TRUE] \in Row
    BY <2>1 DEF Row
  <2> QED BY <2>2, <2>3 DEF QueueInv, QueueTypeOK, RequestCancel
<1>2. NoStrandedRow' /\ UnknownNeverRuns'
  BY QueueAssumption DEF QueueInv, QueueTypeOK, NoStrandedRow, UnknownNeverRuns,
     RequestCancel, Freed, Row, NoLease
<1> QED BY <1>1, <1>2 DEF QueueInv

(* Each operation keeps the invariant, whoever calls it. *)
LEMMA SmallWritesInv ==
    ASSUME QueueInv,
           \/ \E j \in JobId : Enqueue(j)
           \/ \E j \in JobId : Heartbeat(j)
           \/ \E j \in JobId, d \in Done : Progress(j, d)
           \/ TickLeases
    PROVE  QueueInv'
<1>1. CASE \E j \in JobId : Enqueue(j)
  BY <1>1, QueueAssumption DEF Enqueue, QueueInv, QueueTypeOK, NoStrandedRow,
     UnknownNeverRuns, Row, JobState, OpenState
<1>2. CASE \E j \in JobId : Heartbeat(j)
  BY <1>2, QueueAssumption DEF Heartbeat, QueueInv, QueueTypeOK, NoStrandedRow,
     UnknownNeverRuns, Row, Leases, NoLease
<1>3. CASE \E j \in JobId, d \in Done : Progress(j, d)
  BY <1>3 DEF Progress, QueueInv, QueueTypeOK, NoStrandedRow, UnknownNeverRuns, Row
<1>4. CASE TickLeases
  BY <1>4, QueueAssumption DEF TickLeases, QueueInv, QueueTypeOK, NoStrandedRow,
     UnknownNeverRuns, Row, Leases, NoLease
<1> QED BY <1>1, <1>2, <1>3, <1>4

LEMMA QueueStepInv ==
    ASSUME QueueInv, [QueueNext]_job
    PROVE  QueueInv'
<1>1. CASE UNCHANGED job
  BY <1>1 DEF QueueInv, QueueTypeOK, NoStrandedRow, UnknownNeverRuns
<1>2. CASE AnyClaim
  BY <1>2, ClaimInv, ClaimNothingInv DEF AnyClaim
<1>3. CASE ReclaimExpired
  BY <1>3, ReclaimInv
<1>4. CASE \E j \in JobId : RequestCancel(j)
  BY <1>4, RequestCancelInv
<1>5. CASE \E j \in JobId, outcome \in Ended, e \in Error : Finish(j, outcome, e)
  BY <1>5, FinishInv
<1> QED BY <1>1, <1>2, <1>3, <1>4, <1>5, SmallWritesInv DEF QueueNext

LEMMA QueueInitInv == QueueInit => QueueInv
BY QueueAssumption DEF QueueInit, QueueInv, QueueTypeOK, NoStrandedRow,
   UnknownNeverRuns, Row, JobState, OpenState, NoLease, Done

(* The columns keep their types. *)
THEOREM QueueTypeCorrect == QueueSpec => []QueueTypeOK
<1>1. QueueInit => QueueInv
  BY QueueInitInv
<1>2. QueueInv /\ [QueueNext]_job => QueueInv'
  BY QueueStepInv
<1>3. QueueInv => QueueTypeOK
  BY DEF QueueInv
<1> QED BY <1>1, <1>2, <1>3, PTL DEF QueueSpec

(* No sequence of calls strands a running row without owner or lease, where *)
(* reclaim_expired would never find it.                                     *)
THEOREM NoRowIsStranded == QueueSpec => []NoStrandedRow
<1>1. QueueInit => QueueInv
  BY QueueInitInv
<1>2. QueueInv /\ [QueueNext]_job => QueueInv'
  BY QueueStepInv
<1>3. QueueInv => NoStrandedRow
  BY DEF QueueInv
<1> QED BY <1>1, <1>2, <1>3, PTL DEF QueueSpec

(* The poll loop never meets an unknown kind again. *)
THEOREM UnknownKindsNeverRun == QueueSpec => []UnknownNeverRuns
<1>1. QueueInit => QueueInv
  BY QueueInitInv
<1>2. QueueInv /\ [QueueNext]_job => QueueInv'
  BY QueueStepInv
<1>3. QueueInv => UnknownNeverRuns
  BY DEF QueueInv
<1> QED BY <1>1, <1>2, <1>3, PTL DEF QueueSpec

-----------------------------------------------------------------------------
(* Ended rows: the guarded writes all miss them, _finish replaces one end by *)
(* another.                                                                  *)
LEMMA EndedStays ==
    ASSUME QueueInv, QueueNext, NEW j \in JobId, job[j].state \in Ended
    PROVE  job'[j].state \in Ended /\ job'[j].done = job[j].done
<1>1. job \in [JobId -> Row]
  BY DEF QueueInv, QueueTypeOK
<1>2. CASE \E i \in JobId : Enqueue(i) \/ Heartbeat(i) \/ RequestCancel(i)
  BY <1>1, <1>2 DEF Enqueue, Heartbeat, RequestCancel, Ended, Row
<1>3. CASE AnyClaim
  BY <1>1, <1>3 DEF AnyClaim, Claim, ClaimNothing, Claimable, Unknown, Ended
<1>4. CASE ReclaimExpired
  BY <1>1, <1>4 DEF ReclaimExpired, Lapsed, Running, Ended
<1>5. CASE \E i \in JobId, d \in Done : Progress(i, d)
  BY <1>1, <1>5 DEF Progress, Ended
<1>6. CASE \E i \in JobId, outcome \in Ended, e \in Error : Finish(i, outcome, e)
  BY <1>1, <1>6 DEF Finish, Closed, Freed, Row
<1>7. CASE TickLeases
  BY <1>1, <1>7 DEF TickLeases, Row
<1> QED BY <1>2, <1>3, <1>4, <1>5, <1>6, <1>7 DEF QueueNext

(* An ended job never re-enters the queue and its counters stand still. *)
THEOREM EndedJobsNeverReopen == QueueSpec => EndedNeverReopens
<1>1. QueueInit => QueueInv
  BY QueueInitInv
<1>2. QueueInv /\ [QueueNext]_job => QueueInv'
  BY QueueStepInv
<1>3. QueueInv /\ [QueueNext]_job =>
        [\A j \in JobId : job[j].state \in Ended =>
            job'[j].state \in Ended /\ job'[j].done = job[j].done]_job
  BY EndedStays
<1> QED BY <1>1, <1>2, <1>3, PTL DEF QueueSpec, EndedNeverReopens

-----------------------------------------------------------------------------
(* The worker processes.                                                   *)

(* A loop that is inside a job, or just wrote its outcome, names one. *)
CurOK == \A w \in Worker : Working(w) \/ pc[w] = "ended" => cur[w] \in JobId

TypeInv == QueueInv /\ WorkerTypeOK /\ CurOK

(* What a handler run may hold stays in its type. *)
LEMMA RunStarts == NoRun \in RunState /\ FirstRun \in RunState
<1>1. /\ 0 \in Batch /\ 0 \in Nat /\ 1 \in Nat /\ "failed" \in Ended
      /\ "none" \in Error /\ "unhandled" \in Error
  BY QueueAssumption, WorkerAssumption DEF Batch, Ended
<1> QED BY <1>1 DEF NoRun, FirstRun, RunState

LEMMA RunVerdict ==
    ASSUME NEW r \in RunState, NEW outcome \in Ended, NEW e \in Error
    PROVE  Verdict(r, outcome, e) \in RunState
BY DEF Verdict, RunState

LEMMA RunAgainState ==
    ASSUME NEW r \in RunState
    PROVE  RunOnceMore(r) \in RunState
<1>1. 0 \in Batch /\ r.attempt + 1 \in Nat
  BY QueueAssumption DEF RunState, Batch
<1> QED BY <1>1 DEF RunState, RunOnceMore

LEMMA RunReports ==
    ASSUME NEW r \in RunState, r.batch < MaxDone
    PROVE  OneBatchMore(r) \in RunState
<1>1. r.batch + 1 \in Batch
  BY QueueAssumption DEF RunState, Batch
<1> QED BY <1>1 DEF RunState, OneBatchMore

LEMMA InitTypeInv == WorkerInit => TypeInv
<1> SUFFICES ASSUME WorkerInit PROVE TypeInv
  OBVIOUS
<1>1. QueueInv
  BY QueueInitInv DEF WorkerInit
<1>2. WorkerTypeOK
  BY <1>1, QueueAssumption, RunStarts DEF WorkerInit, QueueInv, WorkerTypeOK, Location,
     InJob, Guarded, Handling, NoClaim, Leases
<1>3. CurOK
  BY DEF WorkerInit, CurOK, Working, InJob, Guarded, Handling
<1> QED BY <1>1, <1>2, <1>3 DEF TypeInv

-----------------------------------------------------------------------------
(* A step of a worker is a step of the table, or leaves it alone. *)

LEMMA LoopOnTable ==
    ASSUME TypeInv, NEW w \in Worker, Loop(w)
    PROVE  [QueueNext]_job
<1>1. CASE Reclaim(w)
  BY <1>1 DEF Reclaim, QueueNext
<1>2. CASE TakeJob(w)
  BY <1>2 DEF TakeJob, QueueNext, AnyClaim, TypeInv, WorkerTypeOK
<1>3. CASE TakeNothing(w)
  BY <1>3, QueueAssumption DEF TakeNothing, QueueNext, AnyClaim, TypeInv,
     WorkerTypeOK, Leases
<1>4. CASE ReadQueued(w) \/ Poll(w) \/ NextJob(w) \/ LeaveLoop(w) \/ Exit(w)
  BY <1>4 DEF ReadQueued, Poll, NextJob, LeaveLoop, Exit, Gone
<1> QED BY <1>1, <1>2, <1>3, <1>4 DEF Loop

LEMMA HandlerOnTable ==
    ASSUME TypeInv, NEW w \in Worker, Handler(w)
    PROVE  [QueueNext]_job
<1>1. CASE Report(w)
  <2>1. cur[w] \in JobId /\ run[w].batch + 1 \in Done
    BY <1>1, QueueAssumption DEF Report, TypeInv, CurOK, Working, InJob, Guarded,
       Handling, WorkerTypeOK, RunState, Batch, Done
  <2> QED BY <1>1, <2>1 DEF Report, QueueNext
<1>2. CASE WriteOutcome(w)
  <2>1. cur[w] \in JobId /\ run[w].outcome \in Ended /\ run[w].error \in Error
    BY <1>2 DEF WriteOutcome, TypeInv, CurOK, Working, InJob, Guarded,
       WorkerTypeOK, RunState
  <2> QED BY <1>2, <2>1 DEF WriteOutcome, QueueNext
<1>3. CASE \/ AskCancel(w) \/ Return(w) \/ RunAgain(w) \/ Mark(w) \/ Settle(w)
           \/ \E e \in Raised : Raise(w, e)
  BY <1>3 DEF AskCancel, Return, RunAgain, Mark, Settle, Raise
<1> QED BY <1>1, <1>2, <1>3 DEF Handler

LEMMA ThreadsOnTable ==
    ASSUME TypeInv, NEW w \in Worker, Threads(w)
    PROVE  [QueueNext]_job
<1> PICK t \in thread[w] : ThreadReport(w, t) \/ ThreadEnds(w, t)
  BY DEF Threads
<1>1. t \in JobId \X Batch
  BY DEF TypeInv, WorkerTypeOK
<1>2. CASE ThreadReport(w, t)
  <2>1. t[1] \in JobId /\ t[2] + 1 \in Done
    BY <1>1, <1>2, QueueAssumption DEF ThreadReport, Batch, Done
  <2> QED BY <1>2, <2>1 DEF ThreadReport, QueueNext
<1>3. CASE ThreadEnds(w, t)
  BY <1>3 DEF ThreadEnds
<1> QED BY <1>2, <1>3

LEMMA StepOnTable ==
    ASSUME TypeInv, [WorkerNext]_vars
    PROVE  [QueueNext]_job
<1>1. CASE UNCHANGED vars
  BY <1>1 DEF vars
<1>2. CASE Client \/ Tick
  BY <1>2 DEF Client, Tick, QueueNext
<1>3. ASSUME NEW w \in Worker,
             \/ Start(w) \/ RequestStop(w) \/ Crash(w) \/ Tasks(w)
      PROVE  [QueueNext]_job
  <2>1. CASE Beat(w)
    <3>1. cur[w] \in JobId
      BY <2>1 DEF Beat, TypeInv, CurOK, Working, InJob
    <3> QED BY <2>1, <3>1 DEF Beat, QueueNext
  <2>2. CASE Start(w) \/ RequestStop(w) \/ Crash(w) \/ BeatRefused(w) \/ Abandon(w)
    BY <2>2 DEF Start, RequestStop, Crash, Gone, BeatRefused, Abandon, LetGo
  <2> QED BY <1>3, <2>1, <2>2 DEF Tasks
<1> QED
  BY <1>1, <1>2, <1>3, LoopOnTable, HandlerOnTable, ThreadsOnTable DEF WorkerNext

-----------------------------------------------------------------------------
(* The types of the worker variables, group by group. *)

LEMMA LoopType ==
    ASSUME TypeInv, QueueInv', NEW w \in Worker, Start(w) \/ Loop(w)
    PROVE  TypeInv'
<1> USE DEF TypeInv, CurOK, WorkerTypeOK, Goto, Location, InJob, Guarded, Handling,
            Working
<1>1. CASE Start(w) \/ Reclaim(w) \/ Poll(w) \/ LeaveLoop(w)
  BY <1>1 DEF QueueInv, Start, Reclaim, Poll, LeaveLoop
<1>2. CASE ReadQueued(w)
  BY <1>2, QueueAssumption DEF QueueInv, ReadQueued, Queued, Leases
<1>3. CASE TakeJob(w)
  BY <1>3, QueueAssumption, RunStarts DEF QueueInv, TakeJob, NoClaim, Leases
<1>4. CASE TakeNothing(w)
  BY <1>4, QueueAssumption DEF QueueInv, TakeNothing, NoClaim, Leases
<1>5. CASE NextJob(w)
  BY <1>5, RunStarts DEF QueueInv, NextJob
<1>6. CASE Exit(w)
  BY <1>6, QueueAssumption, RunStarts DEF QueueInv, Exit, Gone, NoClaim, Leases
<1> QED BY <1>1, <1>2, <1>3, <1>4, <1>5, <1>6 DEF Loop

LEMMA HandlerType ==
    ASSUME TypeInv, QueueInv', NEW w \in Worker, Handler(w)
    PROVE  TypeInv'
<1> USE DEF TypeInv, CurOK, WorkerTypeOK, Goto, Location, InJob, Guarded, Handling,
            Working
<1>1. CASE Report(w)
  BY <1>1, RunReports DEF QueueInv, Report
<1>2. CASE AskCancel(w) \/ Return(w) \/ WriteOutcome(w)
  BY <1>2 DEF QueueInv, AskCancel, Return, WriteOutcome
<1>3. CASE \E e \in Raised : Raise(w, e)
  <2>1. Raised \subseteq Error
    BY WorkerAssumption DEF Raised
  <2> QED BY <1>3, <2>1, RunVerdict DEF QueueInv, Raise, Ended
<1>4. CASE RunAgain(w)
  <2>1. run' \in [Worker -> RunState]
    BY <1>4, RunAgainState DEF RunAgain
  <2> QED BY <1>4, <2>1 DEF QueueInv, RunAgain
<1>5. CASE Mark(w)
  <2>1. run[w].error \in Error /\ cur[w] \in JobId
    BY <1>5 DEF Mark, RunState
  <2>2. noted' \in [JobId -> SUBSET Error]
    BY <1>5, <2>1 DEF Mark
  <2> QED BY <1>5, <2>2 DEF QueueInv, Mark
<1>6. CASE Settle(w)
  <2>1. /\ (IF job[cur[w]].cancel THEN "cancelled" ELSE "succeeded") \in Ended
        /\ "none" \in Error
    BY QueueAssumption DEF Ended
  <2>2. run' \in [Worker -> RunState]
    BY <1>6, <2>1, RunVerdict DEF Settle
  <2> QED BY <1>6, <2>2 DEF QueueInv, Settle
<1> QED BY <1>1, <1>2, <1>3, <1>4, <1>5, <1>6 DEF Handler

LEMMA OtherType ==
    ASSUME TypeInv, QueueInv',
           \/ Client \/ Tick
           \/ \E w \in Worker : Tasks(w) \/ Threads(w) \/ RequestStop(w) \/ Crash(w)
    PROVE  TypeInv'
<1> USE DEF TypeInv, CurOK, WorkerTypeOK, Goto, Location, InJob, Guarded, Handling,
            Working
<1>1. CASE Client
  BY <1>1 DEF QueueInv, Client
<1>2. CASE Tick
  <2>1. claim' \in [Worker -> [ids : SUBSET JobId, ticks : Leases]]
    <3>1. ASSUME NEW w \in Worker
          PROVE  [claim[w] EXCEPT !.ticks = IF claim[w].ticks > 0
                                            THEN claim[w].ticks - 1 ELSE 0]
                   \in [ids : SUBSET JobId, ticks : Leases]
      BY QueueAssumption DEF Leases
    <3> QED BY <1>2, <3>1 DEF Tick
  <2> QED BY <1>2, <2>1 DEF QueueInv, Tick
<1>3. ASSUME NEW w \in Worker, Tasks(w)
      PROVE  TypeInv'
  <2>1. CASE Beat(w)
    BY <2>1 DEF QueueInv, Beat
  <2>2. CASE LetGo(w)
    BY <2>2, RunStarts DEF QueueInv, LetGo, RunState
  <2> QED BY <1>3, <2>1, <2>2 DEF Tasks, BeatRefused, Abandon
<1>4. ASSUME NEW w \in Worker, NEW t \in thread[w], ThreadReport(w, t)
      PROVE  TypeInv'
  <2>1. <<t[1], t[2] + 1>> \in JobId \X Batch
    BY <1>4, QueueAssumption DEF ThreadReport, Batch
  <2>2. thread' \in [Worker -> SUBSET (JobId \X Batch)]
    BY <1>4, <2>1 DEF ThreadReport
  <2> QED BY <1>4, <2>2 DEF QueueInv, ThreadReport
<1>5. ASSUME NEW w \in Worker, NEW t \in thread[w], ThreadEnds(w, t)
      PROVE  TypeInv'
  BY <1>5 DEF QueueInv, ThreadEnds
<1>6. ASSUME NEW w \in Worker, RequestStop(w)
      PROVE  TypeInv'
  BY <1>6 DEF QueueInv, RequestStop
<1>7. ASSUME NEW w \in Worker, Crash(w)
      PROVE  TypeInv'
  BY <1>7, QueueAssumption, RunStarts DEF QueueInv, Crash, Gone, NoClaim, Leases
<1> QED BY <1>1, <1>2, <1>3, <1>4, <1>5, <1>6, <1>7 DEF Threads

LEMMA TypeInvStep == TypeInv /\ [WorkerNext]_vars => TypeInv'
<1> SUFFICES ASSUME TypeInv, [WorkerNext]_vars PROVE TypeInv'
  OBVIOUS
<1>1. QueueInv'
  BY StepOnTable, QueueStepInv DEF TypeInv
<1>2. CASE UNCHANGED vars
  BY <1>1, <1>2 DEF vars, TypeInv, QueueInv, WorkerTypeOK, CurOK, Working
<1> QED BY <1>1, <1>2, LoopType, HandlerType, OtherType DEF WorkerNext

(* Every variable keeps its type, and no process runs a job it cannot name. *)
THEOREM WorkerTypeCorrect == WorkerSpec => []WorkerTypeOK
<1>1. TypeInv => WorkerTypeOK
  BY DEF TypeInv
<1> QED BY <1>1, InitTypeInv, TypeInvStep, PTL DEF WorkerSpec

-----------------------------------------------------------------------------
(* The lease argument.  Nothing in the table's writes names the caller, so  *)
(* that a job has one runner rests on three facts together: a running       *)
(* worker's lease is never down to nothing, a claim in flight still has     *)
(* time on the lease it will write, and threads are left behind only by a   *)
(* worker that is on its way out.                                           *)

LeaseHeld ==
    \A w \in Worker, j \in JobId :
        Runs(w, j) => /\ job[j].state = "running"
                      /\ job[j].worker = w
                      /\ job[j].lease >= 1

ClaimFresh == \A w \in Worker : pc[w] = "claiming" => claim[w].ticks >= 1

ThreadsOnTheWayOut ==
    \A w \in Worker :
        thread[w] # {} => stopping[w] /\ pc[w] \in {"poll", "exiting"}

LeaseInv == TypeInv /\ LeaseHeld /\ ClaimFresh /\ ThreadsOnTheWayOut

LEMMA InitLeaseInv == WorkerInit => LeaseInv
<1> SUFFICES ASSUME WorkerInit PROVE LeaseInv
  OBVIOUS
<1>1. LeaseHeld
  BY DEF WorkerInit, LeaseHeld, Runs, Working, InJob, Guarded, Handling
<1>2. ClaimFresh /\ ThreadsOnTheWayOut
  BY DEF WorkerInit, ClaimFresh, ThreadsOnTheWayOut
<1> QED BY <1>1, <1>2, InitTypeInv DEF LeaseInv

(* The row of a job somebody runs keeps its state, owner and lease. *)
RowKept(j) ==
    /\ job'[j].state = job[j].state
    /\ job'[j].worker = job[j].worker
    /\ job'[j].lease >= 1

(* If no row of a running job is disturbed and nobody starts to run, the     *)
(* argument carries over.                                                    *)
LEMMA KeptIsEnough ==
    ASSUME LeaseInv,
           \A w \in Worker, j \in JobId : Runs(w, j)' => Runs(w, j) /\ RowKept(j)
    PROVE  LeaseHeld'
BY DEF LeaseInv, LeaseHeld, RowKept

(* A row that is not running has no runner. *)
LEMMA NotRunningNotRun ==
    ASSUME LeaseInv, NEW w \in Worker, NEW j \in JobId, Runs(w, j)
    PROVE  job[j].state = "running" /\ job[j].worker = w /\ job[j].lease >= 1
BY DEF LeaseInv, LeaseHeld

LEMMA ClientLease ==
    ASSUME LeaseInv, Client
    PROVE  LeaseHeld' /\ ClaimFresh' /\ ThreadsOnTheWayOut'
<1>1. ASSUME NEW w \in Worker, NEW j \in JobId, Runs(w, j)'
      PROVE  Runs(w, j) /\ RowKept(j)
  <2>1. Runs(w, j)
    BY <1>1 DEF Client, Runs, Working
  <2>2. job[j] \in Row /\ job \in [JobId -> Row] /\ job[j].state = "running"
        /\ job[j].lease >= 1
    BY <2>1, NotRunningNotRun DEF LeaseInv, TypeInv, WorkerTypeOK, QueueTypeOK
  <2>3. job'[j] = job[j] \/ job'[j] = [job[j] EXCEPT !.cancel = TRUE]
    BY <2>2 DEF Client, Enqueue, RequestCancel
  <2>4. RowKept(j)
    BY <2>2, <2>3 DEF RowKept, Row
  <2> QED BY <2>1, <2>4
<1>2. ClaimFresh' /\ ThreadsOnTheWayOut'
  BY DEF Client, LeaseInv, ClaimFresh, ThreadsOnTheWayOut
<1> QED BY <1>1, <1>2, KeptIsEnough

LEMMA TickLease ==
    ASSUME Punctual, LeaseInv, Tick
    PROVE  LeaseHeld' /\ ClaimFresh' /\ ThreadsOnTheWayOut'
<1>1. ASSUME NEW w \in Worker, NEW j \in JobId, Runs(w, j)'
      PROVE  Runs(w, j) /\ RowKept(j)
  <2>1. Runs(w, j)
    BY <1>1 DEF Tick, Runs, Working
  <2>2. ~Due(j)
    BY <2>1 DEF Tick, TickAllowed, Runs
  <2>3. /\ job[j] \in Row /\ job[j].state = "running" /\ job[j].lease >= 1
        /\ job[j].lease # 1
    BY <2>1, <2>2, NotRunningNotRun DEF Due, LeaseInv, TypeInv, WorkerTypeOK, QueueTypeOK
  <2>4. job[j].lease \in Int
    BY <2>3, QueueAssumption DEF Row, Leases, NoLease
  <2>5. job'[j] = [job[j] EXCEPT !.lease = job[j].lease - 1]
    BY <2>3, <2>4 DEF Tick, TickLeases
  <2> QED BY <2>1, <2>3, <2>4, <2>5 DEF RowKept, Row
<1>2. ASSUME NEW w \in Worker, pc'[w] = "claiming"
      PROVE  claim'[w].ticks >= 1
  <2>1. claim[w].ticks > 1 /\ claim[w].ticks \in Int
    BY <1>2, QueueAssumption DEF Tick, TickAllowed, LeaseInv, TypeInv, WorkerTypeOK, Leases
  <2>2. claim'[w] = [claim[w] EXCEPT !.ticks = claim[w].ticks - 1]
    BY <2>1 DEF Tick
  <2>3. claim[w] \in [ids : SUBSET JobId, ticks : Leases]
    BY DEF LeaseInv, TypeInv, WorkerTypeOK
  <2> QED BY <2>1, <2>2, <2>3
<1>3. ThreadsOnTheWayOut'
  BY DEF Tick, LeaseInv, ThreadsOnTheWayOut
<1> QED BY <1>1, <1>2, <1>3, KeptIsEnough DEF ClaimFresh

LEMMA LoopLease ==
    ASSUME LeaseInv, NEW w0 \in Worker, Start(w0) \/ Loop(w0)
    PROVE  LeaseHeld' /\ ClaimFresh' /\ ThreadsOnTheWayOut'
<1>0. /\ job \in [JobId -> Row] /\ pc \in [Worker -> Location]
      /\ cur \in [Worker -> JobId \cup {0}]
      /\ thread \in [Worker -> SUBSET (JobId \X Batch)]
      /\ stopping \in [Worker -> BOOLEAN]
      /\ claim \in [Worker -> [ids : SUBSET JobId, ticks : Leases]]
  BY DEF LeaseInv, TypeInv, WorkerTypeOK, QueueTypeOK
<1>1. CASE Start(w0) \/ Poll(w0) \/ LeaveLoop(w0) \/ NextJob(w0) \/ Exit(w0)
  <2>1. ASSUME NEW w \in Worker, NEW j \in JobId, Runs(w, j)'
        PROVE  Runs(w, j) /\ RowKept(j)
    <3>1. Runs(w, j)
      BY <1>0, <1>1, <2>1 DEF Start, Poll, LeaveLoop, NextJob, Exit, Gone, Goto, Runs,
         Working, InJob, Guarded, Handling
    <3>2. job' = job
      BY <1>1 DEF Start, Poll, LeaveLoop, NextJob, Exit, Gone
    <3> QED BY <3>1, <3>2, NotRunningNotRun DEF RowKept
  <2>2. ClaimFresh' /\ ThreadsOnTheWayOut'
    BY <1>0, <1>1 DEF Start, Poll, LeaveLoop, NextJob, Exit, Gone, Goto, LeaseInv,
       ClaimFresh, ThreadsOnTheWayOut
  <2> QED BY <2>1, <2>2, KeptIsEnough
<1>2. CASE Reclaim(w0)
  <2>1. ASSUME NEW w \in Worker, NEW j \in JobId, Runs(w, j)'
        PROVE  Runs(w, j) /\ RowKept(j)
    <3>1. Runs(w, j)
      BY <1>0, <1>2, <2>1 DEF Reclaim, Goto, Runs, Working, InJob, Guarded, Handling
    <3>2. j \notin Lapsed
      BY <3>1, NotRunningNotRun DEF Lapsed
    <3>3. job'[j] = job[j]
      BY <1>2, <3>2 DEF Reclaim, ReclaimExpired
    <3> QED BY <3>1, <3>3, NotRunningNotRun DEF RowKept
  <2>2. ClaimFresh' /\ ThreadsOnTheWayOut'
    BY <1>0, <1>2 DEF Reclaim, Goto, LeaseInv, ClaimFresh, ThreadsOnTheWayOut
  <2> QED BY <2>1, <2>2, KeptIsEnough
<1>3. CASE ReadQueued(w0)
  <2>1. ASSUME NEW w \in Worker, NEW j \in JobId, Runs(w, j)'
        PROVE  Runs(w, j) /\ RowKept(j)
    <3>1. Runs(w, j)
      BY <1>0, <1>3, <2>1 DEF ReadQueued, Goto, Runs, Working, InJob, Guarded, Handling
    <3> QED BY <1>3, <3>1, NotRunningNotRun DEF ReadQueued, RowKept
  <2>2. ClaimFresh' /\ ThreadsOnTheWayOut'
    BY <1>0, <1>3, QueueAssumption DEF ReadQueued, Goto, LeaseInv, ClaimFresh,
       ThreadsOnTheWayOut
  <2> QED BY <2>1, <2>2, KeptIsEnough
<1>4. CASE TakeNothing(w0)
  <2>1. ASSUME NEW w \in Worker, NEW j \in JobId, Runs(w, j)'
        PROVE  Runs(w, j) /\ RowKept(j)
    <3>1. Runs(w, j)
      BY <1>0, <1>4, <2>1 DEF TakeNothing, Goto, Runs, Working, InJob, Guarded, Handling
    <3>2. job'[j] = job[j]
      BY <1>4, <3>1, NotRunningNotRun DEF TakeNothing, ClaimNothing, Unknown
    <3> QED BY <3>1, <3>2, NotRunningNotRun DEF RowKept
  <2>2. ClaimFresh' /\ ThreadsOnTheWayOut'
    BY <1>0, <1>4 DEF TakeNothing, Goto, LeaseInv, ClaimFresh, ThreadsOnTheWayOut
  <2> QED BY <2>1, <2>2, KeptIsEnough
<1>5. CASE TakeJob(w0)
  <2> PICK j0 \in JobId :
        /\ Claim(w0, claim[w0].ids, claim[w0].ticks, j0)
        /\ cur' = [cur EXCEPT ![w0] = j0]
    BY <1>5 DEF TakeJob
  <2>1. job[j0].state = "queued" /\ job'[j0] = Held(job[j0], w0, claim[w0].ticks)
    BY DEF Claim, Claimable
  <2>2. claim[w0].ticks >= 1 /\ claim[w0].ticks \in Leases
    BY <1>0, <1>5 DEF TakeJob, LeaseInv, ClaimFresh
  <2>3. /\ job'[j0].state = "running" /\ job'[j0].worker = w0
        /\ job'[j0].lease >= 1
    BY <1>0, <2>1, <2>2 DEF Held, Row
  <2>4. ASSUME NEW w \in Worker, NEW j \in JobId, Runs(w, j)', j # j0
        PROVE  Runs(w, j) /\ RowKept(j)
    <3>1. Runs(w, j)
      BY <1>0, <1>5, <2>4 DEF TakeJob, Goto, Runs, Working
    <3>2. job'[j] = job[j]
      BY <2>4, <3>1, NotRunningNotRun DEF Claim, Unknown
    <3> QED BY <3>1, <3>2, NotRunningNotRun DEF RowKept
  <2>5. ASSUME NEW w \in Worker, Runs(w, j0)'
        PROVE  w = w0
    <3>1. ~Runs(w, j0)
      BY <2>1, NotRunningNotRun
    <3> QED BY <1>0, <1>5, <2>5, <3>1 DEF TakeJob, Goto, Runs, Working
  <2>6. LeaseHeld'
    BY <2>3, <2>4, <2>5, NotRunningNotRun DEF LeaseHeld, RowKept
  <2>7. ClaimFresh' /\ ThreadsOnTheWayOut'
    BY <1>0, <1>5 DEF TakeJob, Goto, LeaseInv, ClaimFresh, ThreadsOnTheWayOut
  <2> QED BY <2>6, <2>7
<1> QED BY <1>1, <1>2, <1>3, <1>4, <1>5 DEF Loop

LEMMA HandlerLease ==
    ASSUME LeaseInv, NEW w0 \in Worker, Handler(w0)
    PROVE  LeaseHeld' /\ ClaimFresh' /\ ThreadsOnTheWayOut'
<1>0. /\ job \in [JobId -> Row] /\ pc \in [Worker -> Location]
      /\ CurOK /\ QueueInv
  BY DEF LeaseInv, TypeInv, WorkerTypeOK, QueueTypeOK
<1>1. CASE WriteOutcome(w0)
  <2>1. cur[w0] \in JobId /\ Runs(w0, cur[w0]) /\ thread[w0] = {}
    BY <1>0, <1>1 DEF WriteOutcome, CurOK, Runs, Working, InJob, Guarded, LeaseInv,
       ThreadsOnTheWayOut
  <2>2. ASSUME NEW w \in Worker, NEW j \in JobId, Runs(w, j)'
        PROVE  Runs(w, j) /\ RowKept(j)
    <3>1. Runs(w, j) /\ w # w0
      BY <1>0, <1>1, <2>1, <2>2 DEF WriteOutcome, Goto, Runs, Working, InJob, Guarded,
         Handling
    <3>2. j # cur[w0]
      BY <2>1, <3>1, NotRunningNotRun
    <3>3. job'[j] = job[j]
      BY <1>0, <1>1, <3>2 DEF WriteOutcome, Finish
    <3> QED BY <3>1, <3>3, NotRunningNotRun DEF RowKept
  <2>3. ClaimFresh' /\ ThreadsOnTheWayOut'
    BY <1>0, <1>1, <2>1 DEF WriteOutcome, Goto, LeaseInv, ClaimFresh, ThreadsOnTheWayOut
  <2> QED BY <2>2, <2>3, KeptIsEnough
<1>2. CASE Report(w0)
  <2>1. ASSUME NEW w \in Worker, NEW j \in JobId, Runs(w, j)'
        PROVE  Runs(w, j) /\ RowKept(j)
    <3>1. Runs(w, j)
      BY <1>0, <1>2, <2>1 DEF Report, Goto, Runs, Working, InJob, Guarded, Handling
    <3>2. /\ job'[j].state = job[j].state /\ job'[j].worker = job[j].worker
          /\ job'[j].lease = job[j].lease
      BY <1>0, <1>2 DEF Report, Progress, Row
    <3> QED BY <3>1, <3>2, NotRunningNotRun DEF RowKept
  <2>2. ClaimFresh' /\ ThreadsOnTheWayOut'
    BY <1>0, <1>2 DEF Report, Goto, LeaseInv, ClaimFresh, ThreadsOnTheWayOut
  <2> QED BY <2>1, <2>2, KeptIsEnough
<1>3. CASE \/ AskCancel(w0) \/ Return(w0) \/ RunAgain(w0) \/ Mark(w0) \/ Settle(w0)
           \/ \E e \in Raised : Raise(w0, e)
  <2>1. /\ UNCHANGED <<job, cur, claim, stopping, thread>>
        /\ pc[w0] \in InJob \ {"unhandled"}
        /\ \E label \in InJob : pc' = [pc EXCEPT ![w0] = label]
    BY <1>3 DEF AskCancel, Return, RunAgain, Mark, Settle, Raise, Goto, InJob, Guarded,
       Handling
  <2>2. ASSUME NEW w \in Worker, NEW j \in JobId, Runs(w, j)'
        PROVE  Runs(w, j) /\ RowKept(j)
    <3>1. Runs(w, j)
      BY <1>0, <2>1, <2>2 DEF Runs, Working
    <3> QED BY <2>1, <3>1, NotRunningNotRun DEF RowKept
  <2>3. ClaimFresh' /\ ThreadsOnTheWayOut'
    BY <1>0, <2>1 DEF LeaseInv, ClaimFresh, ThreadsOnTheWayOut, InJob, Guarded, Handling
  <2> QED BY <2>2, <2>3, KeptIsEnough
<1> QED BY <1>1, <1>2, <1>3 DEF Handler

LEMMA TasksLease ==
    ASSUME LeaseInv, NEW w0 \in Worker, Tasks(w0)
    PROVE  LeaseHeld' /\ ClaimFresh' /\ ThreadsOnTheWayOut'
<1>0. /\ job \in [JobId -> Row] /\ pc \in [Worker -> Location] /\ CurOK
      /\ cur \in [Worker -> JobId \cup {0}]
      /\ thread \in [Worker -> SUBSET (JobId \X Batch)]
      /\ stopping \in [Worker -> BOOLEAN]
  BY DEF LeaseInv, TypeInv, WorkerTypeOK, QueueTypeOK
<1>1. CASE Beat(w0)
  <2>1. ASSUME NEW w \in Worker, NEW j \in JobId, Runs(w, j)'
        PROVE  Runs(w, j) /\ RowKept(j)
    <3>1. Runs(w, j)
      BY <1>1, <2>1 DEF Beat, Runs, Working
    <3>2. job'[j] = job[j] \/ job'[j] = [job[j] EXCEPT !.lease = Lease]
      BY <1>0, <1>1 DEF Beat, Heartbeat
    <3>3. job[j] \in Row
      BY <1>0
    <3> QED BY <3>1, <3>2, <3>3, NotRunningNotRun, QueueAssumption DEF RowKept, Row
  <2>2. ClaimFresh' /\ ThreadsOnTheWayOut'
    BY <1>1 DEF Beat, LeaseInv, ClaimFresh, ThreadsOnTheWayOut
  <2> QED BY <2>1, <2>2, KeptIsEnough
<1>2. CASE BeatRefused(w0) \/ Abandon(w0)
  <2>1. LetGo(w0)
    BY <1>2 DEF BeatRefused, Abandon
  <2>2. pc[w0] \in Guarded => Runs(w0, cur[w0]) /\ cur[w0] \in JobId
    BY <1>0 DEF Runs, Working, InJob, CurOK
  <2>3. ASSUME NEW w \in Worker, NEW j \in JobId, Runs(w, j)'
        PROVE  Runs(w, j) /\ RowKept(j)
    <3>1. Runs(w, j)
      <4>1. CASE w # w0
        BY <1>0, <2>1, <2>3, <4>1 DEF LetGo, Goto, Runs, Working
      <4>2. CASE w = w0
        <5>1. \E t \in thread'[w0] : t[1] = j
          BY <1>0, <2>1, <2>3, <4>2 DEF LetGo, Goto, Runs, Working, InJob, Guarded, Handling
        <5>2. CASE \E t \in thread[w0] : t[1] = j
          BY <4>2, <5>2 DEF Runs
        <5>3. CASE pc[w0] \in Handling /\ cur[w0] = j
          BY <4>2, <5>3 DEF Runs, Working, InJob, Guarded
        <5> QED BY <1>0, <2>1, <5>1, <5>2, <5>3 DEF LetGo
      <4> QED BY <4>1, <4>2
    <3> QED BY <2>1, <3>1, NotRunningNotRun DEF LetGo, RowKept
  <2>4. ASSUME pc[w0] \in Guarded
        PROVE  stopping[w0]
    <3>1. job[cur[w0]].state = "running"
      BY <2>2, <2>4, NotRunningNotRun
    <3> QED BY <1>2, <3>1 DEF BeatRefused, Abandon
  <2>5. ClaimFresh'
    BY <1>0, <2>1 DEF LetGo, Goto, LeaseInv, ClaimFresh
  <2>6. ThreadsOnTheWayOut'
    <3>1. ASSUME NEW w \in Worker, thread'[w] # {}
          PROVE  stopping'[w] /\ pc'[w] \in {"poll", "exiting"}
      <4>1. CASE w # w0
        BY <1>0, <2>1, <3>1, <4>1 DEF LetGo, Goto, LeaseInv, ThreadsOnTheWayOut
      <4>2. CASE w = w0
        <5>1. pc[w0] \in Handling \/ thread[w0] # {}
          BY <1>0, <2>1, <3>1, <4>2 DEF LetGo
        <5>2. stopping[w0]
          BY <2>4, <5>1 DEF LeaseInv, ThreadsOnTheWayOut, Guarded
        <5> QED BY <1>0, <2>1, <4>2, <5>2 DEF LetGo, Goto
      <4> QED BY <4>1, <4>2
    <3> QED BY <3>1 DEF ThreadsOnTheWayOut
  <2> QED BY <2>3, <2>5, <2>6, KeptIsEnough
<1> QED BY <1>1, <1>2 DEF Tasks

LEMMA ThreadsLease ==
    ASSUME LeaseInv, NEW w0 \in Worker, Threads(w0)
    PROVE  LeaseHeld' /\ ClaimFresh' /\ ThreadsOnTheWayOut'
<1>0. /\ job \in [JobId -> Row]
      /\ thread \in [Worker -> SUBSET (JobId \X Batch)]
  BY DEF LeaseInv, TypeInv, WorkerTypeOK, QueueTypeOK
<1> PICK t \in thread[w0] : ThreadReport(w0, t) \/ ThreadEnds(w0, t)
  BY DEF Threads
<1>1. /\ UNCHANGED <<pc, cur, claim, stopping>>
      /\ \A w \in Worker \ {w0} : thread'[w] = thread[w]
      /\ \A u \in thread'[w0] : u \in thread[w0] \/ u[1] = t[1]
  BY <1>0 DEF ThreadReport, ThreadEnds
<1>2. \A j \in JobId : /\ job'[j].state = job[j].state
                        /\ job'[j].worker = job[j].worker
                        /\ job'[j].lease = job[j].lease
  BY <1>0 DEF ThreadReport, ThreadEnds, Progress, Row
<1>3. ASSUME NEW w \in Worker, NEW j \in JobId, Runs(w, j)'
      PROVE  Runs(w, j) /\ RowKept(j)
  <2>1. Runs(w, j)
    BY <1>1, <1>3 DEF Runs, Working
  <2> QED BY <1>2, <2>1, NotRunningNotRun DEF RowKept
<1>4. ClaimFresh' /\ ThreadsOnTheWayOut'
  BY <1>0, <1>1 DEF LeaseInv, ClaimFresh, ThreadsOnTheWayOut
<1> QED BY <1>3, <1>4, KeptIsEnough

LEMMA FaultLease ==
    ASSUME LeaseInv, NEW w0 \in Worker, RequestStop(w0) \/ Crash(w0)
    PROVE  LeaseHeld' /\ ClaimFresh' /\ ThreadsOnTheWayOut'
<1>0. /\ pc \in [Worker -> Location] /\ stopping \in [Worker -> BOOLEAN]
      /\ thread \in [Worker -> SUBSET (JobId \X Batch)]
      /\ cur \in [Worker -> JobId \cup {0}]
  BY DEF LeaseInv, TypeInv, WorkerTypeOK
<1>1. ASSUME NEW w \in Worker, NEW j \in JobId, Runs(w, j)'
      PROVE  Runs(w, j) /\ RowKept(j)
  <2>1. Runs(w, j)
    BY <1>0, <1>1 DEF RequestStop, Crash, Gone, Goto, Runs, Working, InJob, Guarded, Handling
  <2> QED BY <2>1, NotRunningNotRun DEF RequestStop, Crash, Gone, RowKept
<1>2. CASE RequestStop(w0)
  BY <1>0, <1>1, <1>2, KeptIsEnough DEF RequestStop, LeaseInv, ClaimFresh,
     ThreadsOnTheWayOut
<1>3. CASE Crash(w0)
  <2>1. ClaimFresh'
    BY <1>0, <1>3 DEF Crash, Gone, Goto, LeaseInv, ClaimFresh
  <2>2. ThreadsOnTheWayOut'
    BY <1>0, <1>3 DEF Crash, Gone, Goto, LeaseInv, ThreadsOnTheWayOut
  <2> QED BY <1>1, <2>1, <2>2, KeptIsEnough
<1> QED BY <1>2, <1>3

LEMMA LeaseInvStep ==
    ASSUME Punctual, LeaseInv, [WorkerNext]_vars
    PROVE  LeaseInv'
<1>1. TypeInv'
  BY TypeInvStep DEF LeaseInv
<1>2. CASE UNCHANGED vars
  BY <1>1, <1>2 DEF vars, LeaseInv, LeaseHeld, ClaimFresh, ThreadsOnTheWayOut, Runs, Working
<1> QED
  BY <1>1, <1>2, ClientLease, TickLease, LoopLease, HandlerLease, TasksLease,
     ThreadsLease, FaultLease DEF WorkerNext, LeaseInv

(* With leases kept, a job is worked on by at most the one process its row   *)
(* names, threads left behind included.                                      *)
THEOREM OneRunnerHolds ==
    ASSUME Punctual
    PROVE  WorkerSpec => []OneRunner
<1>1. LeaseInv => OneRunner
  BY DEF LeaseInv, LeaseHeld, OneRunner
<1>2. LeaseInv /\ [WorkerNext]_vars => LeaseInv'
  BY LeaseInvStep
<1> QED BY <1>1, <1>2, InitLeaseInv, PTL DEF WorkerSpec

-----------------------------------------------------------------------------
(* Every write to an ended row is guarded away, except _finish; and whoever  *)
(* calls _finish is running the job, so its row has not ended.               *)
LEMMA EndedUntouched ==
    ASSUME LeaseInv, WorkerNext, NEW j \in JobId, job[j].state \in Ended
    PROVE  job'[j] = job[j]
<1>0. job \in [JobId -> Row] /\ job[j].state # "running" /\ job[j].state # "queued"
      /\ job[j].state # "absent" /\ job[j].lease = NoLease
  BY DEF LeaseInv, TypeInv, WorkerTypeOK, QueueTypeOK, QueueInv, NoStrandedRow, Ended
<1>1. CASE Client \/ Tick
  BY <1>0, <1>1 DEF Client, Enqueue, RequestCancel, Tick, TickLeases, NoLease
<1>2. ASSUME NEW w \in Worker, Loop(w)
      PROVE  job'[j] = job[j]
  <2>1. CASE Reclaim(w)
    BY <1>0, <2>1 DEF Reclaim, ReclaimExpired, Lapsed, Running
  <2>2. CASE TakeJob(w)
    BY <1>0, <2>2 DEF TakeJob, Claim, Claimable, Unknown
  <2>3. CASE TakeNothing(w)
    BY <1>0, <2>3 DEF TakeNothing, ClaimNothing, Unknown
  <2>4. CASE ReadQueued(w) \/ Poll(w) \/ NextJob(w) \/ LeaveLoop(w) \/ Exit(w)
    BY <2>4 DEF ReadQueued, Poll, NextJob, LeaveLoop, Exit, Gone
  <2> QED BY <1>2, <2>1, <2>2, <2>3, <2>4 DEF Loop
<1>3. ASSUME NEW w \in Worker, Handler(w)
      PROVE  job'[j] = job[j]
  <2>1. CASE Report(w)
    BY <1>0, <2>1 DEF Report, Progress
  <2>2. CASE WriteOutcome(w)
    <3>1. cur[w] \in JobId /\ Runs(w, cur[w])
      BY <2>2 DEF WriteOutcome, LeaseInv, TypeInv, CurOK, Runs, Working, InJob, Guarded
    <3>2. j # cur[w]
      BY <1>0, <3>1, NotRunningNotRun
    <3> QED BY <1>0, <2>2, <3>2 DEF WriteOutcome, Finish
  <2>3. CASE \/ AskCancel(w) \/ Return(w) \/ RunAgain(w) \/ Mark(w) \/ Settle(w)
             \/ \E e \in Raised : Raise(w, e)
    BY <2>3 DEF AskCancel, Return, RunAgain, Mark, Settle, Raise
  <2> QED BY <1>3, <2>1, <2>2, <2>3 DEF Handler
<1>4. ASSUME NEW w \in Worker,
             Start(w) \/ Tasks(w) \/ RequestStop(w) \/ Crash(w)
      PROVE  job'[j] = job[j]
  BY <1>0, <1>4 DEF Start, Tasks, Beat, Heartbeat, BeatRefused, Abandon, LetGo,
     RequestStop, Crash, Gone
<1>5. ASSUME NEW w \in Worker, Threads(w)
      PROVE  job'[j] = job[j]
  BY <1>0, <1>5 DEF Threads, ThreadReport, ThreadEnds, Progress
<1> QED BY <1>1, <1>2, <1>3, <1>4, <1>5 DEF WorkerNext

(* With leases kept, no late outcome and no late report touches an ended job. *)
THEOREM EndedJobsAreFinal ==
    ASSUME Punctual
    PROVE  WorkerSpec => EndedIsFinal
<1>1. LeaseInv /\ [WorkerNext]_vars => LeaseInv'
  BY LeaseInvStep
<1>2. LeaseInv /\ [WorkerNext]_vars =>
        [\A j \in JobId : job[j].state \in Ended => job'[j] = job[j]]_vars
  BY EndedUntouched
<1> QED BY <1>1, <1>2, InitLeaseInv, PTL DEF WorkerSpec, EndedIsFinal

-----------------------------------------------------------------------------
(* The notes a failed job owes: held whether or not leases are kept.         *)

NotesWritten ==
    \A w \in Worker :
        /\ /\ pc[w] = "fail" /\ run[w].error \in {"auth", "permanent"}
           /\ job[cur[w]].kind \in MailboxKinds
           => run[w].error \in noted[cur[w]]
        /\ pc[w] = "finish" => run[w].error = "none"
        /\ pc[w] = "unhandled" => run[w].error = "unhandled"

NotesInv == TypeInv /\ NotesWritten /\ FailureIsAccounted

(* A row's kind never changes, and its error only with an outcome or a claim. *)
LEMMA KindAndError ==
    ASSUME TypeInv, WorkerNext, NEW j \in JobId
    PROVE  /\ job'[j].kind = job[j].kind
           /\ \/ job'[j].error = job[j].error /\ (job'[j].state = "failed" => job[j].state = "failed")
              \/ job'[j].error \in {"none", "unknown_kind"}
              \/ \E w \in Worker : WriteOutcome(w) /\ cur[w] = j
<1>0. job \in [JobId -> Row] /\ CurOK
  BY DEF TypeInv, WorkerTypeOK, QueueTypeOK
<1>1. CASE Client \/ Tick
  <2>0. job[j] \in Row
    BY <1>0
  <2>1. CASE \E i \in JobId : Enqueue(i)
    BY <1>0, <2>0, <2>1 DEF Enqueue, Row
  <2>2. CASE \E i \in JobId : RequestCancel(i)
    <3>1. \/ job'[j] = job[j]
          \/ job'[j] = [job[j] EXCEPT !.cancel = TRUE]
          \/ job'[j] = [Freed(job[j], "cancelled") EXCEPT !.cancel = TRUE]
      BY <1>0, <2>2 DEF RequestCancel
    <3>2. Freed(job[j], "cancelled") \in Row
      BY <2>0, FreedRow DEF JobState, Ended
    <3>3. /\ Freed(job[j], "cancelled").kind = job[j].kind
          /\ Freed(job[j], "cancelled").error = job[j].error
          /\ Freed(job[j], "cancelled").state = "cancelled"
      BY <2>0 DEF Freed, Row
    <3> QED BY <2>0, <3>1, <3>2, <3>3 DEF Row
  <2>3. CASE Tick
    <3>1. \/ job'[j] = job[j]
          \/ job'[j] = [job[j] EXCEPT !.lease = job[j].lease - 1]
      BY <2>3 DEF Tick, TickLeases
    <3> QED BY <2>0, <3>1 DEF Row
  <2> QED BY <1>1, <2>1, <2>2, <2>3 DEF Client
<1>2. ASSUME NEW w \in Worker, Loop(w)
      PROVE  /\ job'[j].kind = job[j].kind
             /\ \/ job'[j].error = job[j].error /\ (job'[j].state = "failed" => job[j].state = "failed")
                \/ job'[j].error \in {"none", "unknown_kind"}
  <2>1. CASE Reclaim(w)
    BY <1>0, <2>1 DEF Reclaim, ReclaimExpired, Freed, Row
  <2>2. CASE TakeJob(w)
    <3>0. job[j] \in Row
      BY <1>0
    <3>1. \/ job'[j] = job[j]
          \/ job'[j] = Held(job[j], w, claim[w].ticks)
          \/ job'[j] = Refused(job[j])
      BY <2>2 DEF TakeJob, Claim
    <3>2. /\ Held(job[j], w, claim[w].ticks).kind = job[j].kind
          /\ Held(job[j], w, claim[w].ticks).error = "none"
      BY <3>0 DEF Held, Row
    <3>3. Refused(job[j]).kind = job[j].kind /\ Refused(job[j]).error = "unknown_kind"
      BY <3>0 DEF Refused, Closed, Freed, Row
    <3> QED BY <3>1, <3>2, <3>3
  <2>3. CASE TakeNothing(w)
    BY <1>0, <2>3 DEF TakeNothing, ClaimNothing, Refused, Closed, Freed, Row
  <2>4. CASE ReadQueued(w) \/ Poll(w) \/ NextJob(w) \/ LeaveLoop(w) \/ Exit(w)
    BY <2>4 DEF ReadQueued, Poll, NextJob, LeaveLoop, Exit, Gone
  <2> QED BY <1>2, <2>1, <2>2, <2>3, <2>4 DEF Loop
<1>3. ASSUME NEW w \in Worker, Handler(w)
      PROVE  /\ job'[j].kind = job[j].kind
             /\ \/ job'[j].error = job[j].error /\ (job'[j].state = "failed" => job[j].state = "failed")
                \/ WriteOutcome(w) /\ cur[w] = j
  <2>1. CASE Report(w)
    BY <1>0, <2>1 DEF Report, Progress, Row
  <2>2. CASE WriteOutcome(w)
    BY <1>0, <2>2 DEF WriteOutcome, Finish, Closed, Freed, Row
  <2>3. CASE \/ AskCancel(w) \/ Return(w) \/ RunAgain(w) \/ Mark(w) \/ Settle(w)
             \/ \E e \in Raised : Raise(w, e)
    BY <2>3 DEF AskCancel, Return, RunAgain, Mark, Settle, Raise
  <2> QED BY <1>3, <2>1, <2>2, <2>3 DEF Handler
<1>4. ASSUME NEW w \in Worker,
             Start(w) \/ Tasks(w) \/ RequestStop(w) \/ Crash(w) \/ Threads(w)
      PROVE  /\ job'[j].kind = job[j].kind /\ job'[j].error = job[j].error
             /\ job'[j].state = job[j].state
  <2>0. job[j] \in Row
    BY <1>0
  <2>1. CASE Threads(w)
    <3> PICK t \in thread[w] : ThreadReport(w, t) \/ ThreadEnds(w, t)
      BY <2>1 DEF Threads
    <3>1. job'[j] = job[j] \/ job'[j] = [job[j] EXCEPT !.done = t[2] + 1]
      BY <1>0 DEF ThreadReport, ThreadEnds, Progress
    <3> QED BY <2>0, <3>1 DEF Row
  <2>2. CASE Start(w) \/ Tasks(w) \/ RequestStop(w) \/ Crash(w)
    <3>1. job'[j] = job[j] \/ job'[j] = [job[j] EXCEPT !.lease = Lease]
      BY <1>0, <2>2 DEF Start, Tasks, Beat, Heartbeat, BeatRefused, Abandon, LetGo,
         RequestStop, Crash, Gone
    <3> QED BY <2>0, <3>1 DEF Row
  <2> QED BY <1>4, <2>1, <2>2
<1> QED BY <1>1, <1>2, <1>3, <1>4 DEF WorkerNext

LEMMA NotesGrow ==
    ASSUME TypeInv, WorkerNext, NEW j \in JobId
    PROVE  noted[j] \subseteq noted'[j]
<1>1. ASSUME NEW w \in Worker, Mark(w)
      PROVE  noted[j] \subseteq noted'[j]
  BY <1>1 DEF Mark, TypeInv, WorkerTypeOK
<1>2. CASE noted' = noted
  BY <1>2
<1> QED
  BY <1>1, <1>2 DEF WorkerNext, Client, Tick, Start, Loop, Reclaim, ReadQueued, TakeJob,
     TakeNothing, Poll, NextJob, LeaveLoop, Exit, Gone, Handler, Report, AskCancel,
     Return, Raise, RunAgain, Settle, WriteOutcome, Tasks, Beat, BeatRefused, Abandon,
     LetGo, Threads, ThreadReport, ThreadEnds, RequestStop, Crash

(* What a worker on its way to an outcome owes is kept by its own steps ...  *)
LEMMA OwnNotes ==
    ASSUME NotesInv, NEW w \in Worker, Start(w) \/ Loop(w) \/ Handler(w) \/ Tasks(w)
                                      \/ RequestStop(w) \/ Crash(w)
    PROVE  /\ pc'[w] = "fail" =>
                \/ run'[w].error \notin {"auth", "permanent"}
                \/ pc[w] = "mark" /\ Mark(w)
                \/ pc[w] = "fail" /\ run'[w] = run[w] /\ cur'[w] = cur[w]
           /\ pc'[w] = "finish" => run'[w].error = "none"
           /\ pc'[w] = "unhandled" => run'[w].error = "unhandled"
<1>0. /\ pc \in [Worker -> Location] /\ run \in [Worker -> RunState]
  BY DEF NotesInv, TypeInv, WorkerTypeOK
<1> USE DEF Goto
<1>1. CASE Start(w) \/ Loop(w)
  BY <1>0, <1>1 DEF Start, Loop, Reclaim, ReadQueued, TakeJob, TakeNothing, Poll, NextJob,
     LeaveLoop, Exit, Gone, FirstRun
<1>2. CASE Mark(w)
  BY <1>0, <1>2 DEF Mark
<1>3. CASE \E e \in Raised : Raise(w, e)
  <2> PICK e \in Raised : Raise(w, e)
    BY <1>3
  <2>1. run'[w].error = e
    BY <1>0 DEF Raise, Verdict, RunState
  <2> QED BY <1>0, <2>1 DEF Raise
<1>4. CASE Settle(w)
  <2>1. run'[w].error = "none"
    BY <1>0, <1>4 DEF Settle, Verdict, RunState
  <2> QED BY <1>0, <1>4, <2>1 DEF Settle
<1>5. CASE Report(w) \/ AskCancel(w) \/ Return(w) \/ RunAgain(w) \/ WriteOutcome(w)
  BY <1>0, <1>5 DEF Report, AskCancel, Return, RunAgain, WriteOutcome
<1>6. CASE Tasks(w) \/ RequestStop(w) \/ Crash(w)
  BY <1>0, <1>6 DEF Tasks, Beat, BeatRefused, Abandon, LetGo, RequestStop, Crash, Gone,
     NotesInv, NotesWritten
<1> QED BY <1>1, <1>2, <1>3, <1>4, <1>5, <1>6 DEF Handler

(* ... and not disturbed by anybody else's. *)
LEMMA OthersLeaveMine ==
    ASSUME TypeInv, NEW w \in Worker, WorkerNext,
           ~(Start(w) \/ Loop(w) \/ Handler(w) \/ Tasks(w) \/ RequestStop(w) \/ Crash(w))
    PROVE  pc'[w] = pc[w] /\ run'[w] = run[w] /\ cur'[w] = cur[w]
<1>0. /\ pc \in [Worker -> Location] /\ run \in [Worker -> RunState]
      /\ cur \in [Worker -> JobId \cup {0}]
  BY DEF TypeInv, WorkerTypeOK
<1> USE DEF Goto
<1>1. CASE Client \/ Tick
  BY <1>1 DEF Client, Tick
<1>2. ASSUME NEW v \in Worker, v # w, Start(v) \/ Loop(v)
      PROVE  pc'[w] = pc[w] /\ run'[w] = run[w] /\ cur'[w] = cur[w]
  BY <1>0, <1>2 DEF Start, Loop, Reclaim, ReadQueued, TakeJob, TakeNothing, Poll, NextJob,
     LeaveLoop, Exit, Gone
<1>3. ASSUME NEW v \in Worker, v # w, Handler(v)
      PROVE  pc'[w] = pc[w] /\ run'[w] = run[w] /\ cur'[w] = cur[w]
  BY <1>0, <1>3 DEF Handler, Report, AskCancel, Return, Raise, RunAgain, Mark, Settle,
     WriteOutcome
<1>4. ASSUME NEW v \in Worker, v # w, Tasks(v) \/ RequestStop(v) \/ Crash(v)
      PROVE  pc'[w] = pc[w] /\ run'[w] = run[w] /\ cur'[w] = cur[w]
  BY <1>0, <1>4 DEF Tasks, Beat, BeatRefused, Abandon, LetGo, RequestStop, Crash, Gone
<1>5. ASSUME NEW v \in Worker, Threads(v)
      PROVE  pc'[w] = pc[w] /\ run'[w] = run[w] /\ cur'[w] = cur[w]
  BY <1>5 DEF Threads, ThreadReport, ThreadEnds
<1> QED BY <1>1, <1>2, <1>3, <1>4, <1>5 DEF WorkerNext

LEMMA NotesInvStep ==
    ASSUME NotesInv, [WorkerNext]_vars
    PROVE  NotesInv'
<1>1. TypeInv /\ TypeInv'
  BY TypeInvStep DEF NotesInv
<1>2. CASE UNCHANGED vars
  BY <1>1, <1>2 DEF vars, NotesInv, NotesWritten, FailureIsAccounted
<1>3. CASE WorkerNext
  <2>1. ASSUME NEW w \in Worker
        PROVE  /\ pc'[w] = "fail" =>
                    \/ run'[w].error \notin {"auth", "permanent"}
                    \/ pc[w] = "mark" /\ Mark(w)
                    \/ pc[w] = "fail" /\ run'[w] = run[w] /\ cur'[w] = cur[w]
               /\ pc'[w] = "finish" => run'[w].error = "none"
               /\ pc'[w] = "unhandled" => run'[w].error = "unhandled"
    BY <1>1, <1>3, OwnNotes, OthersLeaveMine DEF NotesInv, NotesWritten
  <2>2. ASSUME NEW w \in Worker, pc'[w] = "fail",
               run'[w].error \in {"auth", "permanent"},
               job'[cur'[w]].kind \in MailboxKinds
        PROVE  run'[w].error \in noted'[cur'[w]]
    <3>1. CASE pc[w] = "mark" /\ Mark(w)
      <4>1. cur[w] \in JobId /\ noted \in [JobId -> SUBSET Error]
        BY <1>1, <3>1 DEF TypeInv, CurOK, Working, InJob, Guarded, WorkerTypeOK
      <4> QED BY <2>2, <3>1, <4>1 DEF Mark
    <3>2. CASE pc[w] = "fail" /\ run'[w] = run[w] /\ cur'[w] = cur[w]
      <4>1. cur[w] \in JobId
        BY <1>1, <3>2 DEF TypeInv, CurOK, Working, InJob, Guarded
      <4>2. job'[cur[w]].kind = job[cur[w]].kind /\ noted[cur[w]] \subseteq noted'[cur[w]]
        BY <1>1, <1>3, <4>1, KindAndError, NotesGrow
      <4> QED BY <2>2, <3>2, <4>2 DEF NotesInv, NotesWritten
    <3> QED BY <2>1, <2>2, <3>1, <3>2
  <2>3. ASSUME NEW j \in JobId, job'[j].state = "failed",
               job'[j].error \in {"auth", "permanent"}, job'[j].kind \in MailboxKinds
        PROVE  job'[j].error \in noted'[j]
    <3>0. job'[j].kind = job[j].kind /\ noted[j] \subseteq noted'[j]
      BY <1>1, <1>3, KindAndError, NotesGrow
    <3>1. CASE job'[j].error = job[j].error /\ job[j].state = "failed"
      BY <2>3, <3>0, <3>1 DEF NotesInv, FailureIsAccounted
    <3>2. ASSUME NEW w \in Worker, WriteOutcome(w), cur[w] = j
          PROVE  job'[j].error \in noted'[j]
      <4>1. job'[j].error = run[w].error
        BY <1>1, <3>2 DEF WriteOutcome, Finish, Closed, Freed, TypeInv, WorkerTypeOK,
           QueueTypeOK, Row
      <4>2. pc[w] = "fail"
        BY <2>3, <3>2, <4>1 DEF WriteOutcome, NotesInv, NotesWritten
      <4> QED BY <2>3, <3>0, <3>2, <4>1, <4>2 DEF NotesInv, NotesWritten
    <3> QED BY <1>1, <1>3, <2>3, <3>1, <3>2, KindAndError
  <2> QED BY <1>1, <2>1, <2>2, <2>3 DEF NotesInv, NotesWritten, FailureIsAccounted
<1> QED BY <1>2, <1>3

(* A job that ended failed for auth or permanent has left its mark or row,   *)
(* whatever was interrupted on the way, leases kept or not.                  *)
THEOREM FailuresAreAccounted == WorkerSpec => []FailureIsAccounted
<1>1. WorkerInit => NotesInv
  <2> SUFFICES ASSUME WorkerInit PROVE NotesInv
    OBVIOUS
  <2>1. NotesWritten /\ FailureIsAccounted
    BY DEF WorkerInit, QueueInit, NotesWritten, FailureIsAccounted
  <2> QED BY <2>1, InitTypeInv DEF NotesInv
<1>2. NotesInv /\ [WorkerNext]_vars => NotesInv'
  BY NotesInvStep
<1>3. NotesInv => FailureIsAccounted
  BY DEF NotesInv
<1> QED BY <1>1, <1>2, <1>3, PTL DEF WorkerSpec

-----------------------------------------------------------------------------
(* A cancel outlives whatever is written behind it.                          *)
LEMMA CancelStays ==
    ASSUME QueueInv, QueueNext, NEW j \in JobId, job[j].cancel
    PROVE  job'[j].cancel
<1>0. job \in [JobId -> Row] /\ job[j] \in Row
  BY DEF QueueInv, QueueTypeOK
<1>1. CASE \E i \in JobId : Enqueue(i) \/ Heartbeat(i)
  BY <1>0, <1>1 DEF Enqueue, Heartbeat, Row
<1>2. CASE \E i \in JobId : RequestCancel(i)
  <2>1. \/ job'[j] = job[j]
        \/ job'[j] = [job[j] EXCEPT !.cancel = TRUE]
        \/ job'[j] = [Freed(job[j], "cancelled") EXCEPT !.cancel = TRUE]
    BY <1>0, <1>2 DEF RequestCancel
  <2>2. Freed(job[j], "cancelled") \in Row
    BY <1>0, FreedRow DEF JobState, Ended
  <2> QED BY <1>0, <2>1, <2>2 DEF Row
<1>3. CASE AnyClaim
  <2>1. \/ job'[j] = job[j] \/ job'[j] = Refused(job[j])
        \/ \E w \in Worker, ticks \in Leases : job'[j] = Held(job[j], w, ticks)
    BY <1>3 DEF AnyClaim, Claim, ClaimNothing
  <2>2. Refused(job[j]).cancel = job[j].cancel
    BY <1>0 DEF Refused, Closed, Freed, Row
  <2>3. \A w \in Worker, ticks \in Leases : Held(job[j], w, ticks).cancel = job[j].cancel
    BY <1>0 DEF Held, Row
  <2> QED BY <2>1, <2>2, <2>3
<1>4. CASE ReclaimExpired
  <2>1. job'[j] = job[j] \/ job'[j] = Freed(job[j], "queued")
    BY <1>4 DEF ReclaimExpired
  <2> QED BY <1>0, <2>1 DEF Freed, Row
<1>5. CASE \E i \in JobId, d \in Done : Progress(i, d)
  <2>1. job'[j] = job[j] \/ \E d \in Done : job'[j] = [job[j] EXCEPT !.done = d]
    BY <1>0, <1>5 DEF Progress
  <2> QED BY <1>0, <2>1 DEF Row
<1>6. CASE \E i \in JobId, outcome \in Ended, e \in Error : Finish(i, outcome, e)
  <2>1. job'[j] = job[j] \/ \E outcome \in Ended, e \in Error :
                               job'[j] = Closed(job[j], outcome, e)
    BY <1>0, <1>6 DEF Finish
  <2> QED BY <1>0, <2>1 DEF Closed, Freed, Row
<1>7. CASE TickLeases
  <2>1. job'[j] = job[j] \/ job'[j] = [job[j] EXCEPT !.lease = @ - 1]
    BY <1>7 DEF TickLeases
  <2> QED BY <1>0, <2>1 DEF Row
<1> QED BY <1>1, <1>2, <1>3, <1>4, <1>5, <1>6, <1>7 DEF QueueNext

(* No crash, reclaim, claim or outcome forgets that a job is to be cancelled. *)
THEOREM CancelsAreSticky == WorkerSpec => CancelIsSticky
<1>1. TypeInv /\ [WorkerNext]_vars =>
        [\A j \in JobId : job[j].cancel => job'[j].cancel]_job
  BY StepOnTable, CancelStays DEF TypeInv
<1> QED BY <1>1, InitTypeInv, TypeInvStep, PTL DEF WorkerSpec, CancelIsSticky

(* The workers strand no row either: what they do to the table are its own   *)
(* operations.                                                               *)
THEOREM WorkersStrandNoRow == WorkerSpec => []NoStrandedRow
<1>1. TypeInv => NoStrandedRow
  BY DEF TypeInv, QueueInv
<1> QED BY <1>1, InitTypeInv, TypeInvStep, PTL DEF WorkerSpec

-----------------------------------------------------------------------------
(* The refinement of JobLifecycle.  The mapping: a job's state is its row's, *)
(* its runners are the processes that run it.                                *)

States  == [j \in JobId |-> job[j].state]
Runners == [j \in JobId |-> {w \in Worker : Runs(w, j)}]

Stutter == States' = States /\ Runners' = Runners
Maps    == Stutter \/ Lifecycle!Next

(* A process leaves behind one thread at most: it leaves one when it stops,  *)
(* and takes no other job from then on.                                      *)
OneThread == \A w \in Worker : \A t, u \in thread[w] : t = u

LifeInv == LeaseInv /\ OneThread

(* One lemma per step of the lifecycle, over the mapped variables.           *)
LEMMA EnqueueMaps ==
    ASSUME NEW j \in JobId, States[j] = "absent",
           States' = [States EXCEPT ![j] = "queued"], Runners' = Runners
    PROVE  Maps
BY DEF Maps, Lifecycle!Next, Lifecycle!Enqueue, States, Runners

LEMMA CancelMaps ==
    ASSUME NEW j \in JobId, States[j] = "queued",
           States' = [States EXCEPT ![j] = "cancelled"], Runners' = Runners
    PROVE  Maps
BY DEF Maps, Lifecycle!Next, Lifecycle!CancelQueued, States, Runners

LEMMA TakeMaps ==
    ASSUME NEW w \in Worker, NEW taken \in SUBSET JobId, NEW refused \in SUBSET JobId,
           taken \cap refused = {},
           \A j \in taken \cup refused : States[j] = "queued" /\ Runners[j] = {},
           \A i, j \in taken : i = j,
           States' = [j \in JobId |-> IF j \in taken THEN "running"
                                      ELSE IF j \in refused THEN "failed" ELSE States[j]],
           Runners' = [j \in JobId |-> IF j \in taken THEN {w} ELSE Runners[j]]
    PROVE  Maps
<1>1. Lifecycle!Take(w, taken, refused)
  BY DEF Lifecycle!Take, States, Runners
<1> QED BY <1>1 DEF Maps, Lifecycle!Next

LEMMA LeaveMaps ==
    ASSUME NEW w \in Worker, States' = States,
           Runners' = [j \in JobId |-> Runners[j] \ {w}]
    PROVE  Maps
<1>1. Lifecycle!Leave(w)
  BY DEF Lifecycle!Leave, States, Runners
<1> QED BY <1>1 DEF Maps, Lifecycle!Next

LEMMA EndMaps ==
    ASSUME NEW w \in Worker, NEW j \in JobId, NEW outcome \in Ended,
           States[j] = "running", Runners[j] = {w},
           States' = [States EXCEPT ![j] = outcome], Runners' = [Runners EXCEPT ![j] = {}]
    PROVE  Maps
<1>1. Lifecycle!End(w, j, outcome)
  BY DEF Lifecycle!End, States, Runners
<1>2. outcome \in Lifecycle!Ended
  BY DEF Ended, Lifecycle!Ended
<1> QED BY <1>1, <1>2 DEF Maps, Lifecycle!Next

LEMMA PutBackMaps ==
    ASSUME NEW lost \in SUBSET JobId,
           \A j \in lost : States[j] = "running" /\ Runners[j] = {},
           States' = [j \in JobId |-> IF j \in lost THEN "queued" ELSE States[j]],
           Runners' = Runners
    PROVE  Maps
<1>1. Lifecycle!PutBack(lost)
  BY DEF Lifecycle!PutBack, States, Runners
<1> QED BY <1>1 DEF Maps, Lifecycle!Next

(* What the mapping reads. *)
LEMMA SameStates ==
    ASSUME \A j \in JobId : job'[j].state = job[j].state
    PROVE  States' = States
BY DEF States

LEMMA SameRunners ==
    ASSUME \A w \in Worker, j \in JobId : Runs(w, j)' <=> Runs(w, j)
    PROVE  Runners' = Runners
BY DEF Runners

(* A job that is not running has no runners, and a running one only the      *)
(* process its row names.                                                    *)
LEMMA RunnersOf ==
    ASSUME LeaseInv, NEW j \in JobId
    PROVE  /\ job[j].state # "running" \/ job[j].lease = 0 => Runners[j] = {}
           /\ \A w \in Worker : Runs(w, j) => Runners[j] = {w}
<1>1. ASSUME NEW w \in Worker, w \in Runners[j]
      PROVE  job[j].state = "running" /\ job[j].worker = w /\ job[j].lease >= 1
  BY <1>1, NotRunningNotRun DEF Runners
<1>2. Runners[j] \subseteq Worker /\ \A w \in Worker : w \in Runners[j] <=> Runs(w, j)
  BY DEF Runners
<1> QED BY <1>1, <1>2

(* Each step of a process is a step of the lifecycle or leaves it alone.     *)
LEMMA ClientMaps ==
    ASSUME LifeInv, Client \/ Tick
    PROVE  Maps /\ OneThread'
<1>0. /\ job \in [JobId -> Row] /\ \A j \in JobId : job[j] \in Row
  BY DEF LifeInv, LeaseInv, TypeInv, WorkerTypeOK, QueueTypeOK
<1>1. Runners' = Runners
  <2>1. \A w \in Worker, j \in JobId : Runs(w, j)' <=> Runs(w, j)
    BY DEF Client, Tick, Runs, Working
  <2> QED BY <2>1, SameRunners
<1>2. OneThread'
  BY DEF LifeInv, OneThread, Client, Tick
<1>3. ASSUME NEW j \in JobId, Enqueue(j)
      PROVE  Maps
  <2>1. States[j] = "absent" /\ States' = [States EXCEPT ![j] = "queued"]
    BY <1>0, <1>3 DEF Enqueue, States, Row
  <2> QED BY <1>1, <2>1, EnqueueMaps
<1>4. ASSUME NEW j \in JobId, RequestCancel(j)
      PROVE  Maps
  <2>0. job[j] \in Row /\ "cancelled" \in JobState
    BY <1>0 DEF JobState, Ended
  <2>1. Freed(job[j], "cancelled") \in Row /\ Freed(job[j], "cancelled").state = "cancelled"
    <3>1. Freed(job[j], "cancelled") \in Row
      BY <2>0, FreedRow
    <3>2. Freed(job[j], "cancelled").state = "cancelled"
      BY <2>0 DEF Freed, Row
    <3> QED BY <3>1, <3>2
  <2>2. [Freed(job[j], "cancelled") EXCEPT !.cancel = TRUE].state = "cancelled"
    BY <2>1 DEF Row
  <2>3. CASE job[j].state = "queued"
    <3>1. States[j] = "queued" /\ States' = [States EXCEPT ![j] = "cancelled"]
      BY <1>0, <1>4, <2>2, <2>3 DEF RequestCancel, States
    <3> QED BY <1>1, <3>1, CancelMaps
  <2>4. CASE job[j].state # "queued"
    <3>1. \A i \in JobId : job'[i].state = job[i].state
      BY <1>0, <1>4, <2>4 DEF RequestCancel, Row
    <3> QED BY <1>1, <3>1, SameStates DEF Maps, Stutter
  <2> QED BY <2>3, <2>4
<1>5. CASE Tick
  <2>1. ASSUME NEW j \in JobId
        PROVE  job'[j].state = job[j].state
    <3>1. job'[j] = job[j] \/ job'[j] = [job[j] EXCEPT !.lease = @ - 1]
      BY <1>5 DEF Tick, TickLeases
    <3> QED BY <1>0, <3>1 DEF Row
  <2> QED BY <1>1, <1>2, <2>1, SameStates DEF Maps, Stutter
<1> QED BY <1>2, <1>3, <1>4, <1>5 DEF Client

LEMMA LoopMaps ==
    ASSUME LifeInv, NEW w0 \in Worker, Start(w0) \/ Loop(w0)
    PROVE  Maps /\ OneThread'
<1>0. /\ job \in [JobId -> Row] /\ \A j \in JobId : job[j] \in Row
      /\ pc \in [Worker -> Location] /\ cur \in [Worker -> JobId \cup {0}]
      /\ thread \in [Worker -> SUBSET (JobId \X Batch)]
      /\ claim \in [Worker -> [ids : SUBSET JobId, ticks : Leases]]
  BY DEF LifeInv, LeaseInv, TypeInv, WorkerTypeOK, QueueTypeOK
<1>1. CASE Start(w0) \/ Poll(w0) \/ LeaveLoop(w0) \/ NextJob(w0) \/ Exit(w0) \/ ReadQueued(w0)
  <2>1. \A w \in Worker, j \in JobId : Runs(w, j)' <=> Runs(w, j)
    BY <1>0, <1>1 DEF Start, Poll, LeaveLoop, NextJob, Exit, ReadQueued, Gone, Goto, Runs,
       Working, InJob, Guarded, Handling
  <2>2. States' = States
    BY <1>1 DEF Start, Poll, LeaveLoop, NextJob, Exit, ReadQueued, Gone, States
  <2>3. OneThread'
    BY <1>0, <1>1 DEF LifeInv, OneThread, Start, Poll, LeaveLoop, NextJob, Exit, ReadQueued,
       Gone
  <2> QED BY <2>1, <2>2, <2>3, SameRunners DEF Maps, Stutter
<1>2. CASE Reclaim(w0)
  <2>1. \A w \in Worker, j \in JobId : Runs(w, j)' <=> Runs(w, j)
    BY <1>0, <1>2 DEF Reclaim, Goto, Runs, Working, InJob, Guarded, Handling
  <2>2. \A j \in Lapsed : States[j] = "running" /\ Runners[j] = {}
    BY RunnersOf DEF LifeInv, Lapsed, Running, States
  <2>3. ASSUME NEW j \in JobId
        PROVE  job'[j].state = IF j \in Lapsed THEN "queued" ELSE job[j].state
    <3>1. Freed(job[j], "queued").state = "queued"
      BY <1>0 DEF Freed, Row
    <3> QED BY <1>2, <3>1 DEF Reclaim, ReclaimExpired
  <2>4. States' = [j \in JobId |-> IF j \in Lapsed THEN "queued" ELSE States[j]]
    BY <2>3 DEF States
  <2>5. Lapsed \subseteq JobId
    BY DEF Lapsed, Running
  <2>6. OneThread'
    BY <1>2 DEF LifeInv, OneThread, Reclaim
  <2> QED BY <2>1, <2>2, <2>4, <2>5, <2>6, SameRunners, PutBackMaps
<1>3. CASE TakeNothing(w0)
  <2> DEFINE refused == Unknown(claim[w0].ids)
  <2>1. refused \in SUBSET JobId /\ \A j \in refused : job[j].state = "queued"
    BY <1>0 DEF Unknown
  <2>2. \A w \in Worker, j \in JobId : Runs(w, j)' <=> Runs(w, j)
    BY <1>0, <1>3 DEF TakeNothing, Goto, Runs, Working, InJob, Guarded, Handling
  <2>3. \A j \in refused : States[j] = "queued" /\ Runners[j] = {}
    BY <2>1, RunnersOf DEF LifeInv, States
  <2>4. ASSUME NEW j \in JobId
        PROVE  job'[j].state = IF j \in refused THEN "failed" ELSE job[j].state
    <3>1. Refused(job[j]).state = "failed"
      BY <1>0 DEF Refused, Closed, Freed, Row
    <3> QED BY <1>3, <3>1 DEF TakeNothing, ClaimNothing
  <2>5. States' = [j \in JobId |-> IF j \in {} THEN "running"
                                   ELSE IF j \in refused THEN "failed" ELSE States[j]]
    BY <2>4 DEF States
  <2>6. Runners' = [j \in JobId |-> IF j \in {} THEN {w0} ELSE Runners[j]]
    BY <2>2, SameRunners DEF Runners
  <2>7. OneThread'
    BY <1>3 DEF LifeInv, OneThread, TakeNothing
  <2> HIDE DEF refused
  <2>8. Maps
    BY <2>1, <2>3, <2>5, <2>6, TakeMaps, {} \in SUBSET JobId
  <2> QED BY <2>7, <2>8
<1>4. CASE TakeJob(w0)
  <2>0. pc[w0] = "claiming" /\ thread[w0] = {} /\ thread' = thread
    BY <1>4 DEF TakeJob, LifeInv, LeaseInv, ThreadsOnTheWayOut
  <2> PICK j0 \in JobId :
        /\ Claim(w0, claim[w0].ids, claim[w0].ticks, j0)
        /\ cur' = [cur EXCEPT ![w0] = j0]
        /\ Goto(w0, IF job[j0].kind \in HandledKinds THEN "work" ELSE "unhandled")
    BY <1>4 DEF TakeJob
  <2> DEFINE refused == {j \in Unknown(claim[w0].ids) : j < j0 /\ j # j0}
  <2>1. /\ refused \in SUBSET JobId /\ \A j \in refused : job[j].state = "queued"
        /\ job[j0].state = "queued" /\ j0 \notin refused
    BY <1>0 DEF Unknown, Claim, Claimable
  <2>2. \A j \in {j0} \cup refused : States[j] = "queued" /\ Runners[j] = {}
    BY <2>1, RunnersOf DEF LifeInv, States
  <2>3. ASSUME NEW j \in JobId
        PROVE  job'[j].state = IF j \in {j0} THEN "running"
                               ELSE IF j \in refused THEN "failed" ELSE job[j].state
    <3>1. Refused(job[j]).state = "failed"
      BY <1>0 DEF Refused, Closed, Freed, Row
    <3>2. Held(job[j], w0, claim[w0].ticks).state = "running"
      BY <1>0 DEF Held, Row
    <3> QED BY <3>1, <3>2 DEF Claim
  <2>4. States' = [j \in JobId |-> IF j \in {j0} THEN "running"
                                   ELSE IF j \in refused THEN "failed" ELSE States[j]]
    BY <2>3 DEF States
  <2>5. ASSUME NEW w \in Worker, NEW j \in JobId
        PROVE  Runs(w, j)' <=> IF j = j0 THEN w = w0 ELSE Runs(w, j)
    <3>1. CASE w = w0
      <4>1. ~Runs(w0, j) /\ Working(w0)' /\ cur'[w0] = j0
        BY <1>0, <2>0 DEF Runs, Working, Goto, InJob, Guarded, Handling
      <4> QED BY <2>0, <3>1, <4>1 DEF Runs
    <3>2. CASE w # w0
      <4>1. Runs(w, j)' <=> Runs(w, j)
        BY <1>0, <2>0, <3>2 DEF Runs, Working, Goto
      <4>2. ~Runs(w, j0)
        BY <2>1, NotRunningNotRun DEF LifeInv
      <4> QED BY <3>2, <4>1, <4>2
    <3> QED BY <3>1, <3>2
  <2>6. Runners' = [j \in JobId |-> IF j \in {j0} THEN {w0} ELSE Runners[j]]
    BY <2>5 DEF Runners
  <2>7. OneThread'
    BY <2>0 DEF LifeInv, OneThread
  <2> HIDE DEF refused
  <2>8. /\ {j0} \in SUBSET JobId /\ {j0} \cap refused = {} /\ \A i, j \in {j0} : i = j
    BY <2>1
  <2>9. Maps
    BY <2>1, <2>2, <2>4, <2>6, <2>8, TakeMaps
  <2> QED BY <2>7, <2>9
<1> QED BY <1>1, <1>2, <1>3, <1>4 DEF Loop

LEMMA HandlerMaps ==
    ASSUME LifeInv, NEW w0 \in Worker, Handler(w0)
    PROVE  Maps /\ OneThread'
<1>0. /\ job \in [JobId -> Row] /\ \A j \in JobId : job[j] \in Row
      /\ pc \in [Worker -> Location] /\ CurOK /\ run \in [Worker -> RunState]
  BY DEF LifeInv, LeaseInv, TypeInv, WorkerTypeOK, QueueTypeOK
<1>1. CASE WriteOutcome(w0)
  <2> DEFINE j0 == cur[w0]
  <2>1. j0 \in JobId /\ Runs(w0, j0) /\ thread[w0] = {} /\ run[w0].outcome \in Ended
    BY <1>0, <1>1 DEF WriteOutcome, CurOK, Runs, Working, InJob, Guarded, LifeInv, LeaseInv,
       ThreadsOnTheWayOut, RunState
  <2>2. States[j0] = "running" /\ Runners[j0] = {w0}
    BY <2>1, RunnersOf, NotRunningNotRun DEF LifeInv, States
  <2>3. States' = [States EXCEPT ![j0] = run[w0].outcome]
    <3>1. Closed(job[j0], run[w0].outcome, run[w0].error).state = run[w0].outcome
      BY <1>0, <2>1 DEF Closed, Freed, Row
    <3> QED BY <1>0, <1>1, <2>1, <3>1 DEF WriteOutcome, Finish, States
  <2>4. ASSUME NEW w \in Worker, NEW j \in JobId
        PROVE  Runs(w, j)' <=> Runs(w, j) /\ j # j0
    <3>1. CASE w = w0
      BY <1>0, <1>1, <2>1, <3>1 DEF WriteOutcome, Goto, Runs, Working, InJob, Guarded,
         Handling
    <3>2. CASE w # w0
      <4>1. Runs(w, j)' <=> Runs(w, j)
        BY <1>0, <1>1, <3>2 DEF WriteOutcome, Goto, Runs, Working
      <4>2. ~Runs(w, j0)
        BY <2>1, <3>2, NotRunningNotRun DEF LifeInv
      <4> QED BY <4>1, <4>2
    <3> QED BY <3>1, <3>2
  <2>5. Runners' = [Runners EXCEPT ![j0] = {}]
    BY <2>1, <2>4 DEF Runners
  <2>6. OneThread'
    BY <1>1 DEF LifeInv, OneThread, WriteOutcome
  <2> HIDE DEF j0
  <2>7. Maps
    BY <2>1, <2>2, <2>3, <2>5, EndMaps
  <2> QED BY <2>6, <2>7
<1>2. CASE Report(w0)
  <2>1. \A w \in Worker, j \in JobId : Runs(w, j)' <=> Runs(w, j)
    BY <1>0, <1>2 DEF Report, Goto, Runs, Working, InJob, Guarded, Handling
  <2>2. \A j \in JobId : job'[j].state = job[j].state
    BY <1>0, <1>2 DEF Report, Progress, Row
  <2>3. OneThread'
    BY <1>2 DEF LifeInv, OneThread, Report
  <2> QED BY <2>1, <2>2, <2>3, SameStates, SameRunners DEF Maps, Stutter
<1>3. CASE \/ AskCancel(w0) \/ Return(w0) \/ RunAgain(w0) \/ Mark(w0) \/ Settle(w0)
           \/ \E e \in Raised : Raise(w0, e)
  <2>1. /\ UNCHANGED <<job, cur, thread>>
        /\ pc[w0] \in InJob
        /\ \E label \in InJob : pc' = [pc EXCEPT ![w0] = label]
    BY <1>3 DEF AskCancel, Return, RunAgain, Mark, Settle, Raise, Goto, InJob, Guarded,
       Handling
  <2>2. \A w \in Worker, j \in JobId : Runs(w, j)' <=> Runs(w, j)
    BY <1>0, <2>1 DEF Runs, Working
  <2>3. OneThread'
    BY <2>1 DEF LifeInv, OneThread
  <2> QED BY <2>1, <2>2, <2>3, SameStates, SameRunners DEF Maps, Stutter
<1> QED BY <1>1, <1>2, <1>3 DEF Handler

LEMMA TasksMaps ==
    ASSUME LifeInv, NEW w0 \in Worker, Tasks(w0)
    PROVE  Maps /\ OneThread'
<1>0. /\ job \in [JobId -> Row] /\ \A j \in JobId : job[j] \in Row
      /\ pc \in [Worker -> Location] /\ CurOK /\ cur \in [Worker -> JobId \cup {0}]
      /\ thread \in [Worker -> SUBSET (JobId \X Batch)]
  BY DEF LifeInv, LeaseInv, TypeInv, WorkerTypeOK, QueueTypeOK
<1>1. CASE Beat(w0)
  <2>1. \A w \in Worker, j \in JobId : Runs(w, j)' <=> Runs(w, j)
    BY <1>1 DEF Beat, Runs, Working
  <2>2. \A j \in JobId : job'[j].state = job[j].state
    BY <1>0, <1>1 DEF Beat, Heartbeat, Row
  <2>3. OneThread'
    BY <1>1 DEF LifeInv, OneThread, Beat
  <2> QED BY <2>1, <2>2, <2>3, SameStates, SameRunners DEF Maps, Stutter
<1>2. CASE BeatRefused(w0) \/ Abandon(w0)
  <2>1. LetGo(w0) /\ pc[w0] \in Guarded \cup {"ended"}
    BY <1>2 DEF BeatRefused, Abandon
  <2>2. thread[w0] = {}
    BY <2>1 DEF LifeInv, LeaseInv, ThreadsOnTheWayOut, Guarded, Handling
  <2>3. States' = States
    BY <2>1 DEF LetGo, States
  <2>4. OneThread'
    <3>1. \A w \in Worker \ {w0} : thread'[w] = thread[w]
      BY <1>0, <2>1 DEF LetGo
    <3>2. \A t, u \in thread'[w0] : t = u
      BY <1>0, <2>1, <2>2 DEF LetGo
    <3> QED BY <3>1, <3>2 DEF LifeInv, OneThread
  <2>5. \A w \in Worker, j \in JobId : w # w0 => (Runs(w, j)' <=> Runs(w, j))
    BY <1>0, <2>1 DEF LetGo, Goto, Runs, Working
  <2>6. CASE thread'[w0] # {}
    <3>1. /\ pc[w0] \in Handling
          /\ thread'[w0] = {<<cur[w0], run[w0].batch>>}
      BY <1>0, <2>1, <2>2, <2>6 DEF LetGo
    <3>2. \A j \in JobId : Runs(w0, j)' <=> j = cur[w0]
      <4>1. ~Working(w0)'
        BY <1>0, <2>1 DEF LetGo, Goto, Working, InJob, Guarded, Handling
      <4>2. \A j \in JobId : Runs(w0, j)' <=> <<cur[w0], run[w0].batch>>[1] = j
        BY <3>1, <4>1 DEF Runs
      <4> QED BY <4>2
    <3>3. \A j \in JobId : Runs(w0, j) <=> j = cur[w0]
      BY <2>2, <3>1 DEF Runs, Working, InJob, Guarded
    <3> QED BY <2>3, <2>4, <2>5, <3>2, <3>3, SameRunners DEF Maps, Stutter
  <2>7. CASE thread'[w0] = {}
    <3>1. \A j \in JobId : ~Runs(w0, j)'
      BY <1>0, <2>1, <2>7 DEF LetGo, Goto, Runs, Working, InJob, Guarded, Handling
    <3>2. Runners' = [j \in JobId |-> Runners[j] \ {w0}]
      BY <2>5, <3>1 DEF Runners
    <3> QED BY <2>3, <2>4, <3>2, LeaveMaps
  <2> QED BY <2>6, <2>7
<1> QED BY <1>1, <1>2 DEF Tasks

LEMMA ThreadsMaps ==
    ASSUME LifeInv, NEW w0 \in Worker, Threads(w0)
    PROVE  Maps /\ OneThread'
<1>0. /\ job \in [JobId -> Row] /\ \A j \in JobId : job[j] \in Row
      /\ pc \in [Worker -> Location]
      /\ thread \in [Worker -> SUBSET (JobId \X Batch)]
  BY DEF LifeInv, LeaseInv, TypeInv, WorkerTypeOK, QueueTypeOK
<1> PICK t \in thread[w0] : ThreadReport(w0, t) \/ ThreadEnds(w0, t)
  BY DEF Threads
<1>1. thread[w0] = {t} /\ ~Working(w0) /\ t[1] \in JobId
  BY <1>0 DEF LifeInv, OneThread, LeaseInv, ThreadsOnTheWayOut, Working, InJob, Guarded,
     Handling
<1>2. /\ UNCHANGED <<pc, cur>>
      /\ \A w \in Worker \ {w0} : thread'[w] = thread[w]
      /\ thread'[w0] = {} \/ thread'[w0] = {<<t[1], t[2] + 1>>}
  BY <1>0, <1>1 DEF ThreadReport, ThreadEnds
<1>3. States' = States
  <2>1. \A j \in JobId : job'[j].state = job[j].state
    BY <1>0 DEF ThreadReport, ThreadEnds, Progress, Row
  <2> QED BY <2>1, SameStates
<1>4. OneThread'
  BY <1>2 DEF LifeInv, OneThread
<1>5. \A w \in Worker, j \in JobId : w # w0 => (Runs(w, j)' <=> Runs(w, j))
  BY <1>2 DEF Runs, Working
<1>6. CASE thread'[w0] = {<<t[1], t[2] + 1>>}
  <2>1. \A j \in JobId : Runs(w0, j)' <=> Runs(w0, j)
    BY <1>1, <1>2, <1>6 DEF Runs, Working
  <2> QED BY <1>3, <1>4, <1>5, <2>1, SameRunners DEF Maps, Stutter
<1>7. CASE thread'[w0] = {}
  <2>1. \A j \in JobId : ~Runs(w0, j)'
    BY <1>1, <1>2, <1>7 DEF Runs, Working
  <2>2. Runners' = [j \in JobId |-> Runners[j] \ {w0}]
    BY <1>5, <2>1 DEF Runners
  <2> QED BY <1>3, <1>4, <2>2, LeaveMaps
<1> QED BY <1>2, <1>6, <1>7

LEMMA FaultMaps ==
    ASSUME LifeInv, NEW w0 \in Worker, RequestStop(w0) \/ Crash(w0)
    PROVE  Maps /\ OneThread'
<1>0. /\ pc \in [Worker -> Location]
      /\ thread \in [Worker -> SUBSET (JobId \X Batch)]
      /\ cur \in [Worker -> JobId \cup {0}]
  BY DEF LifeInv, LeaseInv, TypeInv, WorkerTypeOK
<1>1. States' = States
  BY DEF RequestStop, Crash, Gone, States
<1>2. OneThread'
  BY <1>0 DEF LifeInv, OneThread, RequestStop, Crash, Gone
<1>3. CASE RequestStop(w0)
  <2>1. \A w \in Worker, j \in JobId : Runs(w, j)' <=> Runs(w, j)
    BY <1>3 DEF RequestStop, Runs, Working
  <2> QED BY <1>1, <1>2, <2>1, SameRunners DEF Maps, Stutter
<1>4. CASE Crash(w0)
  <2>1. ASSUME NEW w \in Worker, NEW j \in JobId
        PROVE  Runs(w, j)' <=> Runs(w, j) /\ w # w0
    BY <1>0, <1>4 DEF Crash, Gone, Goto, Runs, Working, InJob, Guarded, Handling
  <2>2. Runners' = [j \in JobId |-> Runners[j] \ {w0}]
    BY <2>1 DEF Runners
  <2> QED BY <1>1, <1>2, <2>2, LeaveMaps
<1> QED BY <1>3, <1>4

LEMMA StepMaps ==
    ASSUME Punctual, LifeInv, [WorkerNext]_vars
    PROVE  LifeInv' /\ Maps
<1>1. LeaseInv'
  BY LeaseInvStep DEF LifeInv
<1>2. CASE UNCHANGED vars
  BY <1>1, <1>2 DEF vars, LifeInv, OneThread, Maps, Stutter, States, Runners, Runs, Working
<1> QED
  BY <1>1, <1>2, ClientMaps, LoopMaps, HandlerMaps, TasksMaps, ThreadsMaps, FaultMaps
  DEF WorkerNext, LifeInv

LEMMA InitMaps == WorkerInit => LifeInv /\ Lifecycle!Init
<1> SUFFICES ASSUME WorkerInit PROVE LifeInv /\ Lifecycle!Init
  OBVIOUS
<1>1. OneThread
  BY DEF WorkerInit, OneThread
<1>2. \A j \in JobId : job[j].state = "absent"
  BY DEF WorkerInit, QueueInit
<1>3. \A w \in Worker, j \in JobId : ~Runs(w, j)
  BY DEF WorkerInit, Runs, Working, InJob, Guarded, Handling
<1> QED BY <1>1, <1>2, <1>3, InitLeaseInv DEF LifeInv, Lifecycle!Init

(* As long as no living worker's lease lapses, any number of workers,        *)
(* however they crash, stop and leave threads behind, show the readers of    *)
(* the job table the lifecycle and nothing else.                             *)
THEOREM WorkersImplementLifecycle ==
    ASSUME Punctual
    PROVE  WorkerSpec => ImplementsLifecycle
<1>1. LifeInv /\ [WorkerNext]_vars => LifeInv'
  BY StepMaps
<1>2. LifeInv /\ [WorkerNext]_vars =>
        [Lifecycle!Next]_<<[j \in JobId |-> job[j].state],
                           [j \in JobId |-> {w \in Worker : Runs(w, j)}]>>
  BY StepMaps DEF Maps, Stutter, States, Runners
<1> QED BY <1>1, <1>2, InitMaps, PTL DEF WorkerSpec, ImplementsLifecycle, Lifecycle!Spec
=============================================================================
