# mail-archive in TLA+

mail-archive imports mailboxes (Gmail, Microsoft 365, IMAP) into a local graph
database, keeps its bookkeeping in a relational one, and derives an analysis
from what it archived. This directory models the part of it that has to survive
crashes, cancels and several actors at once, checks it with TLC and proves the
central facts with TLAPS. Paths below are relative to `src/`; `sync/` stands for
`components/mailarc-sync/src/mailarc_sync/`, `core/` for
`components/mailarc-core/src/mailarc_core/`, `analytics/` for
`components/mailarc-analytics/src/mailarc_analytics/`, `imap/` for
`components/mailarc-imap/src/mailarc_imap/`, `ui/` for
`components/mailarc-ui/src/mailarc_ui/`.

## The system

| Component | State | Operations | Hard because |
| --- | --- | --- | --- |
| Job queue `sync/jobs/queue.py` | table `mail_sync_jobs` | enqueue, claim, heartbeat, reclaim, progress, request_cancel, succeed/fail/cancel | several processes share the rows; a lease, not a lock, says whose a job is |
| Job worker `sync/jobs/worker.py`, handlers `app/worker.py` | loop, current job, three tasks, stop event | run, attempt, settle, beat, stop | crash, SIGTERM, lost lease, handler threads that cannot be cancelled |
| Import engine `sync/engine/engine.py` | three checkpoints, ledger, failure rows, graph | full walk, delta, bootstrap, fallback | a run can stop between any two commits, cursors expire, mail arrives meanwhile |
| Page pipeline (in the engine) | slices, queue, consumer | fetch, prepare, flush | three kinds of tasks, one bounded queue, nested task groups |
| IMAP source `imap/source/` | a cursor of marks per folder, kept in the engine's checkpoints | list, search, fetch, watermark | folders come, go and are renumbered while walks run and are resumed |
| Scheduling `sync/jobs/scheduler.py`, `sweep.py`, the import panel | the panel's adopted job | tick, sweep, start | looks for open jobs, then enqueues: two transactions |
| Account eraser `sync/erase/eraser.py`, `core/archive/purge.py` | none of its own | require idle, purge in pages, forget | a job may be queued after the idle check; mailboxes share messages |
| Graph server `core/graph/server.py`, `ownership.py` | process, owner record | start, adopt, take over, stop | several applications, each may be killed in between |
| Supervisors `app/supervisors.py` | two child processes | start, request_stop, stop | two seconds for both children |
| Derived layer `analytics/derived/`, insights panel, tags `core/archive/tags.py` | derived nodes and edges, tags, the panel's hand | rebuild, follow-up, suggest, accept, tag, untag, delete, purge | delete then write, not atomic; people act in between |
| Semantic index `analytics/semantic/` | vectors, index length, the setting in force in each process | embed, rebuild index | the length is checked once, at the start; paging over a set that shrinks |
| Accounts and credentials `ui/accounts/state.py`, `app/worker.py` | account row, two secrets | type, consent, delete, rotate, write back, mark auth_error | a run writes back a secret a person may have replaced meanwhile |
| Embedder settings `ui/embedder/` | settings row, configuration in force, forms | load, save, clear key, fall back, reload | background handlers that hold their form only to assign |
| Archive writer `core/archive/` | graph nodes and edges, blobs | archive, repair threads | get before add; edges are merged after the node is flushed |
| Parsing, reading and search, queries, MCP server, composition, migrations | - | - | without state, or wiring |

**How they interact.** The pages, the scheduler and a finished import enqueue
jobs; one worker process (a child of the application) claims them, runs a
handler from `app/worker.py` and writes the outcome. An import handler opens a
provider's source and runs the engine, which writes the graph first and the
ledger after it, and keeps its place in `mail_sync_checkpoints`. Derive, repair
and embed handlers report through the same queue. The queue table is the
only channel between the application and the worker; a cancel is a flag in the
row. A worker that is stopped leaves its job to the lease. Settings and
credentials are rows that both processes read and write; the graph is one
server that every process talks to, and every statement there stands alone.

**What makes them correct.** A job is worked on by one process at a time, ends,
and stays as it ended; a failure leaves its trace. An import never skips mail: the
delta's starting point and the resume point of an interrupted walk are honest,
also while folders change; the ledger never claims what the graph does not hold.
A page ends. An emptied mailbox is empty before it is forgotten, and a mailbox
with a mark holds what the mark covers. A rebuild that ended well is whole, and
a person's decision outlives it. A stored vector can be found. What a person
typed last stays. A server is stopped by the application that answers for it.
The hazards behind each of these are listed, by line, in `PROJECT.json`.

## Modules

* **JobLifecycle** is the abstract specification: a state and a set of runners
  per job, `queued -> running -> ended`, one edge back that needs an empty set.
* **JobQueue** is the table. A row is a record, an operation an action, since
  each opens and commits one session. `claim` is the exception: it reads the
  queued ids before it takes the write lock, so `Claim` takes the ids and the
  remaining lease as arguments, which may be stale. A lease counts ticks left
  (0 = over), and `Tick` decrements every lease. `QueueSpec` lets anybody call
  anything; it has theorems and no run of its own, TLC checks the table under
  JobWorker.
* **JobWorker** EXTENDS it with worker processes: `pc[w]` is where the loop or
  the handler task stands, `Beat`/`BeatRefused`/`Abandon` are the tasks raced
  against it, `RequestStop`, `Crash`, `Exit` the ends of the process, `thread[w]`
  the handler threads that outlive a cancelled task. A handler is any sequence of
  batches, reports, cancel checks, and any of the four classes of errors.
  `ImplementsLifecycle` is the refinement of JobLifecycle.
* **ImportEngine** is one mailbox and the runs over it, one action per commit. A
  message is the number of its arrival; positions and watermarks are numbers, so
  a delta lists `cursor+1..arrived` and a newest-first walk goes down. The
  provider (`Arrive`, `Expire`, `Watermarks`) is external: a watermark may lag
  but never runs ahead, a full walk lists in either order, a page cuts off
  anywhere up to the page size. `CutShort` ends a run between any two steps and
  leaves any part of the batch under way in the graph.
* **PageStage** refines what `ImportEngine` takes as flushes of one page: slices,
  the queue, the sentinel, the consumer, retries, and who cancels whom.
* **ImapWalk** is the source under the engine for one provider: an account whose
  folders are made, removed, renumbered and filled at any time. A folder is the
  rank of its name in the order walks use. A cursor is the folder a walk is at and
  a mark (UIDVALIDITY, UIDNEXT) per folder. Every IMAP command is a step, and
  so is every write to a checkpoint. The server keeps RFC 3501 and always has an
  INBOX, so the branches for a mailbox without folders do not occur; every message
  parses. An answer without a body (`imap/source/client.py:444`) ends a run as a lost
  connection does (`CutShort`), so `MailComesIn` takes it that no server gives one for ever. The histories: `was` (every address a message ever had), `exempt` (mail
  below the mark of an account that was armed and never walked), `before` (folders
  made in front of a walk's starting point).
* **MailboxJobs** composes who queues (the sweeps of timer and button, the panel), the worker's import handler and the clear-out over several
  mailboxes that may hold the same message. A sweep's reads are one moment, its
  write another. An import is one page; mail does not arrive. `half` remembers
  clear-outs that broke off, `raced` mailboxes something was in flight for while a
  clear-out ran. Initially the archive may be in use: mailboxes imported, armed,
  or neither. The cancel flag of a running job is JobWorker's. A panel can queue a
  second job behind one of its own, which is why the property speaks of sweeps.
* **Supervisors** is the graph server, its ownership record and the worker under
  any number of application processes. A process lives once and spawns at most one
  server and one worker, so both go by its name. `is_serving` may or may not see a
  server that starts or stops, and `ps` may not name an orphan. Writing the record
  may fail, with the old one still there or truncated, and so may dropping it; the
  code notes both and goes on, and so does the model. Histories: `blind` (servers
  whose record could not be written, or whose application was killed between Popen
  and the record), `crossed` (two starts or stops at once, two owners at once, or a
  server that did not answer one of them): the record is a file without a lock, and
  what it can promise ends there. A redis-server that was started by hand is external.
* **DerivedLayer** is the derived part of the graph under rebuilds that may run
  side by side: the worker's, a second worker's, the command line's or a stray
  thread's. All mail is one conversation, so a rebuild finds one topic, and
  there is one tag; stages that write alike are one step, and each keeps its place
  in the order of the code. Histories: `base` (what the rebuild that deleted last
  read, and how it ended), `brought` (what a delta owes the layer), `late` (a tag
  set between auto-accept's read and write).
* **VectorIndex** is the vectors and the index over them. A setting is
  `[model, length]`; a vector is known by the setting it came from. `stored`,
  `web` and each runner's `config` are three places that hold a setting and are
  brought in line at different times. Histories: `strays`, `torn`, and per run
  `overtaken` and `shared`, name the two races the code leaves open.
* **Credentials** is one account's secrets. A secret is known by the deposit it
  goes back to, so that "written over by an older one" can be said, and `box` is the
  mailbox it opens. `address` is what the row names: a save writes it whether or not
  the secret is retyped, and asks no mailbox. A provider is what its shape
  registers (fields, consent step, or both). Rows have identities, and foreign
  keys are on. Histories: `latest`, `named` (the address a mailbox was last compared
  with and found to be), `window`, `torn`.
* **EmbedderSettings** is the settings row with its timestamp, and the forms over
  it. A value is the number of its save. Each `@rx.event(background=True)` handler
  is a task cut at every await. Following a job is `JobEnded` alone. The web
  process does not restart.
* The modules ending in **Proofs** hold the theorems: JobWorkerProofs (the table,
  the workers and the refinement), ImportEngineProofs, PageStageProofs,
  CursorProofs (ImapWalk and VectorIndex, whose arguments are alike),
  MailboxJobsProofs, DerivedLayerProofs, SupervisorsProofs and SettingsProofs
  (Credentials and EmbedderSettings). Where two models meet in one of them, one
  carries its name in its `Init`, `Next` and `Spec` (`WalkSpec`, `CredentialSpec`).
  The **MC** modules give constants values.

A *history* variable is written by actions and read by none of the program's; it
names what a property excuses, so that the excuse is a state the reader can see.

Operators whose comment says *mutant* are not part of any specification: each is a
plausible mistake in the operation named beside it, kept next to it, that makes
the property it is paired with in `PROJECT.json` fail. A property no mistake can
break would say nothing.

## Runs

| Configuration | Shows | Bounds |
| --- | --- | --- |
| MCJobWorker | one runner, no stranded row, failures accounted for, a cancel is sticky, refinement of JobLifecycle, every queued job ends | 2 workers, 1 job, lease 2, 2 attempts, 2 faults |
| MCImportEngine | marks and resume points are honest, graph before ledger, armed mail is dealt with in the end | 3 messages, 2 faults, page 2, batch 1, both listing orders |
| MCPageStage | messages delivered once and accounted for, pages end | up to 5 references, 2 slices, batch 2, 2 attempts |
| MCPageStageWedge (violation) | a cancel on a full queue never ends | 4 references, all readable |
| MCMailboxJobs | a mark is imported, the ledger is held, a delta has a start, purged before forgotten, a sweep does not double its own job | 2 mailboxes that share a message, button and panel, 2 jobs, 1 fault |
| MCSupervisors | who may stop a server, who keeps one, when a leak is recognised, what an orderly shutdown leaves | 3 applications, 2 faults |
| MCDerivedLayer | a rebuild that ended well is whole and, alone, nothing else; nothing deleted comes back; deltas are derived; a person's tag is kept | 3 messages, 2 workers and one rebuild beside them, 2 jobs, 2 clicks, 1 fault |
| MCVectorIndex | stored vectors are searchable, a run that ends well leaves nothing behind | 2 messages, 3 settings, 2 runners, 2 runs, 3 rebuilds |
| MCCredentials | the latest deposit stays, an idle account opens the mailbox it was compared with | 2 mailboxes, 2 pages, 1 worker, 4 deposits, 2 runs, 1 rotation |
| MCEmbedderSettings | no save overwrites silently | 2 forms, 2 handlers at once, 2 writes |
| MCImapWalk | what a mark leaves behind is archived, under its own id; mail comes in | 2 messages, 3 folders, 3 changes, 1 fault |
| MCImapWalkFolders (violation) | a new folder in front of the starting point is never walked | 1 message, 3 folders, no fault |

Why the bounds suffice. Two workers and one job are enough for every race about
a job: the properties speak of one job, and jobs interact only through a claim
that passes over some of them. A lease of two ticks distinguishes fresh, due and
over. Three messages let a page be followed by another, one be unreadable and one
arrive during the walk; two faults let a run be cut short and its successor too.
In the page run five references over two slots make a slice longer than one
message and a page larger than queue and batch together, so that a consumer
that is gone leaves the queue full, with one message gone. Two mailboxes with one
message in common are the least a purge classifies three ways. Three applications
are one that runs, one that is killed and one that finds what it left. Three
rebuilds of the layer are one that broke off, one that writes and one that
overtakes it. Three rebuilds of the index let one clear what another created while
a third breaks off; two runs let one follow another, and the run property was also
checked with one message and four runs. Four deposits are typed, granted, retyped and granted again; two mailboxes are
the right one and another, and which of them is right changes with the address.
Three folders with the INBOX in the middle leave a place in front of it and one
behind. ImapWalk's safety was also checked at four changes. The theorems remove these
bounds from every safety property: only the liveness properties rest on them.

`workers` and `engine` check deadlock. The other configurations do not: their
actors stop when their bounds (jobs, clicks, deposits, writes, changes) are used
up, or rest where the code does (a page in `Done`, applications that are down). That
nothing stops too early there is `PageEnds` and `MailComesIn`.

**Fairness.** `JobWorker`: time passes, a running process takes its next step,
its heartbeat is sent, threads go on, and a process that is off is started (the
application starts its worker). Nothing has to be queued, cancelled, stopped or
crashed. `ImportEngine`: the scheduler keeps starting runs and a run that is not
cut short takes its next step; since the number of faults is bounded, some run
gets through. `PageStage`: every task takes its next step; nothing has to fail.
`ImapWalk`: the interval timer keeps queueing deltas, and a run takes its next
step; changes and faults are bounded, so folders come to rest.

**Punctual.** The constant `Punctual` says that a living worker beats before its
lease is over, as the settings are meant to ensure (heartbeat 10 s, lease 120 s,
and a stopped process is killed after a second). With it a job has one runner; without
it the queue's unconditional outcome and the heartbeat guarded on the state alone
do not protect the next owner.

## Where the code and its documentation part

Shown by a run:

1. *Full queue* (MCPageStageWedge). `engine.py:560-568` explains why the consumer
   must not leave the fetch stage on a full queue, and handles every `Exception`.
   Cancellation is not one: the consumer ends and `finally: await queue.put(None)`
   waits forever, and with it the worker that cancelled the run.
2. *A folder in front* (MCImapWalkFolders). A delta starts at the folder its
   mark names (`imap/source/source.py:273`). One that is made later and sorts in
   front is filled, covered by the next mark and never listed, where
   `source.py:323` and `mapping.py:99` call a new folder harmless.

Seen while modelling, excused by a history variable or left out, not run:

3. *Heartbeat.* `queue.py:226` guards on `running`, not on the owner. A worker
   whose job was taken over extends the other's lease, which `worker.py:228`
   says it must not.
4. *Threads.* `_cancel` (`worker.py:374`) promises nothing keeps running behind;
   a thread does, while the next job runs.
5. *A message that is gone.* The error taxonomy says a permanent error costs one
   message. From the stream (rather than the parser) it costs the run.
6. *Purge beside an import.* `core/archive/purge.py:322` classifies a page, then
   deletes it; a message that another mailbox imports in between goes with it.
   `LedgerIsHeld` excuses it by `raced`.
7. *Retyped secrets.* A password typed for an account that also has a grant is
   stored and never opened: the worker takes the oauth row first (`app/worker.py:580`).
   An IMAP secret that validation changed (a trimmed host) is written back after a run,
   where `imap/source/credentials.py:127` says the comparison always matches.
8. *Settings.* The first save on a fresh installation has no baseline; a finished
   job moves the baseline under the fields; a reload that read earlier may be adopted
   after a later one. In each of these a save can go through that
   `SettingsChangedElsewhere` was meant to stop; `whole` excuses them.
9. *Two lengths.* `analytics/semantic/indexing.py:353` says a failure leaves no index rather
   than vectors of two lengths; a run past its check when a rebuild clears (`strays`), or
   overlapping rebuilds of which one breaks off (`torn`), leave others. And a rebuild that
   dropped the index and has yet to clear takes the vectors of a run that started, and
   ended well, under the index another rebuild created in between: both properties of
   VectorIndex speak of moments at which nobody is about to clear (`NobodyClears`).
10. *An owner record that is not written.* `ownership.py:92` swallows the error and the
   start goes on. After a take-over the old record still names a supervisor that is gone,
   so a second instance takes the living application's server and stops it, where
   `server.py:252` says it must not; after a spawn no later start recognises the leak.
   `OneKeeper` and `LeakIsRecognised` excuse these servers, and no others, by `blind`.
11. *An address edited after a consent.* `accounts/state.py:872` says the mailbox that
   answered must be the one the row names; `_update` (line 650) renames the row and
   nothing asks again, so an idle account may open another mailbox.
   `IdleOpensTheComparedMailbox` therefore speaks of the address that was compared.
12. *Conversation repair.* `core/archive/threads.py` puts a message two mailboxes
    share into the conversation of one of them.

## Proofs

The modules ending in `Proofs` are checked by TLAPS with no fact taken on trust but the
constants' assumptions named `...Assumption` in the modules, which TLC evaluates.

* **JobQueue** (JobWorkerProofs). `QueueTypeOK` and `NoStrandedRow /\ UnknownNeverRuns`
  are inductive together: an operation touches a row through `Freed`, `Held` or
  `Closed`, and each of these keeps owner, lease and state in step.
  `EndedNeverReopens` follows for every step from the types. `NoStrandedRow` and
  `CancelIsSticky` carry over to any number of workers, whose steps on the table are
  these operations.
* **JobWorker.** `OneRunner` is not inductive. The strengthening (`LeaseInv`) says which rows
  a process at a given step still owes, that a lease under a working process and
  under a thread is not over (this is where `Punctual` is used), and that a claim
  in flight has ticks left; two processes cannot then own one row, and a row that
  is reclaimed has no runner. `EndedIsFinal` follows from it step by step.
  `FailureIsAccounted` needs that a process about to write a failure has its mark.
* **The refinement.** Under `Punctual`, `WorkersImplementLifecycle`: the initial table maps
  to no jobs, and each step of a worker, of the queue or of time maps to one step of
  JobLifecycle or to none. The edge back to `queued` needs an empty set of runners, and
  ending a job needs its runner to be the only one, which is `LeaseInv`; that a process
  leaves at most one thread behind (`OneThread`) makes the end of a thread one step.
  There is one lemma for each step of the lifecycle and one for each kind of step below.
* **ImportEngine.** `MarkIsHonest` needs `RunInv` (what the run's variables may be
  at each step) and `WalkIsHonest`: while a run walks, everything its mark
  covers is dealt with, on the page being flushed, or ahead of its cursor. A stored
  cursor then inherits it (`ResumeIsHonest`) and at the end of the walk nothing is
  ahead, so the mark may be stored. `GraphBeforeLedger` needs that the batch under
  way is in the graph (`FlushInOrder`).
* **PageStage.** `PInv` adds to the types: what a slice, the fetch stage and the
  consumer hold at each of their steps (`SlicesInOrder`, `ConsumerInOrder`), the
  sentinel is the last thing in the queue (`EndIsLast`), a message is in one place (`OneOfEach`, from which `DeliveredOnce` follows), and
  until something failed or was cancelled each message is in some place
  (`NothingLost`). At a good end only the ledger and the failure rows are left to
  be that place, which is `GoodPageIsAccounted`.
* **ImapWalk** (CursorProofs). What changes in the mailbox is shown first to be harmless to
  whatever was read before it: UIDVALIDITYs and UIDNEXTs only grow, and a message lies
  where it lay or under a UID no mark of the past covers (`Evolved`, `FreshIsAbove`).
  Then `WInv`, of a run: mail that is owed is on the page, above the mark of the cursor
  in its folder, or in a folder from the cursor on, or else above the mark the walk
  began with (`CursorIsHonest`, with `OpenIsHonest` and `SearchIsHonest` while a folder
  is open). An interrupted walk leaves this in its two checkpoints (`FullIsHonest`), and
  at the end of a walk only the last case is left, so that its mark may become the
  delta's start (`IncrIsHonest`, which is `BehindIsArchived`). What makes a page safe to
  skip is that an address belongs to one message for ever (`Given`): a row of the
  ledger under it means that this message is archived, which is `FiledUnderItsOwn`.
* **VectorIndex** (CursorProofs). `VInv`: besides the types, vectors that are no strays have one length
  (`OneLength`), and a rebuild about to create the index finds
  none of another length unless somebody is still going to clear it (`NoneBetween`).
  `RInv` rests on it: a message a run owes has a vector of its model, or is ahead of its
  cursor, or is on or above its page (`Owing`), and runs that share the graph with no other
  model have one model (`OneModel`), since a write by another run only helps then.
  `RunLeavesNothingBehind` is `Owing` when the page is empty.
* **MailboxJobs.** `MInv`. Once a clear-out runs, whatever is in flight for a mailbox is
  in the book (`Booked`), so what is outside `raced` really is undisturbed. `RunReads`: a
  run that is about to store a mark or a row has in the archive what they will claim.
  `Exclusive` and `Purged`: a classified page holds nothing another mailbox has, and what
  the mailbox holds lies below the purge's position or on its page; at the end of the
  last pass that is nothing. `DeltasStart` and `OwnJobs` follow a sweep from its look to
  its write.
* **DerivedLayer.** `DInv`: no rebuild knows of mail still to come
  (`NothingForeseen`), writes match existing nodes only (`NothingInvented`), the
  rebuild that deleted last has at each stage written all of the stages before
  it (`Progress`), and when it runs alone nothing else is there (`ByItself`).
  `SucceededMeansWhole` and `NothingLeftOver` are these two at the last stage;
  `PersonDecidesFirst` needs `PersonsAreLate` for the moment between auto-accept's
  read and write. `DeltaIsDerived` has an invariant of its own, `FInv`: while nothing fails,
  running jobs and workers go together (`Manned`), and mail that is due has its
  scores, or a rebuild that will write them, or a job that is queued or about to be
  (`Covered`).
* **Supervisors.** `NobodyIsRobbed` is the heart: an application keeps its own
  server or one whose spawner is dead. `StoppedByItsOwn` follows because only a keeper
  stops a server. `BothAskedBeforeAnyWait` and `NothingIsLeftBehind` need
  what each stage of a start and a shutdown has already done; the second is said of one
  application, in whatever state the others are. `OneKeeper` and `LeakIsRecognised` follow
  from `SerialInv`, of all that happens before two starts or stops cross: one application
  moves at a time, and for a server that could be written down, one keeps it, the record
  follows the keeper, and when it runs without one it is the record's. A record that could
  not be dropped names a server that is gone (`RecordIsKept`).
* **Credentials** (SettingsProofs). `CInv`: a rotation changes neither the deposit a secret
  goes back to nor the mailbox it opens, so a run hands back its own deposit
  (`RunsKeepTheirs`), and between look and write the row is still of that deposit
  (`WritesBackTheSame`); that is `LatestDepositStays`. For `IdleOpensTheComparedMailbox`: one
  consent goes on at a time (`OneConsent`), one that opens another mailbox than the row
  names when it is compared never gets past that (`ConnectedIsOwn`), and while a grant
  nobody compared lies in an idle account its consent is still in question
  (`AnotherIsInQuestion`).
* **EmbedderSettings** (SettingsProofs). `NoSilentOverwrite` needs that a form whose reading is
  whole shows the value the row had at its baseline, and that timestamps grow, so that
  an equal one means an equal row.

`CInv` and `WInv`, the widest of these invariants, were checked by TLC on the
configurations of their modules before they were proved. The attempt to prove
`RunLeavesNothingBehind` found it false beyond the bounds of its run (divergence 9).

Only model-checked: liveness (`EveryJobEnds`, `ArmedMailIsDealtWith`, `PageEnds`,
`MailComesIn`), which is out of this prover's reach, and the two violations. Every
invariant and every action property of the passing runs is a theorem.

## Not modelled, and why

* In the engine: mail deleted at the provider; pages that move the cursor and list
  nothing; the error for a cursor that does not move (ends a run like any other
  error, `CutShort`); progress estimates; labels.
* A cancelled import is let go at once in JobWorker; that its page may hang is
  PageStage's result and not composed into it.
* A database error while an outcome is written ends the worker process; that is
  `Crash`.
* The archive writer's statements: merges are idempotent and inside one session,
  so a batch is one commit that may be partial. Which nodes a message becomes is data
  that no property here tells apart. Blobs are written once by content and never
  referenced before they exist.
* Conversations and their repair: a pure function of headers, and a script that is run
  by hand.
* Parsing: a pure function that may refuse a message (`Broken`).
* Gmail and Microsoft 365: their listings are what ImportEngine assumes of any
  provider; HTTP adapters and consent flows are I/O.
* Queries, natural-language search, search and reading, the MCP server: read-only.
* The interpreter's settings are twins of the embedder's; calendar settings have one writer.
* Composition, migrations, build scripts, the Tauri shell: wiring and I/O.

## Plan

Done, in this order: job queue, worker and lifecycle; import engine and page
pipeline; scheduling with the eraser (MailboxJobs); graph server and supervisors;
derived layer with tags; semantic index; credentials; embedder settings; IMAP walks;
the proofs above, which state every safety property. Open: the page's hang composed
into JobWorker; ImapWalk's walk shown to implement what ImportEngine assumes of a
provider; the refinement of JobLifecycle without `Punctual`, for what it still promises.
