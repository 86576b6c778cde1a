----------------------------- MODULE MailboxJobs -----------------------------
(***************************************************************************)
(* Who queues a job for a mailbox, who runs it, and who may empty the      *)
(* mailbox meanwhile: the timer's sweep and the rail's Sync button         *)
(* (mailarc_sync, jobs/sweep.py), the import panel (mailarc_ui), the       *)
(* worker's import handler (app/worker.py) and the clear-out               *)
(* (mailarc_sync, erase/eraser.py, over mailarc_core, archive/purge.py).   *)
(*                                                                         *)
(* Every one of them reads in one transaction and writes in another, and   *)
(* none holds a lock over both.  A job is open until it ends (JobQueue and *)
(* JobWorker say how), an import is one page (ImportEngine has the rest).  *)
(***************************************************************************)
EXTENDS Integers, Sequences, FiniteSets

CONSTANTS
    Account,
    Mail,       \* how many messages a mailbox holds at its provider
    Shared,     \* message numbers every mailbox received: one node, an edge each
    Delta,      \* accounts whose provider supports_incremental
    Sweeper,    \* the sweeps that run side by side, of "timer" and "button"
    Panel,      \* mailboxes with an import panel open
    Nobody,     \* no mailbox
    PageSize,   \* purge_account's page
    MaxJobs,    \* bound: jobs ever queued
    MaxFaults   \* bound: crashes, database errors, refused credentials, broken clear-outs

ASSUME MailboxAssumption ==
    /\ IsFiniteSet(Account) /\ Nobody \notin Account
    /\ Mail \in [Account -> Nat \ {0}]
    /\ Shared \subseteq Nat /\ Delta \subseteq Account
    /\ Sweeper \subseteq {"timer", "button"} /\ Panel \subseteq Account
    /\ PageSize \in Nat \ {0} /\ MaxJobs \in Nat /\ MaxFaults \in Nat

Asker   == Sweeper \cup {"panel"}
Kind    == {"import", "incremental"}      \* MAILBOX_KINDS

VARIABLES
    jobs,      \* mail_sync_jobs by id: kind, account, state, who queued it
    sweep,     \* each sweep: where it stands, the candidates left, its choice
    panel,     \* each panel: where its start button stands, the job it follows
    run,       \* the worker: where its handler stands, and what the run read
    erase,     \* the clear-out: where it stands, and what the purge read
    mark, ledger, auth,   \* per mailbox: delta checkpoint, ledger, auth_error
    copies,    \* ARCHIVED_FROM: <<account, node>>; a node lives while it has one
    half,      \* history: mailboxes whose last clear-out broke off
    raced,     \* history: mailboxes something was in flight for during a clear-out
    faults

jobVars  == <<jobs, sweep, panel>>
mailVars == <<mark, ledger, auth, copies>>
vars     == <<jobVars, run, erase, mailVars, half, raced, faults>>

None == 0

(* ArchiveSource: the same mail in two mailboxes is one node. *)
Node(a, m) == IF m \in Shared THEN <<Nobody, m>> ELSE <<a, m>>

Held(a) == {m \in 1..Mail[a] : <<a, Node(a, m)>> \in copies}

IdleSweep == [at |-> "idle", rest |-> {}, account |-> Nobody, kind |-> "import"]
IdleRun   == [at |-> "idle", job |-> None, from |-> None, todo |-> {}]
IdleErase == [at |-> "idle", account |-> Nobody, after |-> 0, page |-> {},
              elsewhere |-> {}, shared |-> FALSE]

Init ==
    /\ jobs = <<>>
    /\ sweep = [s \in Sweeper |-> IdleSweep]
    /\ panel = [a \in Panel |-> [at |-> "idle", job |-> None]]
    /\ run = IdleRun /\ erase = IdleErase
    /\ \E imported \in SUBSET Account :    \* an archive that has been in use, new mail since
         /\ mark = [a \in Account |-> IF a \in imported THEN 1 ELSE None]
         /\ ledger = [a \in Account |-> IF a \in imported THEN {1} ELSE {}]
         /\ copies = {<<a, Node(a, 1)>> : a \in imported}
    /\ auth = [a \in Account |-> FALSE]
    /\ half = {} /\ raced = {} /\ faults = 0

-----------------------------------------------------------------------------
(* The queue, as far as an asker sees it.                                  *)

IsOpen(i) == jobs[i].state # "ended"

Open(kind, a) == {i \in DOMAIN jobs : jobs[i].kind = kind /\ jobs[i].account = a /\ IsOpen(i)}

OpenFor(a) == {i \in DOMAIN jobs : jobs[i].account = a /\ IsOpen(i)}

Oldest(ids) == CHOOSE i \in ids : \A j \in ids : i <= j

Enqueue(by, kind, a) ==
    /\ Len(jobs) < MaxJobs
    /\ jobs' = Append(jobs, [kind |-> kind, account |-> a, state |-> "queued",
                             by |-> by])

Ended(i) == [jobs EXCEPT ![i].state = "ended"]

-----------------------------------------------------------------------------
(* A sweep: the enabled accounts and their status are read once, then each *)
(* candidate is asked about, and its job queued in another transaction.    *)

Turn(s, rest) ==
    \/ rest = {} /\ sweep' = [sweep EXCEPT ![s] = IdleSweep]
    \/ LET a == CHOOSE b \in rest : TRUE    \* in the order of the rows
       IN  /\ rest # {}
           /\ sweep' = [sweep EXCEPT ![s] = [at |-> "sort", rest |-> rest \ {a},
                                             account |-> a, kind |-> "import"]]

(* _candidates, and _sort's first answer: auth_error waits for a human. *)
Candidates == {a \in Account : ~auth[a]}

SweepBegins(s) ==
    /\ sweep[s].at = "idle" /\ Candidates # {}
    /\ Turn(s, Candidates)
    /\ UNCHANGED <<jobs, panel, run, erase, mailVars, half, faults>>

ArmedAnyway(a) == a \in Delta    \* mutant of Armed

(* _does_deltas and _is_armed. *)
Armed(a) == a \in Delta /\ mark[a] # None

SortBlindly(s) ==    \* mutant of Sort
    /\ sweep[s].at = "sort"
    /\ sweep' = [sweep EXCEPT ![s].at = "enqueue"]
    /\ UNCHANGED <<jobs, panel, run, erase, mailVars, half, faults>>

(* _is_open and _kind_for: reads only, so they are taken at one moment. *)
Sort(s) ==
    LET a == sweep[s].account
    IN  /\ sweep[s].at = "sort"
        /\ IF OpenFor(a) = {} /\ (Armed(a) \/ s = "button")
           THEN sweep' = [sweep EXCEPT ![s].at = "enqueue",
                            ![s].kind = IF Armed(a) THEN "incremental" ELSE "import"]
           ELSE Turn(s, sweep[s].rest)
        /\ UNCHANGED <<jobs, panel, run, erase, mailVars, half, faults>>

SweepQueues(s) ==
    /\ sweep[s].at = "enqueue"
    /\ Enqueue(s, sweep[s].kind, sweep[s].account)
    /\ Turn(s, sweep[s].rest)
    /\ UNCHANGED <<panel, run, erase, mailVars, half, faults>>

(* One mailbox, one failure: the next candidate has its turn. *)
SweepTrips(s) ==
    /\ sweep[s].at # "idle" /\ faults < MaxFaults
    /\ faults' = faults + 1
    /\ Turn(s, sweep[s].rest)
    /\ UNCHANGED <<jobs, panel, run, erase, mailVars, half>>

-----------------------------------------------------------------------------
(* An import panel's start button: it adopts an open import, reads the job *)
(* it follows, and queues one if that job is not open.                     *)

Follows(a) == panel[a].job # None /\ IsOpen(panel[a].job)

PanelAdopts(a) ==
    LET open == Open("import", a)
    IN  /\ panel[a].at = "idle"
        /\ panel' = [panel EXCEPT ![a] = [at |-> "read",
                        job |-> IF open = {} THEN panel[a].job ELSE Oldest(open)]]
        /\ UNCHANGED <<jobs, sweep, run, erase, mailVars, half, faults>>

PanelReads(a) ==
    /\ panel[a].at = "read"
    /\ panel' = [panel EXCEPT ![a].at = IF Follows(a) THEN "idle" ELSE "enqueue"]
    /\ UNCHANGED <<jobs, sweep, run, erase, mailVars, half, faults>>

PanelQueues(a) ==
    /\ panel[a].at = "enqueue"
    /\ Enqueue("panel", "import", a)
    /\ panel' = [panel EXCEPT ![a] = [at |-> "idle", job |-> Len(jobs) + 1]]
    /\ UNCHANGED <<sweep, run, erase, mailVars, half, faults>>

(* request_cancel ends a queued job.  (The flag on a running one, which a   *)
(* single page never reads, changes nothing here.)                          *)
PanelCancels(a) ==
    /\ Follows(a) /\ panel[a].at = "idle" /\ jobs[panel[a].job].state = "queued"
    /\ jobs' = Ended(panel[a].job)
    /\ UNCHANGED <<sweep, panel, run, erase, mailVars, half, faults>>

-----------------------------------------------------------------------------
(* The worker: one job at a time, oldest first.                            *)

Job     == jobs[run.job]
Mailbox == jobs[run.job].account

(* A claim opens the mailbox: _resume and _starting_mark. *)
Claim ==
    LET queued == {i \in DOMAIN jobs : jobs[i].state = "queued"}
        i      == Oldest(queued)
        delta  == jobs[i].kind = "incremental"
        start  == IF delta THEN mark[jobs[i].account] ELSE None
    IN  /\ run.at = "idle" /\ queued # {}
        /\ run' = [at |-> IF delta /\ start = None THEN "bootstrap" ELSE "list",
                   job |-> i, from |-> start, todo |-> {}]
        /\ jobs' = [jobs EXCEPT ![i].state = "running"]
        /\ UNCHANGED <<sweep, panel, erase, mailVars, half, faults>>

(* A delta with no checkpoint stores where a later one may start. *)
Bootstrap ==
    /\ run.at = "bootstrap"
    /\ mark' = [mark EXCEPT ![Mailbox] = Mail[Mailbox]]
    /\ run' = [run EXCEPT !.at = "settle"]
    /\ UNCHANGED <<jobVars, erase, ledger, auth, copies, half, faults>>

(* list_messages and _unarchived. *)
List ==
    /\ run.at = "list"
    /\ run' = [run EXCEPT !.todo = (run.from + 1 .. Mail[Mailbox]) \ ledger[Mailbox],
                          !.at = "graph"]
    /\ UNCHANGED <<jobVars, erase, mailVars, half, faults>>

WriteGraph ==
    /\ run.at = "graph"
    /\ copies' = copies \cup {<<Mailbox, Node(Mailbox, m)>> : m \in run.todo}
    /\ run' = [run EXCEPT !.at = "ledger"]
    /\ UNCHANGED <<jobVars, erase, mark, ledger, auth, half, faults>>

WriteLedger ==
    /\ run.at = "ledger"
    /\ ledger' = [ledger EXCEPT ![Mailbox] = @ \cup run.todo]
    /\ run' = [run EXCEPT !.at = "finish"]
    /\ UNCHANGED <<jobVars, erase, mark, auth, copies, half, faults>>

(* The last page's loop ends before it asks for a cancel. *)
StoreWatermark ==
    /\ run.at = "finish"
    /\ mark' = [mark EXCEPT ![Mailbox] = Mail[Mailbox]]
    /\ run' = [run EXCEPT !.at = "settle"]
    /\ UNCHANGED <<jobVars, erase, ledger, auth, copies, half, faults>>

Settle ==
    /\ run.at = "settle"
    /\ jobs' = Ended(run.job)
    /\ run' = IdleRun
    /\ UNCHANGED <<sweep, panel, erase, mailVars, half, faults>>

(* The provider refuses the credential: _mark_auth_error, and the job fails. *)
AuthFails ==
    /\ run.at = "list" /\ faults < MaxFaults
    /\ faults' = faults + 1
    /\ auth' = [auth EXCEPT ![Mailbox] = TRUE]
    /\ jobs' = Ended(run.job)
    /\ run' = IdleRun
    /\ UNCHANGED <<sweep, panel, erase, mark, ledger, copies, half>>

Consent(a) ==
    /\ auth[a]
    /\ auth' = [auth EXCEPT ![a] = FALSE]
    /\ UNCHANGED <<jobVars, run, erase, mark, ledger, copies, half, faults>>

(* The worker process dies: its timer with it, its job returns by the lease. *)
Crash ==
    /\ faults < MaxFaults /\ run.at # "idle"
    /\ faults' = faults + 1
    /\ jobs' = [jobs EXCEPT ![run.job].state = "queued"]
    /\ run' = IdleRun
    /\ sweep' = [s \in Sweeper |-> IF s = "timer" THEN IdleSweep ELSE sweep[s]]
    /\ UNCHANGED <<panel, erase, mailVars, half>>

-----------------------------------------------------------------------------
(* The clear-out: one idle check, the purge page by page, the rows.        *)

Purging(a) == erase.at # "idle" /\ erase.account = a

RequireIdle(a) ==
    /\ erase.at = "idle" /\ OpenFor(a) = {}
    /\ erase' = [IdleErase EXCEPT !.at = "page", !.account = a, !.after = Mail[a] + 1]
    /\ UNCHANGED <<jobVars, run, mailVars, half, faults>>

(* The next ids behind the cursor, in the order of the ids. *)
NextPage ==
    LET left == {m \in Held(erase.account) : m < erase.after}
    IN  {m \in left : Cardinality({n \in left : n > m}) < PageSize}

ReadPage ==
    /\ erase.at = "page"
    /\ erase' = IF NextPage = {}
                THEN [erase EXCEPT !.at = IF erase.shared THEN "copies" ELSE "forget"]
                ELSE [erase EXCEPT !.at = "classify", !.page = NextPage,
                                   !.after = CHOOSE m \in NextPage : \A n \in NextPage : m <= n]
    /\ UNCHANGED <<jobVars, run, mailVars, half, faults>>

(* _shared_ids: what another account also archived. *)
Elsewhere(a, m) == \E b \in Account \ {a} : <<b, Node(a, m)>> \in copies

ClassifyNothing ==    \* mutant: every message counts as exclusive
    /\ erase.at = "classify"
    /\ erase' = [erase EXCEPT !.at = "delete"]
    /\ UNCHANGED <<jobVars, run, mailVars, half, faults>>

Classify ==
    LET found == {m \in erase.page : Elsewhere(erase.account, m)}
    IN  /\ erase.at = "classify"
        /\ erase' = [erase EXCEPT !.at = "delete", !.elsewhere = found,
                                  !.shared = @ \/ found # {}]
        /\ UNCHANGED <<jobVars, run, mailVars, half, faults>>

(* DETACH DELETE: the node goes, and every edge to it. *)
DeleteMessages ==
    LET gone == {Node(erase.account, m) : m \in erase.page \ erase.elsewhere}
    IN  /\ erase.at = "delete"
        /\ copies' = {c \in copies : c[2] \notin gone}
        /\ erase' = [erase EXCEPT !.at = "page", !.page = {}, !.elsewhere = {}]
        /\ UNCHANGED <<jobVars, run, mark, ledger, auth, half, faults>>

DropNothing ==    \* mutant of DropCopies
    /\ erase.at = "copies"
    /\ erase' = [erase EXCEPT !.at = "forget"]
    /\ UNCHANGED <<jobVars, run, mailVars, half, faults>>

DropCopies ==
    /\ erase.at = "copies"
    /\ copies' = {c \in copies : c[1] # erase.account}
    /\ erase' = [erase EXCEPT !.at = "forget"]
    /\ UNCHANGED <<jobVars, run, mark, ledger, auth, half, faults>>

ForgetLedgerOnly ==    \* mutant: the checkpoints stay
    /\ erase.at = "forget"
    /\ ledger' = [ledger EXCEPT ![erase.account] = {}]
    /\ half' = half \ {erase.account}
    /\ erase' = IdleErase
    /\ UNCHANGED <<jobVars, run, mark, auth, copies, faults>>

(* _forget: ledger and checkpoints in one transaction. *)
Forget ==
    /\ erase.at = "forget"
    /\ ledger' = [ledger EXCEPT ![erase.account] = {}]
    /\ mark' = [mark EXCEPT ![erase.account] = None]
    /\ half' = half \ {erase.account}
    /\ erase' = IdleErase
    /\ UNCHANGED <<jobVars, run, auth, copies, faults>>

(* A store fails or the application dies; the person may clear it again. *)
BreakOff ==
    /\ erase.at # "idle" /\ faults < MaxFaults
    /\ faults' = faults + 1
    /\ half' = half \cup {erase.account}
    /\ erase' = IdleErase
    /\ UNCHANGED <<jobVars, run, mailVars>>

-----------------------------------------------------------------------------
SweepStep(s) == SweepBegins(s) \/ Sort(s) \/ SweepQueues(s) \/ SweepTrips(s)

PanelStep(a) == PanelAdopts(a) \/ PanelReads(a) \/ PanelQueues(a) \/ PanelCancels(a)

RunStep ==
    \/ Claim \/ Bootstrap \/ List \/ WriteGraph \/ WriteLedger
    \/ StoreWatermark \/ Settle

EraseStep ==
    \/ \E a \in Account : RequireIdle(a)
    \/ ReadPage \/ Classify \/ DeleteMessages \/ DropCopies \/ Forget

Step ==
    \/ \E s \in Sweeper : SweepStep(s)
    \/ \E a \in Panel : PanelStep(a)
    \/ RunStep \/ AuthFails \/ Crash
    \/ EraseStep \/ BreakOff
    \/ \E a \in Account : Consent(a)

(* What is in flight for a mailbox while one is emptied: its run, and for   *)
(* the mailbox being emptied also a job that waits and a delta decided on.  *)
InFlight(a) ==
    \/ run.at # "idle" /\ Mailbox = a
    \/ Purging(a) /\ OpenFor(a) # {}
    \/ Purging(a) /\ \E s \in Sweeper : sweep[s].at = "enqueue" /\ sweep[s].account = a

Next ==
    /\ Step
    /\ raced' = IF erase'.at = "idle" THEN raced
                ELSE raced \cup {a \in Account : InFlight(a)'}

Spec == Init /\ [][Next]_vars

-----------------------------------------------------------------------------
Undisturbed(a) == a \notin half \cup raced /\ ~Purging(a)

(* A mailbox with a delta mark holds everything the mark covers, whatever    *)
(* was cleared, broken off, cleared again and imported in between: the next  *)
(* delta starts at the mark and nothing else ever looks before it.           *)
ArmedMeansImported ==
    \A a \in Account : Undisturbed(a) => 1..mark[a] \subseteq Held(a)

(* What a mailbox's ledger claims is in the graph, also after another        *)
(* mailbox that holds the same message was cleared.                          *)
LedgerIsHeld == \A a \in Account : Undisturbed(a) => ledger[a] \subseteq Held(a)

(* Nobody but a clear-out in flight leaves a delta without a start: a delta  *)
(* that finds no mark arms the mailbox at today's mail and reports success.  *)
DeltaHasAStart ==
    \A a \in Account \ raced : Open("incremental", a) # {} => mark[a] # None

(* The rows are forgotten only once the graph holds nothing of the mailbox:  *)
(* neither a message of its own nor its edge to a shared one.                *)
PurgedBeforeForgotten ==
    erase.at = "forget" /\ erase.account \notin raced => Held(erase.account) = {}

(* Two open jobs for one mailbox were queued by two askers that looked at    *)
(* the same time: a sweep never adds one to a job of its own.  (A panel can: *)
(* the job it adopts may end before it reads it, with one of its own waiting *)
(* behind.)                                                                  *)
OneOpenJobPerSweep ==
    \A a \in Account : \A i, j \in OpenFor(a) :
        i # j /\ jobs[i].by \in Sweeper => jobs[i].by # jobs[j].by
=============================================================================
