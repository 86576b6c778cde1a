-------------------------- MODULE MailboxJobsProofs --------------------------
(***************************************************************************)
(* What holds of any number of mailboxes, sweeps and panels, whatever is   *)
(* cleared out, broken off, cleared again and imported in between, and     *)
(* whatever crashes.  The argument is about what may happen to a mailbox   *)
(* while it is being emptied: Next keeps the book of it in raced, and a    *)
(* mailbox that is not in it had no run, no job and no decision then.      *)
(***************************************************************************)
EXTENDS MailboxJobs, WellFoundedInduction, FiniteSetTheorems, SequenceTheorems, TLAPS

JobStates == {"queued", "running", "ended"}
JobRow    == [kind : Kind, account : Account, state : JobStates, by : Asker]

RunAt   == {"idle", "bootstrap", "list", "graph", "ledger", "finish", "settle"}
EraseAt == {"idle", "page", "classify", "delete", "copies", "forget"}

SweepState == [at : {"idle", "sort", "enqueue"}, rest : SUBSET Account,
               account : Account \cup {Nobody}, kind : Kind]
PanelState == [at : {"idle", "read", "enqueue"}, job : Nat]
RunState   == [at : RunAt, job : Nat, from : Nat, todo : SUBSET Nat]
EraseState == [at : EraseAt, account : Account \cup {Nobody}, after : Nat,
               page : SUBSET Nat, elsewhere : SUBSET Nat, shared : BOOLEAN]

TypeOK ==
    /\ jobs \in Seq(JobRow)
    /\ sweep \in [Sweeper -> SweepState] /\ panel \in [Panel -> PanelState]
    /\ run \in RunState /\ erase \in EraseState
    /\ mark \in [Account -> Nat]
    /\ ledger \in [Account -> SUBSET Nat]
    /\ auth \in [Account -> BOOLEAN]
    /\ copies \subseteq Account \X ((Account \cup {Nobody}) \X Nat)
    /\ half \subseteq Account /\ raced \subseteq Account /\ faults \in Nat

(* Who works on what: a sweep and a clear-out on a mailbox, the worker on a  *)
(* job that runs, a panel on a job that exists.                              *)
Busy ==
    /\ \A s \in Sweeper : sweep[s].at # "idle" => sweep[s].account \in Account
    /\ erase.at # "idle" => erase.account \in Account
    /\ run.at # "idle" => run.job \in DOMAIN jobs /\ jobs[run.job].state = "running"
    /\ \A a \in Panel : panel[a].job \in 0..Len(jobs)

(* The book is kept.                                                         *)
Booked == erase.at # "idle" => \A a \in Account : InFlight(a) => a \in raced

(* A delta somebody decided on, queued or runs has its start.                *)
DeltasStart ==
    /\ DeltaHasAStart
    /\ \A s \in Sweeper : sweep[s].at = "enqueue" /\ sweep[s].kind = "incremental"
                            => mark[sweep[s].account] # None \/ sweep[s].account \in raced
    /\ run.at = "bootstrap" => Mailbox \in raced

(* What a run has read and written so far, of what it is about to claim.     *)
RunReads ==
    run.at # "idle" /\ Mailbox \notin half \cup raced =>
        /\ run.at \in {"list", "graph", "ledger", "finish"} => 1..run.from \subseteq Held(Mailbox)
        /\ run.at \in {"graph", "ledger", "finish"} =>
             run.from + 1 .. Mail[Mailbox] \subseteq ledger[Mailbox] \cup run.todo
        /\ run.at \in {"graph", "ledger", "finish"} => run.todo \subseteq 1..Mail[Mailbox]
        /\ run.at \in {"ledger", "finish"} => run.todo \subseteq Held(Mailbox)
        /\ run.at = "finish" => run.todo \subseteq ledger[Mailbox]

(* A page that was classified holds nothing another mailbox has.             *)
Exclusive ==
    erase.at = "delete" =>
        \A m \in erase.page \ erase.elsewhere : \A a \in Account \ {erase.account} :
            a \notin raced => <<a, Node(erase.account, m)>> \notin copies

(* How far the purge has come.                                               *)
Purged ==
    erase.at # "idle" /\ erase.account \notin raced =>
        /\ erase.at = "page" /\ ~erase.shared => \A m \in Held(erase.account) : m < erase.after
        /\ erase.at \in {"classify", "delete"} /\ ~erase.shared =>
             \A m \in Held(erase.account) : m < erase.after \/ m \in erase.page
        /\ erase.at = "delete" /\ ~erase.shared => erase.elsewhere = {}
        /\ erase.at = "forget" => Held(erase.account) = {}

(* What a sweep decided on it has not queued before.                         *)
OwnJobs ==
    /\ OneOpenJobPerSweep
    /\ \A s \in Sweeper : sweep[s].at = "enqueue" =>
         \A i \in OpenFor(sweep[s].account) : jobs[i].by # s

MInv ==
    /\ TypeOK /\ Busy /\ Booked /\ DeltasStart /\ OwnJobs
    /\ LedgerIsHeld /\ ArmedMeansImported /\ RunReads /\ Exclusive /\ Purged
USE MailboxAssumption

-----------------------------------------------------------------------------
(* Numbers and pages.                                                        *)
LEMMA Least ==
    ASSUME NEW S \in SUBSET Nat, S # {}
    PROVE  \E x \in S : \A y \in S : x <= y
<1> DEFINE R == OpToRel(<, Nat)
<1>1. IsWellFoundedOn(R, Nat)
  BY NatLessThanWellFounded
<1>2. \A x, y \in Nat : y < x => <<y, x>> \in R
  BY DEF OpToRel
<1> HIDE DEF R
<1>3. PICK x \in S : \A y \in S : ~(<<y, x>> \in R)
  BY <1>1, WFMin
<1>4. \A y \in S : ~(y < x)
  BY <1>2, <1>3
<1> QED BY <1>4

LEMMA Greatest ==
    ASSUME NEW n \in Nat, NEW S \in SUBSET Nat, \A x \in S : x <= n, S # {}
    PROVE  \E x \in S : \A y \in S : y <= x
<1> DEFINE T == {n - x : x \in S}
<1>1. T \in SUBSET Nat /\ T # {}
  <2>1. \A x \in S : n - x \in Nat
    OBVIOUS
  <2>2. \E x \in S : n - x \in T
    OBVIOUS
  <2> QED BY <2>1, <2>2
<1>2. PICK t \in T : \A u \in T : t <= u
  BY <1>1, Least
<1>3. PICK x \in S : t = n - x
  OBVIOUS
<1>4. \A y \in S : n - y \in T
  OBVIOUS
<1> HIDE DEF T
<1>5. \A y \in S : n - x <= n - y
  BY <1>2, <1>3, <1>4
<1> QED BY <1>5

LeastOf(S) == CHOOSE m \in S : \A k \in S : m <= k

(* A page behind the cursor: empty only when nothing is left, and nothing    *)
(* that is left lies above its least.                                        *)
LEMMA PageFacts ==
    ASSUME NEW n \in Nat, NEW left \in SUBSET (1..n),
           NEW page, page = {m \in left : Cardinality({k \in left : k > m}) < PageSize}
    PROVE  /\ page = {} => left = {}
           /\ page # {} => /\ LeastOf(page) \in Nat
                           /\ \A m \in left : m < LeastOf(page) \/ m \in page
<1>0. \A k \in left : k \in Nat /\ k <= n
  OBVIOUS
<1>1. IsFiniteSet(left)
  <2>1. IsFiniteSet(1..n)
    BY FS_Interval
  <2> QED BY <2>1, FS_Subset
<1>2. ASSUME left # {} PROVE page # {}
  <2>1. left \in SUBSET Nat /\ \A x \in left : x <= n
    BY <1>0
  <2>2. PICK x \in left : \A y \in left : y <= x
    BY <1>2, <2>1, Greatest
  <2>3. {k \in left : k > x} = {}
    <3>1. \A k \in left : ~(k > x)
      BY <1>0, <2>2
    <3> QED BY <3>1
  <2>4. Cardinality({k \in left : k > x}) = 0
    BY <2>3, FS_EmptySet
  <2>5. PageSize \in Nat /\ 0 < PageSize
    OBVIOUS
  <2> QED BY <2>2, <2>4, <2>5
<1>3. ASSUME page # {}
      PROVE  LeastOf(page) \in Nat /\ \A m \in left : m < LeastOf(page) \/ m \in page
  <2> DEFINE low == LeastOf(page)
  <2>1. page \in SUBSET Nat
    <3>1. page \subseteq left
      OBVIOUS
    <3> QED BY <1>0, <3>1
  <2>2. \E m \in page : \A k \in page : m <= k
    BY <1>3, <2>1, Least
  <2>3. low \in page /\ \A k \in page : low <= k
    BY <2>2 DEF LeastOf
  <2> HIDE DEF low
  <2>4. low \in left /\ low \in Nat /\ Cardinality({k \in left : k > low}) < PageSize
    BY <2>1, <2>3
  <2>5. ASSUME NEW m \in left, ~(m < low) PROVE m \in page
    <3>1. {k \in left : k > m} \subseteq {k \in left : k > low}
      <4>1. \A k \in left : k > m => k > low
        BY <1>0, <2>4, <2>5
      <4> QED BY <4>1
    <3>2. IsFiniteSet({k \in left : k > low})
      <4>1. {k \in left : k > low} \in SUBSET left
        OBVIOUS
      <4> QED BY <1>1, <4>1, FS_Subset
    <3>3. /\ IsFiniteSet({k \in left : k > m})
          /\ Cardinality({k \in left : k > m}) <= Cardinality({k \in left : k > low})
      BY <3>1, <3>2, FS_Subset
    <3>4. /\ Cardinality({k \in left : k > m}) \in Nat
          /\ Cardinality({k \in left : k > low}) \in Nat
      BY <3>2, <3>3, FS_CardinalityType
    <3>5. Cardinality({k \in left : k > m}) < PageSize
      BY <2>4, <3>3, <3>4
    <3> QED BY <3>5
  <2>6. low \in Nat /\ \A m \in left : m < low \/ m \in page
    BY <2>4, <2>5
  <2> QED BY <2>6 DEF low
<1> QED BY <1>2, <1>3

(* The next page of the mailbox being emptied.                               *)
LEMMA NextPageFacts ==
    ASSUME erase.account \in Account, erase.after \in Nat
    PROVE  /\ NextPage \in SUBSET Nat
           /\ NextPage = {} => \A m \in Held(erase.account) : ~(m < erase.after)
           /\ NextPage # {} =>
                /\ LeastOf(NextPage) \in Nat
                /\ \A m \in Held(erase.account) :
                     m < erase.after => m < LeastOf(NextPage) \/ m \in NextPage
<1> DEFINE left == {m \in Held(erase.account) : m < erase.after}
<1>1. Mail[erase.account] \in Nat /\ left \in SUBSET (1..Mail[erase.account])
  BY DEF Held
<1>2. NextPage = {m \in left : Cardinality({k \in left : k > m}) < PageSize}
  BY DEF NextPage
<1> HIDE DEF left
<1>3. /\ NextPage = {} => left = {}
      /\ NextPage # {} => /\ LeastOf(NextPage) \in Nat
                          /\ \A m \in left : m < LeastOf(NextPage) \/ m \in NextPage
  <2> DEFINE page == NextPage
  <2>1. page = {m \in left : Cardinality({k \in left : k > m}) < PageSize}
    BY <1>2
  <2> HIDE DEF page
  <2>2. /\ page = {} => left = {}
        /\ page # {} => /\ LeastOf(page) \in Nat
                        /\ \A m \in left : m < LeastOf(page) \/ m \in page
    BY <1>1, <2>1, PageFacts
  <2> QED BY <2>2 DEF page
<1>4. NextPage \in SUBSET Nat
  <2>1. \A m \in left : m \in Nat
    BY <1>1
  <2> QED BY <1>2, <2>1
<1> QED BY <1>3, <1>4 DEF left

(* A node says whose message it is, unless it is shared.                     *)
LEMMA Nodes ==
    /\ \A a \in Account, m, n \in Nat : Node(a, m) = Node(a, n) => m = n
    /\ \A a, b \in Account, m, n \in Nat : Node(a, m) = Node(b, n) => m = n
BY DEF Node
-----------------------------------------------------------------------------
(* The queue: what is added and what is moved.                               *)
Row(by, kind, a)   == [kind |-> kind, account |-> a, state |-> "queued", by |-> by]
Added(by, kind, a) == jobs' = Append(jobs, Row(by, kind, a))
Moved(i, state)    == jobs' = [jobs EXCEPT ![i].state = state]

LEMMA AddFacts ==
    ASSUME jobs \in Seq(JobRow), NEW by \in Asker, NEW kind \in Kind, NEW a \in Account,
           Added(by, kind, a)
    PROVE  /\ jobs' \in Seq(JobRow) /\ Len(jobs') = Len(jobs) + 1 /\ Len(jobs) \in Nat
           /\ DOMAIN jobs = 1..Len(jobs) /\ DOMAIN jobs' = 1..Len(jobs) + 1
           /\ \A i \in DOMAIN jobs : jobs'[i] = jobs[i]
           /\ jobs'[Len(jobs) + 1] = Row(by, kind, a)
<1>1. Row(by, kind, a) \in JobRow
  BY DEF Row, JobRow, JobStates
<1>2. Len(jobs) \in Nat /\ DOMAIN jobs = 1..Len(jobs)
  BY LenProperties
<1> QED BY <1>1, <1>2 DEF Added

LEMMA MoveFacts ==
    ASSUME jobs \in Seq(JobRow), NEW i \in DOMAIN jobs, NEW state \in JobStates,
           Moved(i, state)
    PROVE  /\ jobs' \in Seq(JobRow) /\ Len(jobs') = Len(jobs) /\ Len(jobs) \in Nat
           /\ DOMAIN jobs = 1..Len(jobs) /\ DOMAIN jobs' = DOMAIN jobs
           /\ jobs'[i] = [jobs[i] EXCEPT !.state = state]
           /\ \A j \in DOMAIN jobs : j # i => jobs'[j] = jobs[j]
<1>1. Len(jobs) \in Nat /\ DOMAIN jobs = 1..Len(jobs)
  BY LenProperties
<1> DEFINE row == [jobs[i] EXCEPT !.state = state]
<1>2. row \in JobRow
  <2>1. jobs[i] \in JobRow
    BY <1>1, ElementOfSeq
  <2> QED BY <2>1 DEF JobRow
<1>3. jobs' = [jobs EXCEPT ![i] = row]
  BY DEF Moved
<1> HIDE DEF row
<1>4. /\ jobs' \in Seq(JobRow) /\ Len(jobs') = Len(jobs)
      /\ \A j \in 1..Len(jobs) : jobs'[j] = IF j = i THEN row ELSE jobs[j]
  BY <1>1, <1>2, <1>3, ExceptSeq
<1>5. DOMAIN jobs' = 1..Len(jobs')
  BY <1>4, LenProperties
<1> QED BY <1>1, <1>4, <1>5 DEF row

LEMMA RowFacts ==
    ASSUME jobs \in Seq(JobRow), NEW i \in DOMAIN jobs
    PROVE  /\ jobs[i] \in JobRow
           /\ jobs[i].kind \in Kind /\ jobs[i].account \in Account
           /\ jobs[i].state \in JobStates /\ jobs[i].by \in Asker
<1>1. jobs[i] \in JobRow
  BY LenProperties, ElementOfSeq
<1> QED BY <1>1 DEF JobRow

LEMMA OldestFact ==
    ASSUME NEW ids \in SUBSET Nat, ids # {}
    PROVE  Oldest(ids) \in ids
BY Least DEF Oldest

(* What happens to the open jobs of a mailbox.                               *)
LEMMA AddedOpen ==
    ASSUME jobs \in Seq(JobRow), NEW by \in Asker, NEW kind \in Kind, NEW a \in Account,
           Added(by, kind, a), NEW b \in Account
    PROVE  /\ OpenFor(b)' = IF a = b THEN OpenFor(b) \cup {Len(jobs) + 1} ELSE OpenFor(b)
           /\ \A i \in OpenFor(b) : i \in DOMAIN jobs /\ jobs'[i] = jobs[i]
           /\ jobs'[Len(jobs) + 1].by = by /\ jobs'[Len(jobs) + 1].kind = kind
           /\ Len(jobs) + 1 \notin DOMAIN jobs
<1>1. /\ Len(jobs) \in Nat /\ DOMAIN jobs = 1..Len(jobs) /\ DOMAIN jobs' = 1..Len(jobs) + 1
      /\ \A i \in DOMAIN jobs : jobs'[i] = jobs[i]
      /\ jobs'[Len(jobs) + 1] = Row(by, kind, a)
  BY AddFacts
<1>2. /\ Row(by, kind, a).account = a /\ Row(by, kind, a).state = "queued"
      /\ Row(by, kind, a).by = by /\ Row(by, kind, a).kind = kind
  BY DEF Row
<1>3. DOMAIN jobs' = DOMAIN jobs \cup {Len(jobs) + 1} /\ Len(jobs) + 1 \notin DOMAIN jobs
  BY <1>1
<1>4. OpenFor(b)' = IF a = b THEN OpenFor(b) \cup {Len(jobs) + 1} ELSE OpenFor(b)
  BY <1>1, <1>2, <1>3 DEF OpenFor, IsOpen
<1> QED BY <1>1, <1>2, <1>3, <1>4 DEF OpenFor

LEMMA MovedOpen ==
    ASSUME jobs \in Seq(JobRow), NEW i \in DOMAIN jobs, NEW state \in JobStates,
           IsOpen(i), Moved(i, state)
    PROVE  /\ \A b \in Account : OpenFor(b)' =
                IF state = "ended" THEN OpenFor(b) \ {i} ELSE OpenFor(b)
           /\ \A j \in DOMAIN jobs : /\ jobs'[j].kind = jobs[j].kind
                                     /\ jobs'[j].account = jobs[j].account
                                     /\ jobs'[j].by = jobs[j].by
           /\ jobs'[i].state = state
<1>1. /\ DOMAIN jobs' = DOMAIN jobs
      /\ jobs'[i] = [jobs[i] EXCEPT !.state = state]
      /\ \A j \in DOMAIN jobs : j # i => jobs'[j] = jobs[j]
  BY MoveFacts
<1>2. /\ jobs'[i].kind = jobs[i].kind /\ jobs'[i].account = jobs[i].account
      /\ jobs'[i].by = jobs[i].by /\ jobs'[i].state = state
  BY <1>1, RowFacts DEF JobRow
<1>3. ASSUME NEW b \in Account
      PROVE  OpenFor(b)' = IF state = "ended" THEN OpenFor(b) \ {i} ELSE OpenFor(b)
  <2>1. \A j \in DOMAIN jobs : /\ jobs'[j].account = jobs[j].account
                               /\ j # i => jobs'[j].state = jobs[j].state
    BY <1>1, <1>2
  <2>2. OpenFor(b) = {j \in DOMAIN jobs : jobs[j].account = b /\ jobs[j].state # "ended"}
    BY DEF OpenFor, IsOpen
  <2>3. OpenFor(b)' = {j \in DOMAIN jobs : jobs[j].account = b /\ jobs'[j].state # "ended"}
    BY <1>1, <2>1 DEF OpenFor, IsOpen
  <2>4. \A j \in DOMAIN jobs : jobs'[j].state # "ended" <=>
          IF j = i THEN state # "ended" ELSE jobs[j].state # "ended"
    BY <1>2, <2>1
  <2>5. i \in OpenFor(b) <=> jobs[i].account = b
    BY DEF OpenFor, IsOpen
  <2> QED BY <2>2, <2>3, <2>4, <2>5
<1> QED BY <1>1, <1>2, <1>3
-----------------------------------------------------------------------------
(* Types.                                                                    *)
Working == TypeOK /\ Busy

LEMMA InitWorking == Init => Working
<1> SUFFICES ASSUME Init PROVE Working
  OBVIOUS
<1>1. PICK imported \in SUBSET Account :
        /\ mark = [a \in Account |-> IF a \in imported THEN 1 ELSE None]
        /\ ledger = [a \in Account |-> IF a \in imported THEN {1} ELSE {}]
        /\ copies = {<<a, Node(a, 1)>> : a \in imported}
  BY DEF Init
<1>2. jobs \in Seq(JobRow) /\ Len(jobs) = 0
  BY EmptySeq DEF Init
<1>3. sweep \in [Sweeper -> SweepState] /\ panel \in [Panel -> PanelState]
  BY DEF Init, IdleSweep, SweepState, PanelState, Kind, None
<1>4. run \in RunState
  BY DEF Init, IdleRun, RunState, RunAt, None
<1>5. erase \in EraseState
  BY DEF Init, IdleErase, EraseState, EraseAt
<1>6. /\ mark \in [Account -> Nat] /\ ledger \in [Account -> SUBSET Nat]
      /\ auth \in [Account -> BOOLEAN]
  BY <1>1 DEF Init, None
<1>7. copies \subseteq Account \X ((Account \cup {Nobody}) \X Nat)
  <2>1. \A a \in imported : Node(a, 1) \in (Account \cup {Nobody}) \X Nat
    BY DEF Node
  <2> QED BY <1>1, <2>1
<1>8. half \subseteq Account /\ raced \subseteq Account /\ faults \in Nat
  BY DEF Init
<1>9. Busy
  BY <1>2 DEF Init, Busy, IdleSweep, IdleRun, IdleErase, None
<1> QED BY <1>2, <1>3, <1>4, <1>5, <1>6, <1>7, <1>8, <1>9 DEF Working, TypeOK

LEMMA TurnFacts ==
    ASSUME Working, NEW s \in Sweeper, NEW rest \in SUBSET Account, Turn(s, rest)
    PROVE  /\ sweep' \in [Sweeper -> SweepState]
           /\ sweep'[s].at \in {"idle", "sort"}
           /\ sweep'[s].at # "idle" => sweep'[s].account \in Account
           /\ \A t \in Sweeper \ {s} : sweep'[t] = sweep[t]
<1>1. CASE rest = {} /\ sweep' = [sweep EXCEPT ![s] = IdleSweep]
  <2>1. IdleSweep \in SweepState /\ IdleSweep.at = "idle"
    BY DEF IdleSweep, SweepState, Kind
  <2> QED BY <1>1, <2>1 DEF Working, TypeOK
<1>2. CASE ~(rest = {} /\ sweep' = [sweep EXCEPT ![s] = IdleSweep])
  <2> DEFINE a == CHOOSE b \in rest : TRUE
             next == [at |-> "sort", rest |-> rest \ {a}, account |-> a, kind |-> "import"]
  <2>1. rest # {} /\ sweep' = [sweep EXCEPT ![s] = next]
    BY <1>2 DEF Turn
  <2>2. a \in Account
    BY <2>1
  <2>3. next \in SweepState /\ next.at = "sort" /\ next.account \in Account
    BY <2>2 DEF SweepState, Kind
  <2> HIDE DEF next
  <2> QED BY <2>1, <2>3 DEF Working, TypeOK
<1> QED BY <1>1, <1>2

(* What a step leaves to the types of the rest.                              *)
LEMMA SweepTypes ==
    ASSUME Working, NEW s \in Sweeper, SweepStep(s), raced' \subseteq Account
    PROVE  Working'
<1>0. /\ sweep \in [Sweeper -> SweepState] /\ sweep[s] \in SweepState
      /\ sweep[s].rest \in SUBSET Account
      /\ \A t \in Sweeper : sweep[t].at # "idle" => sweep[t].account \in Account
      /\ jobs \in Seq(JobRow)
  BY DEF Working, TypeOK, Busy, SweepState
<1>1. CASE SweepBegins(s) \/ SweepTrips(s)
  <2>1. PICK rest \in SUBSET Account : Turn(s, rest)
    BY <1>0, <1>1 DEF SweepBegins, SweepTrips, Candidates
  <2>2. /\ sweep' \in [Sweeper -> SweepState]
        /\ \A t \in Sweeper : sweep'[t].at # "idle" => sweep'[t].account \in Account
    BY <1>0, <2>1, TurnFacts
  <2>3. faults' \in Nat
    BY <1>1 DEF SweepBegins, SweepTrips, Working, TypeOK
  <2>4. UNCHANGED <<jobs, panel, run, erase, mailVars, half>>
    BY <1>1 DEF SweepBegins, SweepTrips
  <2> QED BY <2>2, <2>3, <2>4 DEF Working, TypeOK, Busy, mailVars
<1>2. CASE Sort(s)
  <2>1. /\ sweep' \in [Sweeper -> SweepState]
        /\ \A t \in Sweeper : sweep'[t].at # "idle" => sweep'[t].account \in Account
    <3>1. CASE Turn(s, sweep[s].rest)
      <4>1. /\ sweep' \in [Sweeper -> SweepState]
            /\ sweep'[s].at # "idle" => sweep'[s].account \in Account
            /\ \A t \in Sweeper \ {s} : sweep'[t] = sweep[t]
        BY <1>0, <3>1, TurnFacts
      <4> QED BY <1>0, <4>1
    <3>2. CASE sweep' = [sweep EXCEPT ![s].at = "enqueue",
                           ![s].kind = IF Armed(sweep[s].account) THEN "incremental" ELSE "import"]
      <4>1. sweep[s].account \in Account
        BY <1>0, <1>2 DEF Sort
      <4> QED BY <1>0, <3>2, <4>1 DEF SweepState, Kind
    <3> QED BY <1>2, <3>1, <3>2 DEF Sort
  <2>2. UNCHANGED <<jobs, panel, run, erase, mailVars, half, faults>>
    BY <1>2 DEF Sort
  <2> QED BY <2>1, <2>2 DEF Working, TypeOK, Busy, mailVars
<1>3. CASE SweepQueues(s)
  <2>1. /\ sweep' \in [Sweeper -> SweepState]
        /\ \A t \in Sweeper : sweep'[t].at # "idle" => sweep'[t].account \in Account
    BY <1>0, <1>3, TurnFacts DEF SweepQueues
  <2>2. s \in Asker /\ sweep[s].kind \in Kind /\ sweep[s].account \in Account
    BY <1>0, <1>3 DEF SweepQueues, Asker, SweepState
  <2>3. Added(s, sweep[s].kind, sweep[s].account)
    BY <1>3 DEF SweepQueues, Enqueue, Added, Row
  <2>4. /\ jobs' \in Seq(JobRow) /\ Len(jobs') = Len(jobs) + 1 /\ Len(jobs) \in Nat
        /\ DOMAIN jobs = 1..Len(jobs) /\ DOMAIN jobs' = 1..Len(jobs) + 1
        /\ \A i \in DOMAIN jobs : jobs'[i] = jobs[i]
    BY <1>0, <2>2, <2>3, AddFacts
  <2>5. UNCHANGED <<panel, run, erase, mailVars, half, faults>>
    BY <1>3 DEF SweepQueues
  <2> QED BY <2>1, <2>4, <2>5 DEF Working, TypeOK, Busy, mailVars
<1> QED BY <1>1, <1>2, <1>3 DEF SweepStep

LEMMA PanelTypes ==
    ASSUME Working, NEW a \in Panel, PanelStep(a), raced' \subseteq Account
    PROVE  Working'
<1>0. /\ panel \in [Panel -> PanelState] /\ panel[a].job \in 0..Len(jobs)
      /\ jobs \in Seq(JobRow) /\ Len(jobs) \in Nat /\ DOMAIN jobs = 1..Len(jobs)
      /\ a \in Account /\ \A b \in Panel : panel[b].job \in 0..Len(jobs)
  BY LenProperties DEF Working, TypeOK, Busy
<1>1. CASE PanelAdopts(a)
  <2> DEFINE open == Open("import", a)
             job == IF open = {} THEN panel[a].job ELSE Oldest(open)
  <2>1. open \in SUBSET Nat /\ open \subseteq 1..Len(jobs)
    BY <1>0 DEF Open
  <2>2. job \in 0..Len(jobs)
    BY <1>0, <2>1, OldestFact
  <2>3. panel' = [panel EXCEPT ![a] = [at |-> "read", job |-> job]]
    BY <1>1 DEF PanelAdopts
  <2> HIDE DEF job
  <2>4. panel' \in [Panel -> PanelState] /\ \A b \in Panel : panel'[b].job \in 0..Len(jobs)
    BY <1>0, <2>2, <2>3 DEF PanelState
  <2>5. UNCHANGED <<jobs, sweep, run, erase, mailVars, half, faults>>
    BY <1>1 DEF PanelAdopts
  <2> QED BY <2>4, <2>5 DEF Working, TypeOK, Busy, mailVars
<1>2. CASE PanelReads(a)
  <2>1. panel' \in [Panel -> PanelState] /\ \A b \in Panel : panel'[b].job \in 0..Len(jobs)
    BY <1>0, <1>2 DEF PanelReads, PanelState
  <2>2. UNCHANGED <<jobs, sweep, run, erase, mailVars, half, faults>>
    BY <1>2 DEF PanelReads
  <2> QED BY <2>1, <2>2 DEF Working, TypeOK, Busy, mailVars
<1>3. CASE PanelQueues(a)
  <2>1. Added("panel", "import", a)
    BY <1>3 DEF PanelQueues, Enqueue, Added, Row
  <2>2. /\ jobs' \in Seq(JobRow) /\ Len(jobs') = Len(jobs) + 1 /\ Len(jobs) \in Nat
        /\ DOMAIN jobs = 1..Len(jobs) /\ DOMAIN jobs' = 1..Len(jobs) + 1
        /\ \A i \in DOMAIN jobs : jobs'[i] = jobs[i]
    BY <1>0, <2>1, AddFacts DEF Asker, Kind
  <2>3. panel' \in [Panel -> PanelState] /\ \A b \in Panel : panel'[b].job \in 0..Len(jobs')
    <3> DEFINE next == [at |-> "idle", job |-> Len(jobs) + 1]
    <3>1. panel' = [panel EXCEPT ![a] = next]
      BY <1>3 DEF PanelQueues
    <3>2. next \in PanelState /\ next.job \in 0..Len(jobs')
      BY <2>2 DEF PanelState
    <3>3. \A b \in Panel : panel[b].job \in 0..Len(jobs')
      BY <1>0, <2>2
    <3> HIDE DEF next
    <3> QED BY <1>0, <3>1, <3>2, <3>3
  <2>4. UNCHANGED <<sweep, run, erase, mailVars, half, faults>>
    BY <1>3 DEF PanelQueues
  <2>5. run.at # "idle" => run.job \in DOMAIN jobs' /\ jobs'[run.job].state = "running"
    BY <2>2 DEF Working, Busy
  <2> QED BY <2>2, <2>3, <2>4, <2>5 DEF Working, TypeOK, Busy, mailVars
<1>4. CASE PanelCancels(a)
  <2> DEFINE i == panel[a].job
  <2>1. i \in DOMAIN jobs /\ jobs[i].state = "queued" /\ Moved(i, "ended")
    BY <1>0, <1>4 DEF PanelCancels, Follows, Ended, Moved, None
  <2>2. /\ jobs' \in Seq(JobRow) /\ Len(jobs') = Len(jobs) /\ DOMAIN jobs' = DOMAIN jobs
        /\ \A j \in DOMAIN jobs : j # i => jobs'[j] = jobs[j]
    BY <1>0, <2>1, MoveFacts DEF JobStates
  <2>3. UNCHANGED <<sweep, panel, run, erase, mailVars, half, faults>>
    BY <1>4 DEF PanelCancels
  <2>4. run.at # "idle" => run.job # i
    BY <2>1 DEF Working, Busy
  <2> HIDE DEF i
  <2> QED BY <2>2, <2>3, <2>4 DEF Working, TypeOK, Busy, mailVars
<1> QED BY <1>1, <1>2, <1>3, <1>4 DEF PanelStep
LEMMA MailboxOf ==
    ASSUME Working, run.at # "idle"
    PROVE  run.job \in DOMAIN jobs /\ Mailbox \in Account /\ Mail[Mailbox] \in Nat \ {0}
BY RowFacts DEF Working, TypeOK, Busy, Mailbox

LEMMA RunTypes ==
    ASSUME Working, RunStep \/ AuthFails \/ Crash, raced' \subseteq Account
    PROVE  Working'
<1>0. /\ run \in RunState /\ jobs \in Seq(JobRow) /\ DOMAIN jobs = 1..Len(jobs)
      /\ Len(jobs) \in Nat /\ mark \in [Account -> Nat] /\ ledger \in [Account -> SUBSET Nat]
  BY LenProperties DEF Working, TypeOK
<1>1. CASE Claim
  <2> DEFINE queued == {k \in DOMAIN jobs : jobs[k].state = "queued"}
             i == Oldest(queued)
  <2>1. queued \in SUBSET Nat /\ queued # {}
    BY <1>0, <1>1 DEF Claim
  <2>2. i \in DOMAIN jobs /\ i \in Nat
    BY <1>0, <2>1, OldestFact
  <2>3. Moved(i, "running")
    BY <1>1 DEF Claim, Moved
  <2>4. /\ run' \in RunState /\ run'.job = i
    <3>1. mark[jobs[i].account] \in Nat
      BY <1>0, <2>2, RowFacts
    <3> HIDE DEF i
    <3>2. run'.job = i /\ run'.at \in {"bootstrap", "list"}
      BY <1>1 DEF Claim, i
    <3>3. \E at \in RunAt, start \in Nat :
            run' = [at |-> at, job |-> i, from |-> start, todo |-> {}]
      BY <1>1, <3>1 DEF Claim, RunAt, None, i
    <3> QED BY <2>2, <3>2, <3>3 DEF RunState
  <2> HIDE DEF i
  <2>5. /\ jobs' \in Seq(JobRow) /\ Len(jobs') = Len(jobs) /\ DOMAIN jobs' = DOMAIN jobs
        /\ jobs'[i].state = "running"
    <3>1. "running" \in JobStates
      BY DEF JobStates
    <3>2. /\ jobs' \in Seq(JobRow) /\ Len(jobs') = Len(jobs) /\ DOMAIN jobs' = DOMAIN jobs
          /\ jobs'[i] = [jobs[i] EXCEPT !.state = "running"]
      BY <1>0, <2>2, <2>3, <3>1, MoveFacts
    <3>3. jobs[i] \in JobRow
      BY <1>0, <2>2, RowFacts
    <3> QED BY <3>2, <3>3 DEF JobRow
  <2>6. UNCHANGED <<sweep, panel, erase, mailVars, half, faults>>
    BY <1>1 DEF Claim
  <2> QED BY <2>2, <2>4, <2>5, <2>6 DEF Working, TypeOK, Busy, mailVars
<1>2. CASE Bootstrap \/ StoreWatermark
  <2>1. Mailbox \in Account /\ Mail[Mailbox] \in Nat
    BY <1>2, MailboxOf DEF Bootstrap, StoreWatermark
  <2>2. mark' \in [Account -> Nat]
    BY <1>0, <1>2, <2>1 DEF Bootstrap, StoreWatermark
  <2>3. run' \in RunState /\ run'.job = run.job /\ run.at # "idle"
    BY <1>0, <1>2 DEF Bootstrap, StoreWatermark, RunState, RunAt
  <2>4. UNCHANGED <<jobVars, erase, ledger, auth, copies, half, faults>>
    BY <1>2 DEF Bootstrap, StoreWatermark
  <2> QED BY <2>2, <2>3, <2>4 DEF Working, TypeOK, Busy, jobVars
<1>3. CASE List
  <2>1. Mailbox \in Account /\ Mail[Mailbox] \in Nat /\ run.from \in Nat
    BY <1>0, <1>3, MailboxOf DEF List, RunState
  <2>2. (run.from + 1 .. Mail[Mailbox]) \ ledger[Mailbox] \in SUBSET Nat
    BY <2>1
  <2>3. run' \in RunState /\ run'.job = run.job /\ run.at # "idle"
    BY <1>0, <1>3, <2>2 DEF List, RunState, RunAt
  <2>4. UNCHANGED <<jobVars, erase, mailVars, half, faults>>
    BY <1>3 DEF List
  <2> QED BY <2>3, <2>4 DEF Working, TypeOK, Busy, jobVars, mailVars
<1>4. CASE WriteGraph
  <2>1. Mailbox \in Account /\ run.todo \in SUBSET Nat
    BY <1>0, <1>4, MailboxOf DEF WriteGraph, RunState
  <2>2. \A m \in run.todo : <<Mailbox, Node(Mailbox, m)>> \in
                              Account \X ((Account \cup {Nobody}) \X Nat)
    BY <2>1 DEF Node
  <2>3. copies' \subseteq Account \X ((Account \cup {Nobody}) \X Nat)
    BY <1>4, <2>2 DEF WriteGraph, Working, TypeOK
  <2>4. run' \in RunState /\ run'.job = run.job /\ run.at # "idle"
    BY <1>0, <1>4 DEF WriteGraph, RunState, RunAt
  <2>5. UNCHANGED <<jobVars, erase, mark, ledger, auth, half, faults>>
    BY <1>4 DEF WriteGraph
  <2> QED BY <2>3, <2>4, <2>5 DEF Working, TypeOK, Busy, jobVars
<1>5. CASE WriteLedger
  <2>1. Mailbox \in Account /\ run.todo \in SUBSET Nat
    BY <1>0, <1>5, MailboxOf DEF WriteLedger, RunState
  <2>2. ledger' \in [Account -> SUBSET Nat]
    BY <1>0, <1>5, <2>1 DEF WriteLedger
  <2>3. run' \in RunState /\ run'.job = run.job /\ run.at # "idle"
    BY <1>0, <1>5 DEF WriteLedger, RunState, RunAt
  <2>4. UNCHANGED <<jobVars, erase, mark, auth, copies, half, faults>>
    BY <1>5 DEF WriteLedger
  <2> QED BY <2>2, <2>3, <2>4 DEF Working, TypeOK, Busy, jobVars
<1>6. CASE Settle \/ AuthFails \/ Crash
  <2>1. PICK state \in {"ended", "queued"} : Moved(run.job, state)
    BY <1>6 DEF Settle, AuthFails, Crash, Moved, Ended
  <2>2. run.job \in DOMAIN jobs /\ Mailbox \in Account
    BY <1>6, MailboxOf DEF Settle, AuthFails, Crash
  <2>3. jobs' \in Seq(JobRow) /\ Len(jobs') = Len(jobs)
    BY <1>0, <2>1, <2>2, MoveFacts DEF JobStates
  <2>4. run' = IdleRun /\ IdleRun \in RunState /\ IdleRun.at = "idle"
    BY <1>6 DEF Settle, AuthFails, Crash, IdleRun, RunState, RunAt, None
  <2>5. /\ sweep' \in [Sweeper -> SweepState]
        /\ \A s \in Sweeper : sweep'[s].at # "idle" => sweep'[s].account \in Account
    <3>1. IdleSweep \in SweepState /\ IdleSweep.at = "idle"
      BY DEF IdleSweep, SweepState, Kind
    <3>2. \A s \in Sweeper : sweep[s] \in SweepState
                             /\ (sweep[s].at # "idle" => sweep[s].account \in Account)
      BY DEF Working, TypeOK, Busy
    <3>3. CASE sweep' = sweep
      BY <3>3 DEF Working, TypeOK, Busy
    <3>4. CASE Crash
      <4>1. sweep' = [s \in Sweeper |-> IF s = "timer" THEN IdleSweep ELSE sweep[s]]
        BY <3>4 DEF Crash
      <4> QED BY <3>1, <3>2, <4>1
    <3> QED BY <1>6, <3>3, <3>4 DEF Settle, AuthFails
  <2>6. auth' \in [Account -> BOOLEAN] /\ faults' \in Nat
    <3>1. /\ auth' = auth \/ auth' = [auth EXCEPT ![Mailbox] = TRUE]
          /\ faults' = faults \/ faults' = faults + 1
      BY <1>6 DEF Settle, AuthFails, Crash, mailVars
    <3>2. auth \in [Account -> BOOLEAN] /\ faults \in Nat
      BY DEF Working, TypeOK
    <3>3. [auth EXCEPT ![Mailbox] = TRUE] \in [Account -> BOOLEAN]
      BY <3>2
    <3>4. auth' \in [Account -> BOOLEAN]
      BY <3>1, <3>2, <3>3
    <3>5. faults' \in Nat
      BY <3>1, <3>2
    <3> QED BY <3>4, <3>5
  <2>7. UNCHANGED <<panel, erase, mark, ledger, copies, half>>
    BY <1>6 DEF Settle, AuthFails, Crash, mailVars
  <2> QED BY <2>3, <2>4, <2>5, <2>6, <2>7 DEF Working, TypeOK, Busy
<1> QED BY <1>1, <1>2, <1>3, <1>4, <1>5, <1>6 DEF RunStep

LEMMA EraseTypes ==
    ASSUME Working, EraseStep \/ BreakOff \/ \E a \in Account : Consent(a),
           raced' \subseteq Account
    PROVE  Working'
<1>0. /\ erase \in EraseState /\ mark \in [Account -> Nat]
      /\ ledger \in [Account -> SUBSET Nat]
      /\ erase.at # "idle" => erase.account \in Account
  BY DEF Working, TypeOK, Busy
<1>1. ASSUME NEW a \in Account, RequireIdle(a) PROVE Working'
  <2>1. erase' = [IdleErase EXCEPT !.at = "page", !.account = a, !.after = Mail[a] + 1]
    BY <1>1 DEF RequireIdle
  <2>2. erase' \in EraseState /\ erase'.account \in Account
    <3>1. Mail[a] + 1 \in Nat
      OBVIOUS
    <3> QED BY <2>1, <3>1 DEF IdleErase, EraseState, EraseAt
  <2> QED BY <1>1, <2>2 DEF RequireIdle, Working, TypeOK, Busy, jobVars, mailVars
<1>2. CASE ReadPage
  <2>1. erase.account \in Account
    BY <1>0, <1>2 DEF ReadPage
  <2>2. erase' \in EraseState /\ erase'.account = erase.account
    <3>1. CASE NextPage = {}
      BY <1>0, <1>2, <3>1 DEF ReadPage, EraseState, EraseAt
    <3>2. CASE NextPage # {}
      <4> DEFINE low == LeastOf(NextPage)
      <4>1. low \in Nat /\ NextPage \in SUBSET Nat
        BY <1>0, <2>1, <3>2, NextPageFacts DEF EraseState
      <4>2. erase' = [erase EXCEPT !.at = "classify", !.page = NextPage, !.after = low]
        BY <1>2, <3>2 DEF ReadPage, LeastOf
      <4> HIDE DEF low
      <4> QED BY <1>0, <4>1, <4>2 DEF EraseState, EraseAt
    <3> QED BY <3>1, <3>2
  <2> QED BY <1>2, <2>1, <2>2 DEF ReadPage, Working, TypeOK, Busy, jobVars, mailVars
<1>3. CASE Classify
  <2> DEFINE found == {m \in erase.page : Elsewhere(erase.account, m)}
  <2>1. found \in SUBSET Nat
    BY <1>0 DEF EraseState
  <2>2. erase' = [erase EXCEPT !.at = "delete", !.elsewhere = found, !.shared = @ \/ found # {}]
    BY <1>3 DEF Classify
  <2> HIDE DEF found
  <2>3. erase' \in EraseState /\ erase'.account = erase.account /\ erase.at # "idle"
    BY <1>0, <1>3, <2>1, <2>2 DEF Classify, EraseState, EraseAt
  <2> QED BY <1>3, <2>3 DEF Classify, Working, TypeOK, Busy, jobVars, mailVars
<1>4. CASE DeleteMessages \/ DropCopies
  <2>1. copies' \subseteq copies
    BY <1>4 DEF DeleteMessages, DropCopies
  <2>2. erase' \in EraseState /\ erase'.account = erase.account /\ erase.at # "idle"
    BY <1>0, <1>4 DEF DeleteMessages, DropCopies, EraseState, EraseAt
  <2>3. UNCHANGED <<jobs, sweep, panel, run, mark, ledger, auth, half, faults>>
    BY <1>4 DEF DeleteMessages, DropCopies, jobVars
  <2>4. erase.account \in Account
    BY <1>0, <2>2
  <2>5. copies' \subseteq Account \X ((Account \cup {Nobody}) \X Nat)
    BY <2>1 DEF Working, TypeOK
  <2>6. TypeOK'
    BY <2>2, <2>3, <2>5 DEF Working, TypeOK
  <2>7. Busy'
    BY <2>2, <2>3, <2>4 DEF Working, Busy
  <2> QED BY <2>6, <2>7 DEF Working
<1>5. CASE Forget \/ BreakOff
  <2>1. erase' \in EraseState /\ erase'.at = "idle" /\ erase.account \in Account
    <3>1. IdleErase \in EraseState /\ IdleErase.at = "idle"
      BY DEF IdleErase, EraseState, EraseAt
    <3>2. erase' = IdleErase /\ erase.at # "idle"
      BY <1>5 DEF Forget, BreakOff
    <3> QED BY <1>0, <3>1, <3>2
  <2>2. mark' \in [Account -> Nat] /\ ledger' \in [Account -> SUBSET Nat]
    BY <1>0, <1>5, <2>1 DEF Forget, BreakOff, None, mailVars
  <2>3. half' \subseteq Account /\ faults' \in Nat /\ UNCHANGED <<jobs, sweep, panel, run, auth, copies>>
    BY <1>5, <2>1 DEF Forget, BreakOff, Working, TypeOK, mailVars, jobVars
  <2> QED BY <2>1, <2>2, <2>3 DEF Working, TypeOK, Busy
<1>6. ASSUME NEW a \in Account, Consent(a) PROVE Working'
  BY <1>6 DEF Consent, Working, TypeOK, Busy, jobVars
<1> QED BY <1>1, <1>2, <1>3, <1>4, <1>5, <1>6 DEF EraseStep

LEMMA WorkingStep ==
    ASSUME Working, Next
    PROVE  Working'
<1>1. raced' \subseteq Account
  BY DEF Next, Working, TypeOK
<1> QED BY <1>1, SweepTypes, PanelTypes, RunTypes, EraseTypes DEF Next, Step
-----------------------------------------------------------------------------
(* What a step does to the queue, to the sweeps' decisions, to the marks,    *)
(* to the clear-out and to the graph.                                        *)
LEMMA QueueStep ==
    ASSUME Working, Next
    PROVE  \/ jobs' = jobs
           \/ \E s \in Sweeper : SweepQueues(s)
           \/ \E a \in Panel : PanelQueues(a)
           \/ \E i \in DOMAIN jobs, state \in JobStates : IsOpen(i) /\ Moved(i, state)
<1>0. jobs \in Seq(JobRow) /\ DOMAIN jobs = 1..Len(jobs) /\ Len(jobs) \in Nat
  BY LenProperties DEF Working, TypeOK
<1>1. ASSUME NEW s \in Sweeper, SweepStep(s)
      PROVE  jobs' = jobs \/ SweepQueues(s)
  BY <1>1 DEF SweepStep, SweepBegins, Sort, SweepTrips
<1>2. ASSUME NEW a \in Panel, PanelStep(a), ~PanelCancels(a)
      PROVE  jobs' = jobs \/ PanelQueues(a)
  BY <1>2 DEF PanelStep, PanelAdopts, PanelReads
<1>3. ASSUME NEW a \in Panel, PanelCancels(a)
      PROVE  \E i \in DOMAIN jobs, state \in JobStates : IsOpen(i) /\ Moved(i, state)
  <2>1. panel[a].job \in DOMAIN jobs
    BY <1>0, <1>3 DEF PanelCancels, Follows, None, Working, Busy
  <2>2. IsOpen(panel[a].job) /\ Moved(panel[a].job, "ended")
    BY <1>3 DEF PanelCancels, Follows, Ended, Moved
  <2> QED BY <2>1, <2>2 DEF JobStates
<1>4. CASE Claim
  <2> DEFINE queued == {k \in DOMAIN jobs : jobs[k].state = "queued"}
             i == Oldest(queued)
  <2>1. queued \in SUBSET Nat /\ queued # {}
    BY <1>0, <1>4 DEF Claim
  <2>2. i \in queued
    BY <2>1, OldestFact
  <2>3. Moved(i, "running")
    BY <1>4 DEF Claim, Moved
  <2> HIDE DEF i
  <2> QED BY <2>2, <2>3 DEF IsOpen, JobStates
<1>5. CASE Settle \/ AuthFails \/ Crash
  <2>1. \E state \in {"ended", "queued"} : Moved(run.job, state)
    BY <1>5 DEF Settle, AuthFails, Crash, Moved, Ended
  <2>2. run.job \in DOMAIN jobs /\ IsOpen(run.job)
    BY <1>5 DEF Settle, AuthFails, Crash, Working, Busy, IsOpen
  <2> QED BY <2>1, <2>2 DEF JobStates
<1>6. CASE Bootstrap \/ List \/ WriteGraph \/ WriteLedger \/ StoreWatermark
  BY <1>6 DEF Bootstrap, List, WriteGraph, WriteLedger, StoreWatermark, jobVars
<1>7. CASE EraseStep \/ BreakOff \/ \E a \in Account : Consent(a)
  BY <1>7 DEF EraseStep, RequireIdle, ReadPage, Classify, DeleteMessages, DropCopies, Forget,
     BreakOff, Consent, jobVars
<1> QED BY <1>1, <1>2, <1>3, <1>4, <1>5, <1>6, <1>7 DEF Next, Step, RunStep

LEMMA SweepAdds ==
    ASSUME Working, NEW s \in Sweeper, SweepQueues(s)
    PROVE  /\ s \in Asker /\ sweep[s].kind \in Kind /\ sweep[s].account \in Account
           /\ Added(s, sweep[s].kind, sweep[s].account)
<1>1. sweep[s] \in SweepState /\ sweep[s].account \in Account
  BY DEF SweepQueues, Working, TypeOK, Busy
<1>2. Added(s, sweep[s].kind, sweep[s].account)
  BY DEF SweepQueues, Enqueue, Added, Row
<1> QED BY <1>1, <1>2 DEF Asker, SweepState

LEMMA PanelAdds ==
    ASSUME Working, NEW a \in Panel, PanelQueues(a)
    PROVE  /\ "panel" \in Asker /\ "import" \in Kind /\ a \in Account
           /\ Added("panel", "import", a)
BY DEF PanelQueues, Enqueue, Added, Row, Asker, Kind

(* Rows keep what they are about, and a job that is open was open before or  *)
(* has just been queued.                                                     *)
LEMMA RowsKeep ==
    ASSUME Working, Next, NEW i \in DOMAIN jobs
    PROVE  /\ i \in DOMAIN jobs'
           /\ jobs'[i].kind = jobs[i].kind /\ jobs'[i].account = jobs[i].account
           /\ jobs'[i].by = jobs[i].by
<1>0. jobs \in Seq(JobRow)
  BY DEF Working, TypeOK
<1>1. CASE jobs' = jobs
  BY <1>1
<1>2. ASSUME NEW by \in Asker, NEW kind \in Kind, NEW a \in Account, Added(by, kind, a)
      PROVE  i \in DOMAIN jobs' /\ jobs'[i] = jobs[i]
  BY <1>0, <1>2, AddFacts
<1>3. ASSUME NEW j \in DOMAIN jobs, NEW state \in JobStates, IsOpen(j), Moved(j, state)
      PROVE  /\ i \in DOMAIN jobs'
             /\ jobs'[i].kind = jobs[i].kind /\ jobs'[i].account = jobs[i].account
             /\ jobs'[i].by = jobs[i].by
  BY <1>0, <1>3, MovedOpen, MoveFacts
<1>4. ASSUME NEW s \in Sweeper, SweepQueues(s)
      PROVE  s \in Asker /\ sweep[s].kind \in Kind /\ sweep[s].account \in Account
             /\ Added(s, sweep[s].kind, sweep[s].account)
  BY <1>4, SweepAdds
<1>5. ASSUME NEW a \in Panel, PanelQueues(a)
      PROVE  "panel" \in Asker /\ "import" \in Kind /\ a \in Account
             /\ Added("panel", "import", a)
  BY <1>5, PanelAdds
<1> QED BY <1>1, <1>2, <1>3, <1>4, <1>5, QueueStep

LEMMA OpenStep ==
    ASSUME Working, Next, NEW b \in Account, NEW i \in OpenFor(b)'
    PROVE  \/ i \in OpenFor(b)
           \/ /\ i = Len(jobs) + 1 /\ i \notin DOMAIN jobs
              /\ \/ \E s \in Sweeper : SweepQueues(s) /\ sweep[s].account = b
                                       /\ jobs'[i].by = s /\ jobs'[i].kind = sweep[s].kind
                 \/ jobs'[i].by = "panel" /\ jobs'[i].kind = "import"
<1>0. jobs \in Seq(JobRow)
  BY DEF Working, TypeOK
<1>1. CASE jobs' = jobs
  BY <1>1 DEF OpenFor, IsOpen
<1>2. ASSUME NEW s \in Sweeper, SweepQueues(s)
      PROVE  \/ i \in OpenFor(b)
             \/ /\ i = Len(jobs) + 1 /\ i \notin DOMAIN jobs /\ sweep[s].account = b
                /\ jobs'[i].by = s /\ jobs'[i].kind = sweep[s].kind
  <2>1. /\ s \in Asker /\ sweep[s].kind \in Kind /\ sweep[s].account \in Account
        /\ Added(s, sweep[s].kind, sweep[s].account)
    BY <1>2, SweepAdds
  <2> QED BY <1>0, <2>1, AddedOpen
<1>3. ASSUME NEW a \in Panel, PanelQueues(a)
      PROVE  \/ i \in OpenFor(b)
             \/ /\ i = Len(jobs) + 1 /\ i \notin DOMAIN jobs
                /\ jobs'[i].by = "panel" /\ jobs'[i].kind = "import"
  <2>1. "panel" \in Asker /\ "import" \in Kind /\ a \in Account /\ Added("panel", "import", a)
    BY <1>3, PanelAdds
  <2> QED BY <1>0, <2>1, AddedOpen
<1>4. ASSUME NEW j \in DOMAIN jobs, NEW state \in JobStates, IsOpen(j), Moved(j, state)
      PROVE  i \in OpenFor(b)
  <2>1. OpenFor(b)' = IF state = "ended" THEN OpenFor(b) \ {j} ELSE OpenFor(b)
    BY <1>0, <1>4, MovedOpen
  <2> QED BY <2>1
<1> QED BY <1>1, <1>2, <1>3, <1>4, QueueStep

(* A sweep that is about to queue has just looked, or was about to before.   *)
LEMMA DecidedStep ==
    ASSUME Working, Next, NEW s \in Sweeper, sweep'[s].at = "enqueue"
    PROVE  \/ sweep'[s] = sweep[s] /\ ~SweepQueues(s)
           \/ /\ sweep'[s].account = sweep[s].account /\ OpenFor(sweep[s].account) = {}
              /\ sweep'[s].kind = "incremental" => Armed(sweep[s].account)
              /\ jobs' = jobs /\ mark' = mark
<1>0. /\ sweep \in [Sweeper -> SweepState] /\ sweep[s] \in SweepState
      /\ \A t \in Sweeper : sweep[t] \in SweepState
  BY DEF Working, TypeOK
<1>1. ASSUME NEW t \in Sweeper, NEW rest \in SUBSET Account, Turn(t, rest)
      PROVE  t # s /\ sweep'[s] = sweep[s]
  BY <1>1, TurnFacts
<1>2. CASE SweepStep(s)
  <2>1. sweep[s].rest \in SUBSET Account /\ Candidates \in SUBSET Account
    BY <1>0 DEF SweepState, Candidates
  <2>2. Sort(s) /\ ~Turn(s, sweep[s].rest)
    BY <1>1, <1>2, <2>1 DEF SweepStep, SweepBegins, SweepQueues, SweepTrips, Sort
  <2>3. /\ OpenFor(sweep[s].account) = {} /\ jobs' = jobs /\ mark' = mark
        /\ sweep' = [sweep EXCEPT ![s].at = "enqueue",
             ![s].kind = IF Armed(sweep[s].account) THEN "incremental" ELSE "import"]
    BY <2>2 DEF Sort, mailVars
  <2> QED BY <1>0, <2>3 DEF SweepState
<1>3. ASSUME NEW t \in Sweeper \ {s}, SweepStep(t)
      PROVE  sweep'[s] = sweep[s]
  <2>1. sweep[t].rest \in SUBSET Account /\ Candidates \in SUBSET Account
    BY <1>0 DEF SweepState, Candidates
  <2>2. CASE \E rest \in SUBSET Account : Turn(t, rest)
    BY <1>1, <2>2
  <2>3. CASE Sort(t) /\ ~Turn(t, sweep[t].rest)
    <3>1. sweep' = [sweep EXCEPT ![t].at = "enqueue",
             ![t].kind = IF Armed(sweep[t].account) THEN "incremental" ELSE "import"]
      BY <2>3 DEF Sort
    <3> QED BY <1>0, <3>1
  <2> QED BY <1>3, <2>1, <2>2, <2>3 DEF SweepStep, SweepBegins, SweepQueues, SweepTrips
<1>4. CASE sweep' = sweep /\ ~SweepQueues(s)
  BY <1>4
<1>5. ASSUME SweepQueues(s) PROVE FALSE
  BY <1>0, <1>1, <1>5 DEF SweepQueues, SweepState
<1>6. CASE Crash
  <2>1. sweep' = [t \in Sweeper |-> IF t = "timer" THEN IdleSweep ELSE sweep[t]]
    BY <1>6 DEF Crash
  <2>2. sweep'[s] = sweep[s]
    BY <2>1 DEF IdleSweep
  <2> QED BY <1>5, <2>2
<1>7. CASE (\E a \in Panel : PanelStep(a)) \/ RunStep \/ AuthFails
  BY <1>5, <1>7 DEF PanelStep, PanelAdopts, PanelReads, PanelQueues, PanelCancels, RunStep,
     Claim, Bootstrap, List, WriteGraph, WriteLedger, StoreWatermark, Settle, AuthFails, jobVars
<1>8. CASE EraseStep \/ BreakOff \/ \E a \in Account : Consent(a)
  BY <1>5, <1>8 DEF EraseStep, RequireIdle, ReadPage, Classify, DeleteMessages, DropCopies,
     Forget, BreakOff, Consent, jobVars
<1> QED BY <1>2, <1>3, <1>4, <1>5, <1>6, <1>7, <1>8 DEF Next, Step
-----------------------------------------------------------------------------
(* The book of what is in flight during a clear-out is kept, and nothing is  *)
(* taken out of it.                                                          *)
LEMMA BookedStep ==
    ASSUME Working, Next
    PROVE  raced \subseteq raced' /\ Booked'
BY DEF Next, Booked

LEMMA MarkStep ==
    ASSUME Working, Next, NEW a \in Account, mark'[a] # mark[a]
    PROVE  \/ Forget /\ erase.account = a /\ mark'[a] = None
           \/ (Bootstrap \/ StoreWatermark) /\ Mailbox = a /\ mark'[a] = Mail[a]
<1>0. mark \in [Account -> Nat]
  BY DEF Working, TypeOK
<1>1. CASE Bootstrap \/ StoreWatermark
  <2>1. Mailbox \in Account
    BY <1>1, MailboxOf DEF Bootstrap, StoreWatermark
  <2>2. mark' = [mark EXCEPT ![Mailbox] = Mail[Mailbox]]
    BY <1>1 DEF Bootstrap, StoreWatermark
  <2> QED BY <1>0, <1>1, <2>1, <2>2
<1>2. CASE Forget
  BY <1>0, <1>2 DEF Forget, None
<1>3. CASE (\E s \in Sweeper : SweepStep(s)) \/ (\E b \in Panel : PanelStep(b))
  BY <1>3 DEF SweepStep, SweepBegins, Sort, SweepQueues, SweepTrips,
     PanelStep, PanelAdopts, PanelReads, PanelQueues, PanelCancels, mailVars
<1>4. CASE Claim \/ List \/ WriteGraph \/ WriteLedger \/ Settle \/ AuthFails \/ Crash
  BY <1>4 DEF Claim, List, WriteGraph, WriteLedger, Settle, AuthFails, Crash, mailVars
<1>5. CASE \/ \E b \in Account : RequireIdle(b) \/ Consent(b)
           \/ ReadPage \/ Classify \/ DeleteMessages \/ DropCopies \/ BreakOff
  BY <1>5 DEF RequireIdle, Consent, ReadPage, Classify, DeleteMessages, DropCopies,
     BreakOff, mailVars
<1> QED BY <1>1, <1>2, <1>3, <1>4, <1>5 DEF Next, Step, RunStep, EraseStep

(* What the worker holds changes by its own steps only.                      *)
LEMMA HandlerStep ==
    ASSUME Working, Next
    PROVE  \/ run' = run \/ run'.at = "idle"
           \/ Claim \/ Bootstrap \/ List \/ WriteGraph \/ WriteLedger \/ StoreWatermark
<1>1. CASE (\E s \in Sweeper : SweepStep(s)) \/ (\E b \in Panel : PanelStep(b))
  BY <1>1 DEF SweepStep, SweepBegins, Sort, SweepQueues, SweepTrips,
     PanelStep, PanelAdopts, PanelReads, PanelQueues, PanelCancels
<1>2. CASE Settle \/ AuthFails \/ Crash
  BY <1>2 DEF Settle, AuthFails, Crash, IdleRun
<1>3. CASE EraseStep \/ BreakOff \/ \E b \in Account : Consent(b)
  BY <1>3 DEF EraseStep, RequireIdle, Consent, ReadPage, Classify, DeleteMessages, DropCopies,
     Forget, BreakOff
<1> QED BY <1>1, <1>2, <1>3 DEF Next, Step, RunStep

LEMMA MailboxKept ==
    ASSUME Working, Next, run.at # "idle", run'.job = run.job
    PROVE  Mailbox' = Mailbox
BY MailboxOf, RowsKeep DEF Mailbox

LEMMA ClaimFacts ==
    ASSUME Working, Claim
    PROVE  /\ run'.job \in DOMAIN jobs /\ jobs[run'.job].state = "queued"
           /\ Mailbox' = jobs[run'.job].account /\ Mailbox' \in Account
           /\ run'.at \in {"bootstrap", "list"}
           /\ run'.at = "bootstrap" => jobs[run'.job].kind = "incremental" /\ mark[Mailbox'] = None
           /\ run'.at = "list" => run'.from = None \/ run'.from = mark[Mailbox']
<1> DEFINE queued == {k \in DOMAIN jobs : jobs[k].state = "queued"}
           i == Oldest(queued)
<1>0. jobs \in Seq(JobRow) /\ DOMAIN jobs = 1..Len(jobs) /\ Len(jobs) \in Nat
  BY LenProperties DEF Working, TypeOK
<1>1. queued \in SUBSET Nat /\ queued # {}
  BY <1>0 DEF Claim
<1>2. i \in DOMAIN jobs /\ jobs[i].state = "queued"
  BY <1>1, OldestFact
<1>3. Moved(i, "running")
  BY DEF Claim, Moved
<1>4. /\ run'.job = i /\ run'.at \in {"bootstrap", "list"}
      /\ run'.at = "bootstrap" => jobs[i].kind = "incremental" /\ mark[jobs[i].account] = None
      /\ run'.at = "list" => run'.from = None \/ run'.from = mark[jobs[i].account]
  BY DEF Claim
<1> HIDE DEF i
<1>5. jobs'[i].account = jobs[i].account /\ jobs[i].account \in Account
  BY <1>0, <1>2, <1>3, MovedOpen, RowFacts DEF IsOpen, JobStates
<1>6. Mailbox' = jobs[i].account
  BY <1>4, <1>5 DEF Mailbox
<1> QED BY <1>2, <1>4, <1>5, <1>6

LEMMA DeltasStep ==
    ASSUME Working, Booked, DeltasStart, Next
    PROVE  DeltasStart'
<1>0. raced \subseteq raced'
  BY BookedStep
<1>1. ASSUME NEW a \in Account \ raced', mark'[a] = None, mark[a] # None
      PROVE  /\ Forget /\ erase.account = a /\ OpenFor(a) = {}
             /\ \A s \in Sweeper : ~(sweep[s].at = "enqueue" /\ sweep[s].account = a)
  <2>1. Forget /\ erase.account = a
    BY <1>1, MarkStep DEF None
  <2>2. Purging(a) /\ erase.at # "idle"
    BY <2>1 DEF Purging, Forget
  <2> QED BY <1>0, <1>1, <2>1, <2>2 DEF Booked, InFlight
<1>2. ASSUME NEW a \in Account \ raced', Open("incremental", a)' # {}, mark'[a] = None
      PROVE  FALSE
  <2>1. PICK i \in OpenFor(a)' : i \in DOMAIN jobs' /\ jobs'[i].kind = "incremental"
    BY <1>2 DEF Open, OpenFor
  <2>2. CASE i \in OpenFor(a)
    <3>1. i \in Open("incremental", a)
      BY <2>1, <2>2, RowsKeep DEF Open, OpenFor
    <3> QED BY <1>0, <1>1, <1>2, <2>2, <3>1 DEF DeltasStart, DeltaHasAStart
  <2>3. CASE \E s \in Sweeper : SweepQueues(s) /\ sweep[s].account = a
                                /\ jobs'[i].kind = sweep[s].kind
    BY <1>0, <1>1, <1>2, <2>1, <2>3 DEF DeltasStart, SweepQueues
  <2> QED BY <2>1, <2>2, <2>3, OpenStep
<1>3. ASSUME NEW s \in Sweeper, sweep'[s].at = "enqueue", sweep'[s].kind = "incremental",
             mark'[sweep'[s].account] = None, sweep'[s].account \notin raced'
      PROVE  FALSE
  <2>1. CASE sweep'[s] = sweep[s]
    <3>1. sweep[s].account \in Account \ raced'
      BY <1>3, <2>1 DEF Working, Busy
    <3>2. mark[sweep[s].account] # None
      BY <1>0, <1>3, <2>1 DEF DeltasStart
    <3> QED BY <1>1, <1>3, <2>1, <3>1, <3>2
  <2>2. CASE Armed(sweep[s].account) /\ sweep'[s].account = sweep[s].account /\ mark' = mark
    BY <1>3, <2>2 DEF Armed
  <2> QED BY <1>3, <2>1, <2>2, DecidedStep
<1>4. ASSUME run'.at = "bootstrap" PROVE Mailbox' \in raced'
  <2>1. CASE run' = run
    BY <1>0, <1>4, <2>1, MailboxKept DEF DeltasStart
  <2>2. CASE Claim
    <3>1. run'.job \in Open("incremental", Mailbox') /\ Mailbox' \in Account /\ mark[Mailbox'] = None
      BY <1>4, <2>2, ClaimFacts DEF Open, IsOpen
    <3> QED BY <1>0, <3>1 DEF DeltasStart, DeltaHasAStart
  <2>3. CASE Bootstrap \/ List \/ WriteGraph \/ WriteLedger \/ StoreWatermark
    <3>1. run \in RunState
      BY DEF Working, TypeOK
    <3> QED BY <1>4, <2>3, <3>1 DEF Bootstrap, List, WriteGraph, WriteLedger, StoreWatermark, RunState
  <2> QED BY <1>4, <2>1, <2>2, <2>3, HandlerStep
<1> QED BY <1>2, <1>3, <1>4 DEF DeltasStart, DeltaHasAStart

LEMMA OwnJobsStep ==
    ASSUME Working, OwnJobs, Next
    PROVE  OwnJobs'
<1>0. "panel" \notin Sweeper
  OBVIOUS
<1>1. ASSUME NEW a \in Account, NEW i \in OpenFor(a)', NEW j \in OpenFor(a)',
             i # j, jobs'[i].by \in Sweeper, jobs'[i].by = jobs'[j].by
      PROVE  FALSE
  <2>1. ASSUME NEW k \in OpenFor(a) PROVE k \in DOMAIN jobs /\ jobs'[k].by = jobs[k].by
    BY <2>1, RowsKeep DEF OpenFor
  <2>2. ASSUME NEW k \in OpenFor(a)', k \notin OpenFor(a), jobs'[k].by \in Sweeper
        PROVE  /\ k = Len(jobs) + 1
               /\ \A l \in OpenFor(a) : jobs[l].by # jobs'[k].by
    <3>1. k = Len(jobs) + 1
      BY <2>2, OpenStep
    <3>2. PICK s \in Sweeper : SweepQueues(s) /\ sweep[s].account = a /\ jobs'[k].by = s
      BY <1>0, <2>2, OpenStep
    <3> QED BY <3>1, <3>2 DEF OwnJobs, SweepQueues
  <2>3. CASE i \in OpenFor(a) /\ j \in OpenFor(a)
    BY <1>1, <2>1, <2>3 DEF OwnJobs, OneOpenJobPerSweep
  <2>4. CASE i \notin OpenFor(a) /\ j \in OpenFor(a)
    BY <1>1, <2>1, <2>2, <2>4
  <2>5. CASE i \in OpenFor(a) /\ j \notin OpenFor(a)
    BY <1>1, <2>1, <2>2, <2>5
  <2>6. CASE i \notin OpenFor(a) /\ j \notin OpenFor(a)
    BY <1>1, <2>2, <2>6
  <2> QED BY <2>3, <2>4, <2>5, <2>6
<1>2. ASSUME NEW s \in Sweeper, sweep'[s].at = "enqueue",
             NEW a \in Account, sweep'[s].account = a, NEW i \in OpenFor(a)'
      PROVE  jobs'[i].by # s
  <2>1. CASE sweep'[s] = sweep[s] /\ ~SweepQueues(s)
    <3>1. CASE i \in OpenFor(a)
      <4>1. jobs'[i].by = jobs[i].by
        BY <3>1, RowsKeep DEF OpenFor
      <4> QED BY <1>2, <2>1, <3>1, <4>1 DEF OwnJobs
    <3>2. CASE i \notin OpenFor(a)
      <4>1. \/ \E t \in Sweeper : SweepQueues(t) /\ jobs'[i].by = t
            \/ jobs'[i].by = "panel"
        BY <1>2, <3>2, OpenStep
      <4> QED BY <1>0, <2>1, <4>1
    <3> QED BY <3>1, <3>2
  <2>2. CASE /\ sweep'[s].account = sweep[s].account /\ OpenFor(sweep[s].account) = {}
             /\ jobs' = jobs
    BY <1>2, <2>2 DEF OpenFor, IsOpen
  <2> QED BY <1>2, <2>1, <2>2, DecidedStep
<1>3. \A s \in Sweeper : sweep'[s].at = "enqueue" => sweep'[s].account \in Account
  BY WorkingStep DEF Working, Busy
<1> QED BY <1>1, <1>2, <1>3 DEF OwnJobs, OneOpenJobPerSweep
-----------------------------------------------------------------------------
(* The graph: who adds an edge and who takes one.                            *)
LEMMA CopiesStep ==
    ASSUME Working, Next
    PROVE  copies' = copies \/ WriteGraph \/ DeleteMessages \/ DropCopies
<1>1. CASE (\E s \in Sweeper : SweepStep(s)) \/ (\E b \in Panel : PanelStep(b))
  BY <1>1 DEF SweepStep, SweepBegins, Sort, SweepQueues, SweepTrips,
     PanelStep, PanelAdopts, PanelReads, PanelQueues, PanelCancels, mailVars
<1>2. CASE RunStep \/ AuthFails \/ Crash
  BY <1>2 DEF RunStep, Claim, Bootstrap, List, WriteLedger, StoreWatermark, Settle, AuthFails,
     Crash, mailVars
<1>3. CASE EraseStep \/ BreakOff \/ \E b \in Account : Consent(b)
  BY <1>3 DEF EraseStep, RequireIdle, ReadPage, Classify, Forget, BreakOff, Consent, mailVars
<1> QED BY <1>1, <1>2, <1>3 DEF Next, Step

LEMMA NewCopy ==
    ASSUME Working, Next, NEW c \in copies', c \notin copies
    PROVE  /\ WriteGraph /\ c[1] = Mailbox /\ Mailbox \in Account
           /\ erase'.at # "idle" => c[1] \in raced'
<1>1. WriteGraph
  BY CopiesStep DEF DeleteMessages, DropCopies
<1>2. run.at # "idle" /\ run'.at = "ledger" /\ run'.job = run.job
  <2>1. run \in RunState
    BY DEF Working, TypeOK
  <2> QED BY <1>1, <2>1 DEF WriteGraph, RunState
<1>3. Mailbox \in Account /\ Mailbox' = Mailbox
  BY <1>2, MailboxOf, MailboxKept
<1>4. PICK m \in run.todo : c = <<Mailbox, Node(Mailbox, m)>>
  BY <1>1 DEF WriteGraph
<1>5. c[1] = Mailbox
  BY <1>4
<1>6. erase'.at # "idle" => Mailbox \in raced'
  BY <1>2, <1>3, BookedStep DEF Booked, InFlight
<1> QED BY <1>1, <1>3, <1>5, <1>6

LEMMA LostCopy ==
    ASSUME Working, Next, NEW c \in copies, c \notin copies'
    PROVE  \/ DropCopies /\ c[1] = erase.account
           \/ /\ DeleteMessages
              /\ \E m \in erase.page \ erase.elsewhere : c[2] = Node(erase.account, m)
<1>1. DropCopies \/ DeleteMessages
  BY CopiesStep DEF WriteGraph
<1> QED BY <1>1 DEF DropCopies, DeleteMessages

(* A mailbox keeps what it holds while another one is emptied.               *)
LEMMA HeldKept ==
    ASSUME Working, Exclusive, Next, NEW a \in Account, a \notin raced', ~Purging(a)
    PROVE  Held(a) \subseteq Held(a)'
<1>1. ASSUME NEW m \in 1..Mail[a], <<a, Node(a, m)>> \in copies, <<a, Node(a, m)>> \notin copies'
      PROVE  FALSE
  <2> DEFINE c == <<a, Node(a, m)>>
  <2>1. c[1] = a /\ c[2] = Node(a, m)
    OBVIOUS
  <2>2. CASE DropCopies /\ c[1] = erase.account
    BY <2>1, <2>2 DEF DropCopies, Purging
  <2>3. ASSUME DeleteMessages, NEW k \in erase.page \ erase.elsewhere,
               c[2] = Node(erase.account, k)
        PROVE  FALSE
    <3>1. a # erase.account /\ erase.at = "delete"
      BY <2>3 DEF DeleteMessages, Purging
    <3>2. <<a, Node(erase.account, k)>> \notin copies
      BY <2>3, <3>1, BookedStep DEF Exclusive
    <3> QED BY <1>1, <2>1, <2>3, <3>2
  <2> QED BY <1>1, <2>2, <2>3, LostCopy
<1> QED BY <1>1 DEF Held

(* The clear-out.                                                            *)
LEMMA EraseMoves ==
    ASSUME Working, Next
    PROVE  \/ erase' = erase /\ half' = half
           \/ \E b \in Account : RequireIdle(b)
           \/ ReadPage \/ Classify \/ DeleteMessages \/ DropCopies \/ Forget \/ BreakOff
<1>1. CASE (\E s \in Sweeper : SweepStep(s)) \/ (\E b \in Panel : PanelStep(b))
  BY <1>1 DEF SweepStep, SweepBegins, Sort, SweepQueues, SweepTrips,
     PanelStep, PanelAdopts, PanelReads, PanelQueues, PanelCancels
<1>2. CASE RunStep \/ AuthFails \/ Crash \/ \E b \in Account : Consent(b)
  BY <1>2 DEF RunStep, Claim, Bootstrap, List, WriteGraph, WriteLedger, StoreWatermark, Settle,
     AuthFails, Crash, Consent
<1>3. CASE EraseStep \/ BreakOff
  BY <1>3 DEF EraseStep
<1> QED BY <1>1, <1>2, <1>3 DEF Next, Step

LEMMA UndisturbedStep ==
    ASSUME Working, Next, NEW a \in Account, Undisturbed(a)'
    PROVE  /\ a \notin raced' /\ a \notin raced
           /\ Undisturbed(a) \/ (Forget /\ erase.account = a)
<1>0. raced \subseteq raced' /\ erase \in EraseState
  BY BookedStep DEF Working, TypeOK
<1>u. /\ a \notin half' /\ a \notin raced' /\ a \notin raced
      /\ ~(erase'.at # "idle" /\ erase'.account = a)
      /\ Undisturbed(a) <=> a \notin half /\ ~(erase.at # "idle" /\ erase.account = a)
  BY <1>0 DEF Undisturbed, Purging
<1>1. CASE erase' = erase /\ half' = half
  BY <1>u, <1>1
<1>2. CASE (\E b \in Account : RequireIdle(b)) \/ ReadPage \/ Classify \/ DeleteMessages \/ DropCopies
  <2>1. half' = half
    BY <1>2 DEF RequireIdle, ReadPage, Classify, DeleteMessages, DropCopies
  <2>2. Purging(a) => erase'.account = erase.account /\ erase'.at # "idle"
    BY <1>0, <1>2 DEF RequireIdle, ReadPage, Classify, DeleteMessages, DropCopies, EraseState, Purging
  <2> QED BY <1>u, <2>1, <2>2 DEF Purging
<1>3. CASE Forget
  BY <1>u, <1>3 DEF Forget
<1>4. CASE BreakOff
  BY <1>u, <1>4 DEF BreakOff
<1> QED BY <1>1, <1>2, <1>3, <1>4, EraseMoves
-----------------------------------------------------------------------------
(* Ledger and checkpoint.                                                    *)
LEMMA LedgerStep ==
    ASSUME Working, Next, NEW a \in Account, ledger'[a] # ledger[a]
    PROVE  \/ Forget /\ erase.account = a /\ ledger'[a] = {}
           \/ WriteLedger /\ Mailbox = a /\ ledger'[a] = ledger[a] \cup run.todo
<1>0. ledger \in [Account -> SUBSET Nat]
  BY DEF Working, TypeOK
<1>1. CASE WriteLedger
  <2>1. ledger' = [ledger EXCEPT ![Mailbox] = @ \cup run.todo]
    BY <1>1 DEF WriteLedger
  <2> QED BY <1>0, <1>1, <2>1
<1>2. CASE Forget
  BY <1>0, <1>2 DEF Forget
<1>3. CASE (\E s \in Sweeper : SweepStep(s)) \/ (\E b \in Panel : PanelStep(b))
  BY <1>3 DEF SweepStep, SweepBegins, Sort, SweepQueues, SweepTrips,
     PanelStep, PanelAdopts, PanelReads, PanelQueues, PanelCancels, mailVars
<1>4. CASE \/ Claim \/ Bootstrap \/ List \/ WriteGraph \/ StoreWatermark \/ Settle
           \/ AuthFails \/ Crash
  BY <1>4 DEF Claim, Bootstrap, List, WriteGraph, StoreWatermark, Settle, AuthFails, Crash, mailVars
<1>5. CASE \/ \E b \in Account : RequireIdle(b) \/ Consent(b)
           \/ ReadPage \/ Classify \/ DeleteMessages \/ DropCopies \/ BreakOff
  BY <1>5 DEF RequireIdle, Consent, ReadPage, Classify, DeleteMessages, DropCopies,
     BreakOff, mailVars
<1> QED BY <1>1, <1>2, <1>3, <1>4, <1>5 DEF Next, Step, RunStep, EraseStep

LEMMA LedgerHeldStep ==
    ASSUME Working, Exclusive, LedgerIsHeld, RunReads, Next
    PROVE  LedgerIsHeld'
<1> SUFFICES ASSUME NEW a \in Account, Undisturbed(a)'
             PROVE  ledger'[a] \subseteq Held(a)'
  BY DEF LedgerIsHeld
<1>1. a \notin raced' /\ (Undisturbed(a) \/ (Forget /\ erase.account = a))
  BY UndisturbedStep
<1>2. CASE Forget /\ erase.account = a
  <2>1. ledger'[a] = {}
    BY <1>2 DEF Forget, Working, TypeOK
  <2> QED BY <2>1
<1>3. CASE Undisturbed(a)
  <2>1. /\ a \notin half \cup raced /\ ledger[a] \subseteq Held(a)
        /\ ~Purging(a)
    BY <1>3 DEF Undisturbed, LedgerIsHeld
  <2>2. Held(a) \subseteq Held(a)'
    BY <1>1, <2>1, HeldKept
  <2>3. WriteLedger /\ Mailbox = a => run.todo \subseteq Held(a)
    BY <2>1 DEF WriteLedger, RunReads
  <2>4. ledger'[a] = ledger[a] \/ ledger'[a] = {}
        \/ (WriteLedger /\ Mailbox = a /\ ledger'[a] = ledger[a] \cup run.todo)
    BY LedgerStep
  <2> QED BY <2>1, <2>2, <2>3, <2>4
<1> QED BY <1>1, <1>2, <1>3

LEMMA ArmedStep ==
    ASSUME Working, Exclusive, LedgerIsHeld, ArmedMeansImported, RunReads, DeltasStart, Next
    PROVE  ArmedMeansImported'
<1> SUFFICES ASSUME NEW a \in Account, Undisturbed(a)'
             PROVE  1..mark'[a] \subseteq Held(a)'
  BY DEF ArmedMeansImported
<1>1. a \notin raced' /\ (Undisturbed(a) \/ (Forget /\ erase.account = a))
  BY UndisturbedStep
<1>2. 1..None = {}
  BY DEF None
<1>3. CASE Forget /\ erase.account = a
  <2>1. mark'[a] = None
    BY <1>3 DEF Forget, Working, TypeOK
  <2> QED BY <1>2, <2>1
<1>4. CASE Undisturbed(a)
  <2>1. /\ a \notin half \cup raced /\ ledger[a] \subseteq Held(a)
        /\ 1..mark[a] \subseteq Held(a) /\ ~Purging(a)
    BY <1>4 DEF Undisturbed, LedgerIsHeld, ArmedMeansImported
  <2>2. Held(a) \subseteq Held(a)'
    BY <1>1, <2>1, HeldKept
  <2>3. ASSUME Bootstrap, Mailbox = a PROVE FALSE
    BY <2>1, <2>3 DEF Bootstrap, DeltasStart
  <2>4. ASSUME StoreWatermark, Mailbox = a PROVE 1..Mail[a] \subseteq Held(a)
    <3>1. /\ 1..run.from \subseteq Held(a) /\ run.todo \subseteq Held(a)
          /\ run.from + 1 .. Mail[a] \subseteq ledger[a] \cup run.todo
      BY <2>1, <2>4 DEF StoreWatermark, RunReads
    <3>2. run.from \in Nat /\ Mail[a] \in Nat
      BY DEF Working, TypeOK, RunState
    <3>3. \A m \in 1..Mail[a] : m \in 1..run.from \/ m \in run.from + 1 .. Mail[a]
      BY <3>2
    <3> QED BY <2>1, <3>1, <3>3
  <2>5. mark'[a] = mark[a] \/ mark'[a] = None
        \/ ((Bootstrap \/ StoreWatermark) /\ Mailbox = a /\ mark'[a] = Mail[a])
    BY MarkStep
  <2> QED BY <1>2, <2>1, <2>2, <2>3, <2>4, <2>5
<1> QED BY <1>1, <1>3, <1>4

(* What a claim reads holds of its mailbox: nobody is emptying it.           *)
LEMMA ClaimReads ==
    ASSUME Working, Booked, ArmedMeansImported, Claim, Next, Mailbox' \notin half \cup raced',
           run'.at = "list"
    PROVE  1..run'.from \subseteq Held(Mailbox)'
<1> DEFINE a == jobs[run'.job].account
<1>1. /\ run'.job \in OpenFor(a) /\ a \in Account /\ Mailbox' = a
      /\ run'.from = None \/ run'.from = mark[a]
  BY ClaimFacts DEF OpenFor, IsOpen
<1>2. a \notin half /\ a \notin raced
  BY <1>1, BookedStep
<1>3. ~Purging(a)
  BY <1>1, <1>2 DEF Booked, InFlight, Purging
<1>4. 1..mark[a] \subseteq Held(a)
  BY <1>1, <1>2, <1>3 DEF Undisturbed, ArmedMeansImported
<1>5. 1..run'.from \subseteq Held(a)
  BY <1>1, <1>4 DEF None
<1>6. copies' = copies
  BY DEF Claim, mailVars
<1> HIDE DEF a
<1>7. Held(Mailbox)' = Held(a)
  BY <1>1, <1>6 DEF Held
<1> QED BY <1>5, <1>7

LEMMA RunReadsStep ==
    ASSUME Working, Booked, Exclusive, ArmedMeansImported, RunReads, Next
    PROVE  RunReads'
<1> SUFFICES ASSUME run'.at # "idle", Mailbox' \notin half' \cup raced'
             PROVE
        /\ run'.at \in {"list", "graph", "ledger", "finish"} => 1..run'.from \subseteq Held(Mailbox)'
        /\ run'.at \in {"graph", "ledger", "finish"} =>
             run'.from + 1 .. Mail[Mailbox]' \subseteq ledger[Mailbox]' \cup run'.todo
        /\ run'.at \in {"graph", "ledger", "finish"} => run'.todo \subseteq 1..Mail[Mailbox]'
        /\ run'.at \in {"ledger", "finish"} => run'.todo \subseteq Held(Mailbox)'
        /\ run'.at = "finish" => run'.todo \subseteq ledger[Mailbox]'
  BY DEF RunReads
<1>0. run \in RunState
  BY DEF Working, TypeOK
<1>1. CASE Claim
  <2>1. half' = half /\ run'.at \in {"bootstrap", "list"}
    BY <1>1, ClaimFacts DEF Claim
  <2> QED BY <1>1, <2>1, ClaimReads
<1>2. CASE \/ run' = run \/ Bootstrap \/ List \/ WriteGraph \/ WriteLedger \/ StoreWatermark
  <2> DEFINE a == Mailbox
  <2>1. /\ run.at # "idle" /\ run'.job = run.job /\ run'.from = run.from
        /\ run.from \in Nat
    <3>1. CASE run' = run
      BY <1>0, <3>1 DEF RunState
    <3>2. CASE Bootstrap \/ List
      BY <1>0, <3>2 DEF Bootstrap, List, RunState
    <3>3. CASE WriteGraph \/ WriteLedger \/ StoreWatermark
      BY <1>0, <3>3 DEF WriteGraph, WriteLedger, StoreWatermark, RunState
    <3> QED BY <1>2, <3>1, <3>2, <3>3
  <2>2. Mailbox' = a /\ a \in Account /\ a \notin raced /\ a \notin raced'
    BY <2>1, MailboxKept, MailboxOf, BookedStep
  <2>3. erase.at = "idle"
    BY <2>1, <2>2 DEF Booked, InFlight
  <2>4. half' = half /\ ~Purging(a) /\ ~Forget
    BY <2>3, EraseMoves DEF RequireIdle, ReadPage, Classify, DeleteMessages, DropCopies,
       Forget, BreakOff, Purging
  <2>5. Held(a) \subseteq Held(a)' /\ ledger[a] \subseteq ledger'[a]
    BY <2>2, <2>4, HeldKept, LedgerStep
  <2>6. a \notin half \cup raced
    BY <2>2, <2>4
  <2>7. Held(a)' = {m \in 1..Mail[a] : <<a, Node(a, m)>> \in copies'}
    BY <2>2 DEF Held
  <2>8. /\ run.at \in {"list", "graph", "ledger", "finish"} => 1..run.from \subseteq Held(a)
        /\ run.at \in {"graph", "ledger", "finish"} =>
             run.from + 1 .. Mail[a] \subseteq ledger[a] \cup run.todo
        /\ run.at \in {"graph", "ledger", "finish"} => run.todo \subseteq 1..Mail[a]
        /\ run.at \in {"ledger", "finish"} => run.todo \subseteq Held(a)
        /\ run.at = "finish" => run.todo \subseteq ledger[a]
    BY <2>1, <2>6 DEF RunReads
  <2> SUFFICES
        /\ run'.at \in {"list", "graph", "ledger", "finish"} => 1..run.from \subseteq Held(a)'
        /\ run'.at \in {"graph", "ledger", "finish"} =>
             run.from + 1 .. Mail[a] \subseteq ledger'[a] \cup run'.todo
        /\ run'.at \in {"graph", "ledger", "finish"} => run'.todo \subseteq 1..Mail[a]
        /\ run'.at \in {"ledger", "finish"} => run'.todo \subseteq Held(a)'
        /\ run'.at = "finish" => run'.todo \subseteq ledger'[a]
    BY <2>1, <2>2
  <2> HIDE DEF a
  <2>9. CASE run' = run
    BY <2>5, <2>8, <2>9
  <2>10. CASE Bootstrap \/ StoreWatermark
    <3>1. run'.at = "settle"
      BY <1>0, <2>10 DEF Bootstrap, StoreWatermark, RunState
    <3> QED BY <3>1
  <2>11. CASE List
    <3>1. /\ run.at = "list" /\ run'.at = "graph" /\ ledger' = ledger
          /\ run'.todo = (run.from + 1 .. Mail[a]) \ ledger[a]
      BY <1>0, <2>11 DEF List, RunState, mailVars, a
    <3>2. run.from + 1 .. Mail[a] \subseteq 1..Mail[a]
      BY <2>1, <2>2
    <3> QED BY <2>5, <2>8, <3>1, <3>2
  <2>12. CASE WriteGraph
    <3>1. /\ run.at = "graph" /\ run'.at = "ledger" /\ run'.todo = run.todo
          /\ copies' = copies \cup {<<a, Node(a, m)>> : m \in run.todo}
      BY <1>0, <2>12 DEF WriteGraph, RunState, a
    <3>2. run.todo \subseteq Held(a)'
      BY <2>7, <2>8, <3>1
    <3> QED BY <2>5, <2>8, <3>1, <3>2
  <2>13. CASE WriteLedger
    <3>1. /\ run.at = "ledger" /\ run'.at = "finish" /\ run'.todo = run.todo
          /\ ledger' = [ledger EXCEPT ![a] = @ \cup run.todo]
      BY <1>0, <2>13 DEF WriteLedger, RunState, a
    <3>2. run.todo \subseteq ledger'[a]
      BY <2>2, <3>1 DEF Working, TypeOK
    <3> QED BY <2>5, <2>8, <3>1, <3>2
  <2> QED BY <1>2, <2>9, <2>10, <2>11, <2>12, <2>13
<1> QED BY <1>1, <1>2, HandlerStep
-----------------------------------------------------------------------------
(* The purge.                                                                *)
LEMMA ExclusiveStep ==
    ASSUME Working, Exclusive, Next
    PROVE  Exclusive'
<1> SUFFICES ASSUME erase'.at = "delete",
                    NEW m \in erase'.page \ erase'.elsewhere,
                    NEW a \in Account \ {erase'.account}, a \notin raced'
             PROVE  <<a, Node(erase'.account, m)>> \notin copies'
  BY DEF Exclusive
<1> DEFINE c == <<a, Node(erase'.account, m)>>
<1>0. erase \in EraseState /\ c[1] = a
  BY DEF Working, TypeOK
<1>1. c \notin copies
  <2>1. CASE erase' = erase
    BY <2>1, BookedStep DEF Exclusive
  <2>2. CASE Classify
    <3> DEFINE found == {k \in erase.page : Elsewhere(erase.account, k)}
    <3>1. erase' = [erase EXCEPT !.at = "delete", !.elsewhere = found, !.shared = @ \/ found # {}]
      BY <2>2 DEF Classify
    <3> HIDE DEF found
    <3>2. /\ erase'.page = erase.page /\ erase'.elsewhere = found
          /\ erase'.account = erase.account
      BY <1>0, <3>1 DEF EraseState
    <3>3. m \in erase.page /\ m \notin found
      BY <3>2
    <3>4. ~Elsewhere(erase.account, m)
      BY <3>3 DEF found
    <3>5. <<a, Node(erase.account, m)>> \notin copies
      BY <3>2, <3>4 DEF Elsewhere
    <3>6. c = <<a, Node(erase.account, m)>>
      BY <3>2
    <3> QED BY <3>5, <3>6
  <2>3. CASE \/ (\E b \in Account : RequireIdle(b)) \/ ReadPage \/ DeleteMessages \/ DropCopies
             \/ Forget \/ BreakOff
    <3>1. ASSUME NEW b \in Account, RequireIdle(b) PROVE FALSE
      <4>1. erase' = [IdleErase EXCEPT !.at = "page", !.account = b, !.after = Mail[b] + 1]
        BY <3>1 DEF RequireIdle
      <4> QED BY <4>1 DEF IdleErase
    <3>2. ASSUME Forget \/ BreakOff PROVE FALSE
      BY <3>2 DEF Forget, BreakOff, IdleErase
    <3>3. CASE ReadPage \/ DeleteMessages \/ DropCopies
      BY <1>0, <3>3 DEF ReadPage, DeleteMessages, DropCopies, EraseState
    <3> QED BY <2>3, <3>1, <3>2, <3>3
  <2> QED BY <2>1, <2>2, <2>3, EraseMoves
<1>2. erase'.at # "idle"
  OBVIOUS
<1> HIDE DEF c
<1>3. c \notin copies'
  BY <1>0, <1>1, <1>2, NewCopy
<1> QED BY <1>3 DEF c

LEMMA HeldShrinks ==
    ASSUME Working, Next, erase'.at # "idle", NEW a \in Account, a \notin raced'
    PROVE  Held(a)' \subseteq Held(a)
<1> SUFFICES ASSUME NEW m \in 1..Mail[a], <<a, Node(a, m)>> \in copies'
             PROVE  <<a, Node(a, m)>> \in copies
  BY DEF Held
<1> DEFINE c == <<a, Node(a, m)>>
<1>1. c[1] = a
  OBVIOUS
<1> HIDE DEF c
<1>2. c \in copies' => c \in copies
  BY <1>1, NewCopy
<1> QED BY <1>2 DEF c

LEMMA PurgedStep ==
    ASSUME Working, Purged, Next
    PROVE  Purged'
<1> DEFINE a == erase'.account
<1> SUFFICES ASSUME erase'.at # "idle", a \notin raced'
             PROVE
        /\ erase'.at = "page" /\ ~erase'.shared => \A m \in Held(erase.account)' : m < erase'.after
        /\ erase'.at \in {"classify", "delete"} /\ ~erase'.shared =>
             \A m \in Held(erase.account)' : m < erase'.after \/ m \in erase'.page
        /\ erase'.at = "delete" /\ ~erase'.shared => erase'.elsewhere = {}
        /\ erase'.at = "forget" => Held(erase.account)' = {}
  BY DEF Purged
<1>0. erase \in EraseState /\ a \in Account /\ a \notin raced
  <2>1. a \in Account
    BY WorkingStep DEF Working, Busy
  <2> QED BY <2>1, BookedStep DEF Working, TypeOK
<1>h. Held(erase.account)' = {m \in 1..Mail[a] : <<a, Node(a, m)>> \in copies'}
  BY DEF Held
<1> DEFINE H == {m \in 1..Mail[a] : <<a, Node(a, m)>> \in copies'}
<1>1. H \subseteq Held(a)
  <2> DEFINE b == erase'.account
  <2>1. H = {m \in 1..Mail[b] : <<b, Node(b, m)>> \in copies'}
    OBVIOUS
  <2>2. \A d \in Account : d \notin raced' =>
           {m \in 1..Mail[d] : <<d, Node(d, m)>> \in copies'} \subseteq Held(d)
    <3>1. ASSUME NEW d \in Account, d \notin raced'
          PROVE  {m \in 1..Mail[d] : <<d, Node(d, m)>> \in copies'} \subseteq Held(d)
      <4>1. Held(d)' \subseteq Held(d)
        BY <3>1, HeldShrinks
      <4>2. Held(d)' = {m \in 1..Mail[d] : <<d, Node(d, m)>> \in copies'}
        BY DEF Held
      <4> QED BY <4>1, <4>2
    <3> QED BY <3>1
  <2> QED BY <1>0, <2>2
<1> SUFFICES
        /\ erase'.at = "page" /\ ~erase'.shared => \A m \in H : m < erase'.after
        /\ erase'.at \in {"classify", "delete"} /\ ~erase'.shared =>
             \A m \in H : m < erase'.after \/ m \in erase'.page
        /\ erase'.at = "delete" /\ ~erase'.shared => erase'.elsewhere = {}
        /\ erase'.at = "forget" => H = {}
  BY <1>h
<1>2. ASSUME erase.at # "idle", erase.account = a
      PROVE
        /\ erase.at = "page" /\ ~erase.shared => \A m \in Held(a) : m < erase.after
        /\ erase.at \in {"classify", "delete"} /\ ~erase.shared =>
             \A m \in Held(a) : m < erase.after \/ m \in erase.page
        /\ erase.at = "delete" /\ ~erase.shared => erase.elsewhere = {}
        /\ erase.at = "forget" => Held(a) = {}
  BY <1>0, <1>2 DEF Purged
<1>3. CASE erase' = erase
  <2> HIDE DEF H
  <2> QED BY <1>1, <1>2, <1>3
<1>4. ASSUME NEW b \in Account, RequireIdle(b)
      PROVE  erase'.at = "page" /\ \A m \in H : m < erase'.after
  <2>1. erase' = [IdleErase EXCEPT !.at = "page", !.account = b, !.after = Mail[b] + 1]
    BY <1>4 DEF RequireIdle
  <2>2. erase'.at = "page" /\ erase'.account = b /\ erase'.after = Mail[b] + 1
    BY <2>1 DEF IdleErase
  <2>3. \A m \in 1..Mail[b] : m < Mail[b] + 1
    OBVIOUS
  <2> QED BY <2>2, <2>3
<1>5. CASE ReadPage
  <2>1. /\ erase.at = "page" /\ erase.account = a /\ erase.after \in Nat
        /\ erase'.shared = erase.shared /\ erase'.at \in {"copies", "forget", "classify"}
        /\ erase'.at = "forget" => NextPage = {} /\ ~erase.shared
        /\ erase'.at = "classify" =>
             NextPage # {} /\ erase'.page = NextPage /\ erase'.after = LeastOf(NextPage)
    BY <1>0, <1>5 DEF ReadPage, EraseState, LeastOf
  <2> HIDE DEF a, H
  <2>2. ~erase.shared => \A m \in Held(a) : m < erase.after
    BY <1>2, <2>1
  <2>3. /\ NextPage = {} => \A m \in Held(a) : ~(m < erase.after)
        /\ NextPage # {} => \A m \in Held(a) :
             m < erase.after => m < LeastOf(NextPage) \/ m \in NextPage
    BY <1>0, <2>1, NextPageFacts
  <2>4. erase'.at = "forget" => H = {}
    BY <1>1, <2>1, <2>2, <2>3
  <2>5. erase'.at = "classify" /\ ~erase'.shared =>
          \A m \in H : m < erase'.after \/ m \in erase'.page
    BY <1>1, <2>1, <2>2, <2>3
  <2> QED BY <2>1, <2>4, <2>5
<1>6. CASE Classify
  <2> DEFINE found == {m \in erase.page : Elsewhere(erase.account, m)}
  <2>1. erase' = [erase EXCEPT !.at = "delete", !.elsewhere = found, !.shared = @ \/ found # {}]
    BY <1>6 DEF Classify
  <2> HIDE DEF found
  <2>2. /\ erase.at = "classify" /\ erase'.at = "delete" /\ erase.account = a
        /\ erase'.elsewhere = found /\ erase'.page = erase.page /\ erase'.after = erase.after
        /\ erase'.shared = (erase.shared \/ found # {})
    BY <1>0, <1>6, <2>1 DEF Classify, EraseState
  <2> HIDE DEF a, H
  <2> QED BY <1>1, <1>2, <2>2
<1>7. CASE DeleteMessages
  <2>1. /\ erase.at = "delete" /\ erase'.at = "page" /\ erase.account = a
        /\ erase'.shared = erase.shared /\ erase'.after = erase.after
    BY <1>0, <1>7 DEF DeleteMessages, EraseState
  <2>2. ~erase.shared => erase.elsewhere = {}
    BY <1>2, <2>1
  <2>3. ~erase.shared => \A m \in Held(a) : m < erase.after \/ m \in erase.page
    BY <1>2, <2>1
  <2>4. ASSUME NEW m \in H, m \in erase.page, ~erase.shared PROVE FALSE
    <3>1. <<a, Node(a, m)>> \in copies'
      BY <2>4
    <3>2. copies' = {c \in copies : c[2] \notin
                       {Node(erase.account, k) : k \in erase.page \ erase.elsewhere}}
      BY <1>7 DEF DeleteMessages
    <3>3. Node(a, m) \in {Node(erase.account, k) : k \in erase.page \ erase.elsewhere}
      BY <2>1, <2>2, <2>4
    <3>4. <<a, Node(a, m)>>[2] = Node(a, m)
      OBVIOUS
    <3> QED BY <3>1, <3>2, <3>3, <3>4
  <2> HIDE DEF a, H
  <2>5. ~erase'.shared => \A m \in H : m < erase'.after
    BY <1>1, <2>1, <2>3, <2>4
  <2> QED BY <2>1, <2>5
<1>8. CASE DropCopies
  <2>1. /\ erase.at = "copies" /\ erase'.at = "forget" /\ erase.account = a
        /\ copies' = {c \in copies : c[1] # a}
    BY <1>0, <1>8 DEF DropCopies, EraseState
  <2>2. H = {}
    BY <2>1
  <2> QED BY <2>1, <2>2
<1>9. CASE Forget \/ BreakOff
  BY <1>9 DEF Forget, BreakOff, IdleErase
<1> HIDE DEF a, H
<1>10. CASE \E b \in Account : RequireIdle(b)
  BY <1>4, <1>10
<1> QED BY <1>3, <1>5, <1>6, <1>7, <1>8, <1>9, <1>10, EraseMoves
-----------------------------------------------------------------------------
(* All of it together.                                                       *)
LEMMA InitMInv == Init => MInv
<1> SUFFICES ASSUME Init PROVE MInv
  OBVIOUS
<1>1. PICK imported \in SUBSET Account :
        /\ mark = [a \in Account |-> IF a \in imported THEN 1 ELSE None]
        /\ ledger = [a \in Account |-> IF a \in imported THEN {1} ELSE {}]
        /\ copies = {<<a, Node(a, 1)>> : a \in imported}
  BY DEF Init
<1>2. TypeOK /\ Busy
  BY InitWorking DEF Working
<1>3. Booked /\ RunReads /\ Exclusive /\ Purged
  BY DEF Init, IdleRun, IdleErase, Booked, RunReads, Exclusive, Purged
<1>4. \A a \in Account : OpenFor(a) = {} /\ Open("incremental", a) = {}
  <2>1. DOMAIN jobs = {}
    BY DEF Init
  <2> QED BY <2>1 DEF OpenFor, Open
<1>5. (\A s \in Sweeper : sweep[s].at = "idle") /\ run.at = "idle"
  BY DEF Init, IdleSweep, IdleRun
<1>6. DeltasStart /\ OwnJobs
  BY <1>4, <1>5 DEF DeltasStart, DeltaHasAStart, OwnJobs, OneOpenJobPerSweep
<1>7. ASSUME NEW a \in imported PROVE 1 \in Held(a)
  <2>1. 1 \in 1..Mail[a]
    OBVIOUS
  <2> QED BY <1>1, <2>1 DEF Held
<1>8. LedgerIsHeld
  BY <1>1, <1>7 DEF LedgerIsHeld
<1>9. ASSUME NEW a \in Account PROVE 1..mark[a] \subseteq Held(a)
  <2>1. CASE a \in imported
    <3>1. mark[a] = 1
      BY <1>1, <2>1
    <3> QED BY <1>7, <2>1, <3>1
  <2>2. CASE a \notin imported
    <3>1. mark[a] = None
      BY <1>1, <2>2
    <3> QED BY <3>1 DEF None
  <2> QED BY <2>1, <2>2
<1> QED BY <1>2, <1>3, <1>6, <1>8, <1>9 DEF MInv, ArmedMeansImported

LEMMA MInvStutter == MInv /\ UNCHANGED vars => MInv'
<1> SUFFICES ASSUME MInv, UNCHANGED vars PROVE MInv'
  OBVIOUS
<1>0. /\ jobs' = jobs /\ sweep' = sweep /\ panel' = panel /\ run' = run /\ erase' = erase
      /\ mark' = mark /\ ledger' = ledger /\ auth' = auth /\ copies' = copies
      /\ half' = half /\ raced' = raced /\ faults' = faults
  BY DEF vars, jobVars, mailVars
<1>1. (TypeOK /\ Busy)'
  BY <1>0 DEF MInv, TypeOK, Busy
<1>2. (Booked /\ DeltasStart /\ OwnJobs)'
  BY <1>0 DEF MInv, Booked, DeltasStart, DeltaHasAStart, OwnJobs, OneOpenJobPerSweep, InFlight,
     Purging, OpenFor, Open, IsOpen, Mailbox
<1>3. (LedgerIsHeld /\ ArmedMeansImported /\ RunReads)'
  BY <1>0 DEF MInv, LedgerIsHeld, ArmedMeansImported, RunReads, Undisturbed, Purging, Held, Mailbox
<1>4. (Exclusive /\ Purged)'
  BY <1>0 DEF MInv, Exclusive, Purged, Held
<1> QED BY <1>1, <1>2, <1>3, <1>4 DEF MInv

LEMMA MInvStep == MInv /\ [Next]_vars => MInv'
<1> SUFFICES ASSUME MInv, [Next]_vars PROVE MInv'
  OBVIOUS
<1>1. CASE UNCHANGED vars
  BY <1>1, MInvStutter
<1>2. CASE Next
  <2>1. Working
    BY DEF MInv, Working
  <2>2. (TypeOK /\ Busy)'
    BY <1>2, <2>1, WorkingStep DEF Working
  <2>3. (Booked /\ DeltasStart /\ OwnJobs)'
    BY <1>2, <2>1, BookedStep, DeltasStep, OwnJobsStep DEF MInv
  <2>4. (LedgerIsHeld /\ ArmedMeansImported)'
    BY <1>2, <2>1, LedgerHeldStep, ArmedStep DEF MInv
  <2>5. (RunReads /\ Exclusive /\ Purged)'
    BY <1>2, <2>1, RunReadsStep, ExclusiveStep, PurgedStep DEF MInv
  <2> QED BY <2>2, <2>3, <2>4, <2>5 DEF MInv
<1> QED BY <1>1, <1>2

LEMMA Invariance == Spec => []MInv
BY InitMInv, MInvStep, PTL DEF Spec

(* Every variable keeps its type, and a worker, a sweep and a clear-out are  *)
(* always about a job or a mailbox that exists.                              *)
THEOREM MailboxTypeCorrect == Spec => [](TypeOK /\ Busy)
<1>1. MInv => TypeOK /\ Busy
  BY DEF MInv
<1> QED BY <1>1, Invariance, PTL

(* A mailbox with a delta mark holds everything the mark covers, however     *)
(* many mailboxes share its messages and whatever was cleared meanwhile      *)
(* (_starting_mark, _store_watermark, AccountEraser._forget).                *)
THEOREM MarksCoverTheArchive == Spec => []ArmedMeansImported
<1>1. MInv => ArmedMeansImported
  BY DEF MInv
<1> QED BY <1>1, Invariance, PTL

(* What the ledger claims is in the graph: the engine may skip it.           *)
THEOREM LedgersAreTrue == Spec => []LedgerIsHeld
<1>1. MInv => LedgerIsHeld
  BY DEF MInv
<1> QED BY <1>1, Invariance, PTL

(* Only a clear-out in flight leaves a queued delta without a start.         *)
THEOREM DeltasHaveAStart == Spec => []DeltaHasAStart
<1>1. MInv => DeltaHasAStart
  BY DEF MInv, DeltasStart
<1> QED BY <1>1, Invariance, PTL

(* The purge reaches its end with nothing left, also when the messages it    *)
(* left alone were another mailbox's too.                                    *)
THEOREM ForgottenIsGone == Spec => []PurgedBeforeForgotten
<1>1. MInv => PurgedBeforeForgotten
  BY DEF MInv, Purged, PurgedBeforeForgotten
<1> QED BY <1>1, Invariance, PTL

(* A sweep never adds a second open job to one of its own.                   *)
THEOREM SweepsAddOne == Spec => []OneOpenJobPerSweep
<1>1. MInv => OneOpenJobPerSweep
  BY DEF MInv, OwnJobs
<1> QED BY <1>1, Invariance, PTL
=============================================================================
