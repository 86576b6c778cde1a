---------------------------- MODULE ImportEngine ----------------------------
(***************************************************************************)
(* One mailbox, the import runs that walk it (ImportEngine.run, mailarc_   *)
(* sync, engine/engine.py) and the stores they leave it in: the graph, the *)
(* ledger of archived messages, the failure rows and three checkpoints.    *)
(* Runs follow one another; each commit of the code is one step, and a run *)
(* may be cut short between any two of them.                               *)
(*                                                                         *)
(* A message is the number of its arrival.  A position in the mailbox is a *)
(* number too: going up (a delta, or a source that lists oldest first) n   *)
(* says that 1..n lie behind, going down (newest first) that 1..n lie      *)
(* ahead.  A watermark n says that 1..n had arrived when it was read.      *)
(***************************************************************************)
EXTENDS Integers, FiniteSets

CONSTANTS
    MaxMsg,           \* bound: messages that ever arrive
    MaxFaults,        \* bound: runs cancelled or cut short, cursors expired
    Broken,           \* messages parse_message refuses
    PageSize,         \* messages a source returns per listing at most
    BatchSize,        \* SyncConfig.batch_size: messages per flush
    CheckpointEvery   \* SyncConfig.checkpoint_every

Msg      == 1..MaxMsg
Position == 0..MaxMsg
Nowhere  == -1          \* a NULL cursor: no row, no mark, start from the top

ASSUME EngineAssumption ==
    /\ MaxMsg \in Nat
    /\ MaxFaults \in Nat
    /\ Broken \subseteq Msg
    /\ PageSize \in Nat \ {0}
    /\ BatchSize \in Nat \ {0}
    /\ CheckpointEvery \in Nat \ {0}

VARIABLES
    arrived,   \* the provider: messages 1..arrived are in the mailbox
    horizon,   \* the provider: a delta from before this position has expired
    delta,     \* the provider: whether it has a delta at all
    newestFirst,  \* the provider: whether a full walk goes down from the newest
    graph, ledger, failed,   \* messages in the graph, the ledger, the failure rows
    full,      \* checkpoint FULL: where an interrupted walk goes on
    pending,   \* checkpoint PENDING: the mark that walk began with
    incr,      \* checkpoint INCREMENTAL: where the next delta starts
    pc, mode, cursor, mark,  \* the run: its step, mode, cursor and watermark
    page,      \* of the page being imported, what is not flushed yet
    batch,     \* what the flush under way writes
    since,     \* messages processed since the last full checkpoint
    exempt,    \* history: mail up to here predates the account's first mark
    faults     \* history: faults so far

provider == <<arrived, horizon, delta, newestFirst>>
stores   == <<graph, ledger, failed>>
scopes   == <<full, pending, incr>>
walk     == <<mode, cursor, mark, page, batch, since>>
vars     == <<provider, stores, scopes, pc, walk, exempt, faults>>

Mode     == {"full", "incremental"}
Location == {"idle", "resume", "mark", "park", "bootstrap", "list", "clear",
             "flush", "ledger", "turn", "ask", "store", "unpark"}

Arrived == 1..arrived
Dealt   == ledger \cup failed

Downward(m) == m = "full" /\ newestFirst

(* Where a listing with this cursor begins. *)
At(m, c) == IF c # Nowhere THEN c ELSE IF Downward(m) THEN arrived ELSE 0

(* What a walk in this mode still has ahead of this cursor. *)
Ahead(m, c) ==
    {n \in Arrived : IF Downward(m) THEN n <= At(m, c) ELSE n > At(m, c)}

Init ==
    /\ arrived \in Position
    /\ horizon = 0
    /\ delta \in BOOLEAN
    /\ newestFirst \in BOOLEAN
    /\ graph = {} /\ ledger = {} /\ failed = {}
    /\ full = Nowhere /\ pending = Nowhere /\ incr = Nowhere
    /\ pc = "idle" /\ mode = "full"
    /\ cursor = Nowhere /\ mark = Nowhere
    /\ page = {} /\ batch = {} /\ since = 0
    /\ exempt = 0
    /\ faults = 0

-----------------------------------------------------------------------------
(* The provider. *)

Arrive ==
    /\ arrived < MaxMsg
    /\ arrived' = arrived + 1
    /\ UNCHANGED <<horizon, delta, newestFirst, stores, scopes, pc, walk, exempt, faults>>

Expire ==
    /\ faults < MaxFaults
    /\ horizon' \in (horizon + 1)..arrived
    /\ faults' = faults + 1
    /\ UNCHANGED <<arrived, delta, newestFirst, stores, scopes, pc, walk, exempt>>

WatermarksNext == IF delta THEN (horizon + 1)..(arrived + 1) ELSE {Nowhere}  \* mutant

(* Any position not yet expired is a legal mark: a source may answer with *)
(* one that lags behind the newest message, never with one ahead of it.   *)
Watermarks == IF delta THEN horizon..arrived ELSE {Nowhere}

Expired == mode = "incremental" /\ cursor < horizon

-----------------------------------------------------------------------------
(* A run, up to its first listing. *)

Start(m) ==
    /\ pc = "idle"
    /\ mode' = m
    /\ pc' = "resume"
    /\ UNCHANGED <<provider, stores, scopes, cursor, mark, page, batch, since,
                   exempt, faults>>

Resume ==
    /\ pc = "resume"
    /\ cursor' = IF mode = "full" THEN full ELSE incr
    /\ pc' = "mark"
    /\ UNCHANGED <<provider, stores, scopes, mode, mark, page, batch, since,
                   exempt, faults>>

InheritsNothing == FALSE    \* mutant: a resume reads a mark of its own

(* _starting_mark: a resumed full walk inherits the mark it began with. *)
Inherits == mode = "full" /\ cursor # Nowhere /\ pending # Nowhere

StartingMark ==
    /\ pc = "mark"
    /\ mark' \in IF Inherits THEN {pending} ELSE Watermarks
    /\ pc' = IF cursor # Nowhere THEN "list"
             ELSE IF mode = "full" THEN "park" ELSE "bootstrap"
    /\ UNCHANGED <<provider, stores, scopes, mode, cursor, page, batch, since,
                   exempt, faults>>

RememberMark ==
    /\ pc = "park"
    /\ pending' = IF mark # Nowhere THEN mark ELSE pending
    /\ pc' = "list"
    /\ UNCHANGED <<provider, stores, full, incr, walk, exempt, faults>>

Ended ==
    /\ pc' = "idle" /\ mode' = "full"
    /\ cursor' = Nowhere /\ mark' = Nowhere
    /\ page' = {} /\ batch' = {} /\ since' = 0

(* A delta that never had a checkpoint stores its mark and walks nothing. *)
Bootstrap ==
    /\ pc = "bootstrap"
    /\ incr' = IF mark # Nowhere THEN mark ELSE incr
    /\ exempt' = IF mark # Nowhere THEN mark ELSE exempt
    /\ Ended
    /\ UNCHANGED <<provider, stores, full, pending, faults>>

-----------------------------------------------------------------------------
(* The walk: list, flush what the ledger does not have, checkpoint, go on. *)

(* One listing: the messages between where it begins and where it cuts off, *)
(* a page at most, less those the ledger knows; the next cursor is the cut, *)
(* or NULL when nothing is left.                                            *)
Listed(cut) ==
    IF Downward(mode) THEN (cut + 1)..At(mode, cursor)
                      ELSE (At(mode, cursor) + 1)..cut

IsPage(cut) ==
    LET taken == IF Downward(mode) THEN At(mode, cursor) - cut
                                   ELSE cut - At(mode, cursor)
    IN  /\ taken \in 0..PageSize
        /\ taken = 0 => Ahead(mode, cursor) = {}
        /\ since' = since + taken

List ==
    /\ pc = "list" /\ ~Expired
    /\ \E cut \in 0..arrived :
         /\ IsPage(cut)
         /\ page' = Listed(cut) \ ledger
         /\ cursor' = IF cut = (IF Downward(mode) THEN 0 ELSE arrived)
                      THEN Nowhere ELSE cut
    /\ pc' = IF page' = {} THEN "turn" ELSE "flush"
    /\ UNCHANGED <<provider, stores, scopes, mode, mark, batch, exempt, faults>>

FallBackRaises ==    \* mutant: an expired delta ends the run like any error
    /\ pc = "list" /\ Expired
    /\ pc' = "idle" /\ mode' = "full"
    /\ UNCHANGED <<provider, stores, scopes, cursor, mark, page, batch, since, exempt,
                   faults>>

(* MailCursorExpired: the same run walks the whole mailbox instead.  The    *)
(* stale delta checkpoint stays, the full scope is cleared and the mark     *)
(* parked before anything is listed.                                        *)
FallBack ==
    /\ pc = "list" /\ Expired
    /\ mode' = "full" /\ cursor' = Nowhere
    /\ pc' = "clear"
    /\ UNCHANGED <<provider, stores, scopes, mark, page, batch, since, exempt, faults>>

ClearNothing ==    \* mutant: the full scope keeps its page token
    /\ pc = "clear"
    /\ pc' = "park"
    /\ UNCHANGED <<provider, stores, scopes, walk, exempt, faults>>

ClearFull ==
    /\ pc = "clear"
    /\ full' = Nowhere
    /\ pc' = "park"
    /\ UNCHANGED <<provider, stores, pending, incr, walk, exempt, faults>>

(* _flush: the graph in one commit, then the ledger and the failure rows in *)
(* one transaction.                                                         *)
IsBatch(b) ==
    \/ Cardinality(b) = BatchSize
    \/ b = page /\ b # {} /\ Cardinality(b) < BatchSize

FlushGraph ==
    /\ pc = "flush"
    /\ \E b \in SUBSET page :
         /\ IsBatch(b)
         /\ batch' = b
         /\ graph' = graph \cup (b \ Broken)
    /\ pc' = "ledger"
    /\ UNCHANGED <<provider, ledger, failed, scopes, mode, cursor, mark, page,
                   since, exempt, faults>>

FlushWholePage ==    \* mutant: the ledger gets the page, the graph got a batch
    /\ pc = "ledger"
    /\ ledger' = ledger \cup (page \ Broken)
    /\ failed' = failed \cup (page \cap Broken)
    /\ page' = {} /\ batch' = {}
    /\ pc' = "turn"
    /\ UNCHANGED <<provider, graph, scopes, mode, cursor, mark, since, exempt, faults>>

FlushLedger ==
    /\ pc = "ledger"
    /\ ledger' = ledger \cup (batch \ Broken)
    /\ failed' = failed \cup (batch \cap Broken)
    /\ page' = page \ batch
    /\ batch' = {}
    /\ pc' = IF page' = {} THEN "turn" ELSE "flush"
    /\ UNCHANGED <<provider, graph, scopes, mode, cursor, mark, since, exempt, faults>>

CheckpointDue ==
    mode = "full" /\ (since >= CheckpointEvery \/ cursor = Nowhere)

Checkpoint ==
    /\ pc = "turn"
    /\ full' = IF CheckpointDue THEN cursor ELSE full
    /\ since' = IF CheckpointDue THEN 0 ELSE since
    /\ pc' = IF cursor = Nowhere THEN "store" ELSE "ask"
    /\ UNCHANGED <<provider, stores, pending, incr, mode, cursor, mark, page,
                   batch, exempt, faults>>

GoOn ==
    /\ pc = "ask"
    /\ pc' = "list"
    /\ UNCHANGED <<provider, stores, scopes, walk, exempt, faults>>

(* Only a walk that reached its end moves the delta's starting point. *)
StoreWatermark ==
    /\ pc = "store"
    /\ incr' = IF mark # Nowhere THEN mark ELSE incr
    /\ exempt' = IF mark # Nowhere /\ mode = "full" THEN 0 ELSE exempt
    /\ IF mode = "full" /\ mark # Nowhere
       THEN pc' = "unpark" /\ UNCHANGED walk
       ELSE Ended
    /\ UNCHANGED <<provider, stores, full, pending, faults>>

Unpark ==
    /\ pc = "unpark"
    /\ pending' = Nowhere
    /\ Ended
    /\ UNCHANGED <<provider, stores, full, incr, exempt, faults>>

-----------------------------------------------------------------------------
(* Runs that end early. *)

Cancelled ==
    /\ pc = "ask"
    /\ faults < MaxFaults
    /\ faults' = faults + 1
    /\ Ended
    /\ UNCHANGED <<provider, stores, scopes, exempt>>

(* A crash, a stop, an error of the source or of a store.  A flush that was *)
(* under way may have reached the graph with some of what it carried.       *)
CutShort ==
    /\ pc # "idle"
    /\ faults < MaxFaults
    /\ faults' = faults + 1
    /\ graph' \in IF pc = "flush"
                  THEN {graph \cup s : s \in SUBSET (page \ Broken)} ELSE {graph}
    /\ Ended
    /\ UNCHANGED <<provider, ledger, failed, scopes, exempt>>

Step ==
    \/ Resume \/ StartingMark \/ RememberMark \/ Bootstrap
    \/ List \/ FallBack \/ ClearFull \/ FlushGraph \/ FlushLedger
    \/ Checkpoint \/ GoOn \/ StoreWatermark \/ Unpark

Next ==
    \/ Arrive \/ Expire
    \/ \E m \in Mode : Start(m)
    \/ Step
    \/ Cancelled \/ CutShort

Spec == Init /\ [][Next]_vars

(* The scheduler keeps queueing runs, and a run that is not cut short takes *)
(* its next step.                                                           *)
Fairness == WF_vars(\E m \in Mode : Start(m)) /\ WF_vars(Step)
FairSpec == Spec /\ Fairness

-----------------------------------------------------------------------------
(* Types, and that no position is ahead of what has arrived. *)
EngineTypeOK ==
    /\ arrived \in Position /\ horizon \in Position /\ delta \in BOOLEAN
    /\ newestFirst \in BOOLEAN
    /\ graph \subseteq Arrived /\ ledger \subseteq Arrived /\ failed \subseteq Arrived
    /\ \A c \in {full, pending, incr, cursor, mark} : c \in 0..arrived \cup {Nowhere}
    /\ pc \in Location /\ mode \in Mode
    /\ page \subseteq Arrived /\ batch \subseteq page
    /\ since \in Nat /\ exempt \in 0..arrived /\ faults \in Nat

(* The delta's starting point never lies about the past: every message up   *)
(* to it has a ledger row or a failure row, unless it predates the mark an  *)
(* account without any walk was given.  What it skips no delta ever lists.  *)
MarkIsHonest ==
    incr # Nowhere => \A m \in (exempt + 1)..incr : m \in Dealt

(* An interrupted full walk loses nothing: whatever the parked mark covers  *)
(* is dealt with, or ahead of the page the walk resumes at.                 *)
ResumeIsHonest ==
    full # Nowhere /\ pending # Nowhere =>
        \A m \in 1..pending : m \in Dealt \cup Ahead("full", full)

(* A message the ledger filters out of every later walk is in the graph.    *)
GraphBeforeLedger == ledger \subseteq graph

(* Once an account is armed, mail newer than its first mark is dealt with,  *)
(* whatever is cancelled, cut short or expired on the way.                  *)
ArmedMailIsDealtWith ==
    \A m \in Msg :
        incr # Nowhere /\ m \in (exempt + 1)..arrived ~> m \in Dealt
=============================================================================
