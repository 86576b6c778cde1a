----------------------------- MODULE PageStage ------------------------------
(***************************************************************************)
(* One page of an import (_import_page, mailarc_sync, engine/engine.py):   *)
(* several slices fetch and parse side by side, a bounded queue hands what *)
(* they produce to one consumer, and two nested task groups decide who is  *)
(* cancelled when something fails.                                         *)
(*                                                                         *)
(* A task that is cancelled makes no further progress at the await it      *)
(* stands at: whoever cancels it decides its state in the same step.  What *)
(* it had handed to a thread may still happen.                             *)
(***************************************************************************)
EXTENDS Integers, Sequences, FiniteSets, SequencesExt

CONSTANTS
    MaxPage,      \* bound: references on a page that the ledger does not know
    Concurrency,  \* SyncConfig.fetch_concurrency: slices, and room in the queue
    BatchSize,    \* SyncConfig.batch_size
    MaxAttempts,  \* MAX_FETCH_ATTEMPTS
    Broken,       \* messages parse_message refuses
    Gone          \* messages the provider no longer has when they are fetched

Ref   == 1..MaxPage
Slice == 1..Concurrency
End   == 0              \* the sentinel

ASSUME PageAssumption ==
    /\ MaxPage \in Nat
    /\ Concurrency \in Nat \ {0}
    /\ BatchSize \in Nat \ {0}
    /\ MaxAttempts \in Nat \ {0}
    /\ Broken \subseteq Ref /\ Gone \subseteq Ref

VARIABLES
    fresh,      \* how many references the page has to fetch: 1..fresh
    slice,      \* each slice's task: where it stands, what it owes, its attempt
    queue,      \* prepared messages and failures on their way to the consumer
    stage,      \* the fetch stage: where it stands, and what it will end as
    consumer,   \* the archive stage: where it stands, its buffer, its error
    graph, ledger, failed,   \* what the page left in the stores
    blame,      \* what went wrong first: "none" while nothing has
    cancelled   \* the run's task was cancelled from outside

vars == <<fresh, slice, queue, stage, consumer, graph, ledger, failed, blame, cancelled>>

Over == {"ok", "raised", "cancelled"}

(* _slices: contiguous parts of near-equal size, at most Concurrency. *)
Width(n) == (n + Concurrency - 1) \div Concurrency

Part(n, s) == {r \in 1..n : (s - 1) * Width(n) < r /\ r <= s * Width(n)}

Init ==
    /\ fresh \in 1..MaxPage
    /\ slice = [s \in Slice |->
                  [at |-> IF Part(fresh, s) = {} THEN "ok" ELSE "fetch",
                   todo |-> Part(fresh, s), item |-> End, attempt |-> 1]]
    /\ queue = <<>>
    /\ stage = [at |-> "slices", outcome |-> "ok"]
    /\ consumer = [at |-> "get", buffer |-> {}, error |-> FALSE, closed |-> FALSE]
    /\ graph = {} /\ ledger = {} /\ failed = {}
    /\ blame = "none"
    /\ cancelled = FALSE

Blame(what) == blame' = IF blame = "none" THEN what ELSE blame

HasRoomForOneMore == Len(queue) <= Concurrency    \* mutant of HasRoom

HasRoom == Len(queue) < Concurrency

-----------------------------------------------------------------------------
(* A slice: stream its references, parse each, put it in the queue.        *)

(* A source streams in the order it was asked. *)
IsNext(s, r) == r \in slice[s].todo /\ \A q \in slice[s].todo : r <= q

Deliver(s) ==
    /\ slice[s].at = "fetch"
    /\ \E r \in slice[s].todo \ Gone :
         /\ IsNext(s, r)
         /\ slice' = [slice EXCEPT ![s].at = "prepare", ![s].item = r,
                                   ![s].todo = @ \ {r}]
    /\ UNCHANGED <<fresh, queue, stage, consumer, graph, ledger, failed, blame, cancelled>>

(* _prepare, in a thread: an unreadable message becomes a value as well. *)
Prepare(s) ==
    /\ slice[s].at = "prepare"
    /\ slice' = [slice EXCEPT ![s].at = "put"]
    /\ UNCHANGED <<fresh, queue, stage, consumer, graph, ledger, failed, blame, cancelled>>

Put(s) ==
    /\ slice[s].at = "put" /\ HasRoom
    /\ queue' = Append(queue, slice[s].item)
    /\ slice' = [slice EXCEPT ![s].at = "fetch", ![s].item = End]
    /\ UNCHANGED <<fresh, stage, consumer, graph, ledger, failed, blame, cancelled>>

SliceEnds(s) ==
    /\ slice[s].at = "fetch" /\ slice[s].todo = {}
    /\ slice' = [slice EXCEPT ![s].at = "ok"]
    /\ UNCHANGED <<fresh, queue, stage, consumer, graph, ledger, failed, blame, cancelled>>

RetryWhole(s) ==    \* mutant: the slice starts over
    /\ slice[s].at = "fetch" /\ slice[s].todo # {}
    /\ slice[s].attempt < MaxAttempts
    /\ slice' = [slice EXCEPT ![s].attempt = @ + 1, ![s].todo = Part(fresh, s)]
    /\ UNCHANGED <<fresh, queue, stage, consumer, graph, ledger, failed, blame, cancelled>>

(* A transient failure asks again for what has not arrived yet. *)
Retry(s) ==
    /\ slice[s].at = "fetch" /\ slice[s].todo # {}
    /\ slice[s].attempt < MaxAttempts
    /\ slice' = [slice EXCEPT ![s].attempt = @ + 1]
    /\ UNCHANGED <<fresh, queue, stage, consumer, graph, ledger, failed, blame, cancelled>>

(* One slice raising cancels the others; the fetch stage then closes the queue. *)
Raises(s) ==
    /\ stage' = [at |-> "sentinel", outcome |-> "raised"]
    /\ slice' = [t \in Slice |->
                   IF t = s THEN [slice[t] EXCEPT !.at = "raised"]
                   ELSE IF slice[t].at \in Over THEN slice[t]
                   ELSE [slice[t] EXCEPT !.at = "cancelled"]]
    /\ UNCHANGED <<fresh, queue, consumer, graph, ledger, failed, cancelled>>

(* The last transient failure, an auth error, a blob that cannot be written. *)
FetchFails(s) ==
    /\ \/ slice[s].at = "fetch" /\ slice[s].todo # {}
       \/ slice[s].at = "prepare"
    /\ Blame("source")
    /\ Raises(s)

(* A message that is gone: MailPermanentError out of the stream. *)
FetchRefused(s) ==
    /\ slice[s].at = "fetch"
    /\ \E r \in Gone : IsNext(s, r)
    /\ Blame("message")
    /\ Raises(s)

-----------------------------------------------------------------------------
(* The fetch stage: its finally puts the sentinel, whatever ended it.      *)

AllFetched ==
    /\ stage.at = "slices"
    /\ \A s \in Slice : slice[s].at = "ok"
    /\ stage' = [stage EXCEPT !.at = "sentinel"]
    /\ UNCHANGED <<fresh, slice, queue, consumer, graph, ledger, failed, blame, cancelled>>

PutSentinel ==
    /\ stage.at = "sentinel" /\ HasRoom
    /\ queue' = Append(queue, End)
    /\ stage' = [stage EXCEPT !.at = stage.outcome]
    /\ UNCHANGED <<fresh, slice, consumer, graph, ledger, failed, blame, cancelled>>

-----------------------------------------------------------------------------
(* The consumer: it collects, flushes by the batch, and drains after an    *)
(* error until the sentinel comes.                                         *)

Full(c) == Cardinality(c.buffer) >= BatchSize

LedgerOnly(c) == [c EXCEPT !.at = "ledger"]    \* mutant of Flushing

(* _flush writes the graph only if there is a message for it. *)
Flushing(c) ==
    [c EXCEPT !.at = IF c.buffer \subseteq Broken THEN "ledger" ELSE "graph"]

Collected(item) == [consumer EXCEPT !.buffer = @ \cup {item}]

Get ==
    /\ consumer.at = "get" /\ queue # <<>>
    /\ queue' = Tail(queue)
    /\ LET item == Head(queue)
       IN  consumer' =
             IF item = End
             THEN IF consumer.error THEN [consumer EXCEPT !.at = "raised"]
                  ELSE IF consumer.buffer = {} THEN [consumer EXCEPT !.at = "ok"]
                  ELSE Flushing([consumer EXCEPT !.closed = TRUE])
             ELSE IF consumer.error THEN consumer
             ELSE IF Full(Collected(item)) THEN Flushing(Collected(item))
             ELSE Collected(item)
    /\ UNCHANGED <<fresh, slice, stage, graph, ledger, failed, blame, cancelled>>

WriteGraph ==
    /\ consumer.at = "graph"
    /\ graph' = graph \cup (consumer.buffer \ Broken)
    /\ consumer' = [consumer EXCEPT !.at = "ledger"]
    /\ UNCHANGED <<fresh, slice, queue, stage, ledger, failed, blame, cancelled>>

WriteArchivedOnly ==    \* mutant: the failures of the batch are dropped
    /\ consumer.at = "ledger"
    /\ ledger' = ledger \cup (consumer.buffer \ Broken)
    /\ consumer' = [consumer EXCEPT !.buffer = {},
                                    !.at = IF consumer.closed THEN "ok" ELSE "get"]
    /\ UNCHANGED <<fresh, slice, queue, stage, graph, failed, blame, cancelled>>

WriteLedger ==
    /\ consumer.at = "ledger"
    /\ ledger' = ledger \cup (consumer.buffer \ Broken)
    /\ failed' = failed \cup (consumer.buffer \cap Broken)
    /\ consumer' = [consumer EXCEPT !.buffer = {},
                                    !.at = IF consumer.closed THEN "ok" ELSE "get"]
    /\ UNCHANGED <<fresh, slice, queue, stage, graph, blame, cancelled>>

FlushRaises ==    \* mutant: the consumer does not drain
    /\ consumer.at \in {"graph", "ledger"}
    /\ Blame("store")
    /\ consumer' = [consumer EXCEPT !.at = "raised"]
    /\ UNCHANGED <<fresh, slice, queue, stage, graph, ledger, failed, cancelled>>

(* _try_flush: the error is kept and raised once the queue is closed. *)
FlushFails ==
    /\ consumer.at \in {"graph", "ledger"}
    /\ graph' \in IF consumer.at = "graph"
                  THEN {graph \cup s : s \in SUBSET (consumer.buffer \ Broken)} ELSE {graph}
    /\ Blame("store")
    /\ consumer' = [consumer EXCEPT !.error = TRUE,
                                    !.at = IF consumer.closed THEN "raised" ELSE "get"]
    /\ UNCHANGED <<fresh, slice, queue, stage, ledger, failed, cancelled>>

-----------------------------------------------------------------------------
(* The outer group.  A flush the consumer is cancelled in keeps its thread: *)
(* the graph may get the batch; a ledger transaction not yet committed goes. *)

ConsumerLeft ==
    /\ consumer' = [consumer EXCEPT !.at = "cancelled"]
    /\ graph' \in IF consumer.at = "graph"
                  THEN {graph, graph \cup (consumer.buffer \ Broken)} ELSE {graph}

(* The fetch stage raised: the group cancels the consumer. *)
CallOff ==
    /\ stage.at = "raised" /\ consumer.at \notin Over
    /\ ConsumerLeft
    /\ UNCHANGED <<fresh, slice, queue, stage, ledger, failed, blame, cancelled>>

(* The worker lets go of the job: both tasks are cancelled.  A fetch stage  *)
(* that waits for its slices still has to put the sentinel; one that waits  *)
(* to put it gives up.                                                      *)
Cancel ==
    /\ ~cancelled
    /\ ~(stage.at \in Over /\ consumer.at \in Over)
    /\ cancelled' = TRUE
    /\ Blame("worker")
    /\ IF consumer.at \in Over THEN UNCHANGED <<consumer, graph>> ELSE ConsumerLeft
    /\ stage' = IF stage.at = "slices" THEN [at |-> "sentinel", outcome |-> "cancelled"]
                ELSE IF stage.at = "sentinel" THEN [stage EXCEPT !.at = "cancelled"]
                ELSE stage
    /\ slice' = [s \in Slice |-> IF slice[s].at \in Over THEN slice[s]
                                 ELSE [slice[s] EXCEPT !.at = "cancelled"]]
    /\ UNCHANGED <<fresh, queue, ledger, failed>>

PageOver == stage.at \in Over /\ consumer.at \in Over

(* The page has ended, and the run goes on or ends with it. *)
Done == PageOver /\ UNCHANGED vars

SliceStep(s) ==
    Deliver(s) \/ Prepare(s) \/ Put(s) \/ SliceEnds(s) \/ Retry(s) \/ FetchFails(s) \/ FetchRefused(s)

StageStep    == AllFetched \/ PutSentinel
ConsumerStep == Get \/ WriteGraph \/ WriteLedger \/ FlushFails

Next ==
    \/ \E s \in Slice : SliceStep(s)
    \/ StageStep \/ ConsumerStep \/ CallOff \/ Cancel \/ Done

Fairness ==
    /\ \A s \in Slice : WF_vars(SliceStep(s))
    /\ WF_vars(StageStep) /\ WF_vars(ConsumerStep) /\ WF_vars(CallOff)

Spec == Init /\ [][Next]_vars /\ Fairness

-----------------------------------------------------------------------------
PageTypeOK ==
    /\ fresh \in 1..MaxPage
    /\ slice \in [Slice -> [at : {"fetch", "prepare", "put"} \cup Over, todo : SUBSET Ref,
                            item : Ref \cup {End}, attempt : 1..MaxAttempts]]
    /\ queue \in BoundedSeq(Ref \cup {End}, Concurrency)
    /\ stage \in [at : {"slices", "sentinel"} \cup Over, outcome : Over]
    /\ consumer \in [at : {"get", "graph", "ledger"} \cup Over, buffer : SUBSET Ref,
                     error : BOOLEAN, closed : BOOLEAN]
    /\ graph \subseteq Ref /\ ledger \subseteq Ref /\ failed \subseteq Ref
    /\ blame \in {"none", "source", "message", "store", "worker"}
    /\ cancelled \in BOOLEAN

(* Every message of a page that ended well is in the ledger or has a failure *)
(* row: only then may the run count the page and move its checkpoint.        *)
GoodPageIsAccounted ==
    PageOver /\ stage.at = "ok" /\ consumer.at = "ok" => ledger \cup failed = 1..fresh

(* A message reaches the consumer once: a retry never fetches again what is *)
(* already on its way, which the ledger's unique key would refuse.          *)
InFlight == {slice[s].item : s \in Slice} \ {End}

DeliveredOnce ==
    /\ IsInjective(queue)
    /\ ToSet(queue) \cap (consumer.buffer \cup ledger \cup failed) = {}
    /\ InFlight \cap (ToSet(queue) \cup consumer.buffer \cup ledger \cup failed) = {}

(* What the ledger knows is in the graph, wherever the page was cut off. *)
LedgerAfterGraph == ledger \subseteq graph

(* A page always ends, whoever fails first and however small the queue is:   *)
(* no stage waits for one that is gone.  The one exception is a run that is  *)
(* cancelled while the queue is full, see SentinelHasSomewhereToGo.          *)
PageEnds == <>(PageOver \/ (cancelled /\ ~HasRoom))

(* ------- What the documentation says beyond that ---------------------- *)

(* _archive_stage: the consumer never leaves the fetch stage blocked on a   *)
(* full queue, so its sentinel always has somewhere to go.                  *)
SentinelHasSomewhereToGo ==
    ~(stage.at = "sentinel" /\ ~HasRoom /\ consumer.at \in Over)
=============================================================================
