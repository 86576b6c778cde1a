-------------------------- MODULE PageStageProofs ---------------------------
(***************************************************************************)
(* Proofs about one page of an import, for pages, slices and queues of any  *)
(* size and any set of unreadable or missing messages: whatever fails or is *)
(* cancelled, and wherever, a message is in one place at a time, a page     *)
(* that ends well has lost none, and the ledger stays behind the graph.     *)
(*                                                                         *)
(* What makes this inductive is where a reference can be (OneOfEach,        *)
(* NothingLost) and what each task knows of the others by where it stands:  *)
(* SlicesInOrder, EndIsLast, ConsumerInOrder.                               *)
(***************************************************************************)
EXTENDS PageStage, TLAPS

(* What a slice still answers for: not yet asked for, or in its hands. *)
Owed(s) == slice[s].todo \cup ({slice[s].item} \ {End})

Kept == consumer.buffer \cup ledger \cup failed

SlicesInOrder ==
    /\ \A s \in Slice :
         /\ slice[s].item \notin slice[s].todo
         /\ slice[s].at \in {"prepare", "put"} => slice[s].item # End
         /\ slice[s].at \in {"fetch", "ok"} => slice[s].item = End
         /\ slice[s].at = "ok" => slice[s].todo = {}
    /\ stage.at = "slices" => stage.outcome = "ok"
    /\ stage.at = "ok" => stage.outcome = "ok"
    /\ stage.at # "slices" => \A s \in Slice : slice[s].at \in Over
    /\ stage.at # "slices" /\ stage.outcome = "ok" =>
         \A s \in Slice : slice[s].at = "ok"

(* The sentinel is the last thing the queue holds, and what the consumer   *)
(* took for the end was the end.                                           *)
EndIsLast ==
    /\ End \in ToSet(queue) => stage.at \in Over /\ queue[Len(queue)] = End
    /\ consumer.closed \/ consumer.at = "ok" => queue = <<>> /\ stage.at \in Over

ConsumerInOrder ==
    /\ consumer.error => consumer.at \in {"get", "raised", "cancelled"}
    /\ consumer.at = "ok" => consumer.buffer = {} /\ ~consumer.error
    /\ consumer.at = "ledger" => consumer.buffer \ Broken \subseteq graph

OneOfEach ==
    /\ \A s, t \in Slice : s # t => Owed(s) \cap Owed(t) = {}
    /\ \A s \in Slice : Owed(s) \cap (ToSet(queue) \cup Kept) = {}
    /\ IsInjective(queue)
    /\ ToSet(queue) \cap Kept = {}

(* The page may still end well. *)
Whole ==
    /\ stage.outcome = "ok" /\ ~consumer.error
    /\ consumer.at \notin {"raised", "cancelled"}

NothingLost ==
    /\ \A s \in Slice : Owed(s) \subseteq 1..fresh
    /\ ToSet(queue) \subseteq 1..fresh \cup {End}
    /\ Kept \subseteq 1..fresh
    /\ Whole => \A r \in 1..fresh :
                   r \in ToSet(queue) \cup Kept \/ \E s \in Slice : r \in Owed(s)

PInv ==
    /\ PageTypeOK /\ SlicesInOrder /\ EndIsLast /\ ConsumerInOrder
    /\ LedgerAfterGraph /\ OneOfEach /\ NothingLost

USE PageAssumption DEF Ref, Slice, End, Over
-----------------------------------------------------------------------------
(* The slices of a page.                                                   *)

LEMMA TimesIsMonotone ==    \* multiplying keeps the order
    ASSUME NEW a \in Nat, NEW b \in Nat, NEW w \in Nat, a <= b
    PROVE  a * w <= b * w
<1>1. b * w = a * w + (b - a) * w
  BY SMT
<1>2. (b - a) * w \in Nat
  BY SMT
<1>. QED  BY <1>1, <1>2, SMT

LEMMA WidthCovers ==
    ASSUME NEW n \in Nat \ {0}
    PROVE  Width(n) \in Nat \ {0} /\ n <= Concurrency * Width(n)
<1>. DEFINE w == Width(n)
<1>1. w \in Int /\ n + Concurrency - 1 < Concurrency * w + Concurrency
  BY SMT DEF Width
<1>2. w # 0 /\ w >= 0
  BY SMT DEF Width
<1>. QED  BY <1>1, <1>2, SMT

(* Every reference falls into one slice. *)
LEMMA PartsCover ==
    ASSUME NEW n \in Nat \ {0}, NEW r \in 1..n
    PROVE  \E s \in Slice : r \in Part(n, s)
<1>. DEFINE w == Width(n)
            q == (r - 1) \div w
<1>1. w \in Nat \ {0} /\ n <= Concurrency * w
  BY WidthCovers
<1>. HIDE DEF w
<1>2. q \in Nat /\ q * w <= r - 1 /\ r - 1 < q * w + w
  BY <1>1, SMT
<1>. HIDE DEF q
<1>3. q < Concurrency
  <2>. SUFFICES ASSUME Concurrency <= q  PROVE FALSE
    BY <1>2, SMT
  <2>1. Concurrency * w <= q * w
    BY <1>1, <1>2, TimesIsMonotone
  <2>. QED  BY <2>1, <1>1, <1>2, SMT
<1>4. (q + 1) * w = q * w + w
  BY <1>1, <1>2, SMT
<1>5. (q + 1 - 1) * w < r /\ r <= (q + 1) * w
  BY <1>1, <1>2, <1>4, SMT
<1>. QED  BY <1>2, <1>3, <1>5 DEF Part, w

LEMMA PartsApart ==
    ASSUME NEW n \in Nat \ {0}, NEW s \in Slice, NEW t \in Slice, s # t
    PROVE  Part(n, s) \cap Part(n, t) = {}
<1>. DEFINE w == Width(n)
<1>1. w \in Nat \ {0}
  BY WidthCovers
<1>. HIDE DEF w
<1>2. ASSUME NEW a \in Slice, NEW b \in Slice, a < b  PROVE a * w <= (b - 1) * w
  BY <1>1, <1>2, TimesIsMonotone
<1>3. \A a \in Slice : a * w \in Int /\ (a - 1) * w \in Int
  BY <1>1, SMT
<1>. QED  BY <1>1, <1>2, <1>3 DEF Part, w

-----------------------------------------------------------------------------
(* The queue.                                                              *)

LEMMA Bounded ==
    ASSUME NEW S, NEW q
    PROVE  q \in BoundedSeq(S, Concurrency) <=> q \in Seq(S) /\ Len(q) <= Concurrency
BY DEF BoundedSeq, SeqOf

LEMMA QueueOfAppend ==
    ASSUME NEW S, NEW q \in BoundedSeq(S, Concurrency), NEW e \in S, Len(q) < Concurrency
    PROVE  /\ Append(q, e) \in BoundedSeq(S, Concurrency)
           /\ ToSet(Append(q, e)) = ToSet(q) \cup {e}
           /\ Append(q, e)[Len(Append(q, e))] = e
           /\ IsInjective(q) /\ e \notin ToSet(q) => IsInjective(Append(q, e))
<1>1. q \in Seq(S) /\ Len(q) \in Nat
  BY Bounded
<1>2. Append(q, e) \in Seq(S) /\ Len(Append(q, e)) = Len(q) + 1
  BY <1>1
<1>3. Append(q, e) \in BoundedSeq(S, Concurrency)
  BY <1>1, <1>2, Bounded, Len(q) + 1 <= Concurrency
<1>4. /\ ToSet(Append(q, e)) = ToSet(q) \cup {e}
      /\ Append(q, e)[Len(q) + 1] = e
      /\ IsInjective(q) /\ e \notin ToSet(q) => IsInjective(Append(q, e))
  BY <1>1 DEF ToSet, IsInjective
<1>. QED  BY <1>2, <1>3, <1>4

LEMMA QueueOfTail ==
    ASSUME NEW S, NEW q \in BoundedSeq(S, Concurrency), q # <<>>
    PROVE  /\ Tail(q) \in BoundedSeq(S, Concurrency)
           /\ Head(q) \in S
           /\ ToSet(q) = ToSet(Tail(q)) \cup {Head(q)}
           /\ IsInjective(q) => IsInjective(Tail(q)) /\ Head(q) \notin ToSet(Tail(q))
           /\ Tail(q) # <<>> => Tail(q)[Len(Tail(q))] = q[Len(q)]
           /\ IsInjective(q) /\ Head(q) = q[Len(q)] => Tail(q) = <<>>
<1>. q \in Seq(S) /\ Len(q) <= Concurrency
  BY Bounded
<1>1. Len(q) \in Nat \ {0} /\ Head(q) = q[1]
  OBVIOUS
<1>2. /\ Tail(q) \in Seq(S) /\ Len(Tail(q)) = Len(q) - 1
      /\ \A i \in 1..Len(Tail(q)) : Tail(q)[i] = q[i + 1]
  OBVIOUS
<1>6. Tail(q) \in BoundedSeq(S, Concurrency)
  BY <1>2, Bounded, Len(q) - 1 <= Concurrency
<1>3. ToSet(q) = ToSet(Tail(q)) \cup {Head(q)}
  <2>1. \A x \in ToSet(q) : x = q[1] \/ x \in ToSet(Tail(q))
    <3>. SUFFICES ASSUME NEW i \in 2..Len(q)  PROVE q[i] \in ToSet(Tail(q))
      BY <1>1 DEF ToSet
    <3>1. i - 1 \in DOMAIN Tail(q) /\ Tail(q)[i - 1] = q[i]
      BY <1>1, <1>2
    <3>. QED  BY <3>1 DEF ToSet
  <2>. QED  BY <2>1, <1>1, <1>2 DEF ToSet
<1>4. ASSUME IsInjective(q)
      PROVE  IsInjective(Tail(q)) /\ Head(q) \notin ToSet(Tail(q))
  BY <1>1, <1>2, <1>4 DEF ToSet, IsInjective
<1>5. IsInjective(q) /\ Head(q) = q[Len(q)] => Tail(q) = <<>>
  BY <1>1, <1>2 DEF IsInjective
<1>. QED  BY <1>1, <1>2, <1>3, <1>4, <1>5, <1>6

-----------------------------------------------------------------------------
(* The initial states.                                                     *)

LEMMA InitInv == Init => PInv
<1>. SUFFICES ASSUME Init  PROVE PInv
  OBVIOUS
<1>1. fresh \in Nat \ {0} /\ fresh <= MaxPage
  BY DEF Init
<1>2. \A s \in Slice : /\ Part(fresh, s) \subseteq 1..fresh
                       /\ Owed(s) = Part(fresh, s)
  BY DEF Init, Owed, Part
<1>3. queue = <<>> /\ ToSet(queue) = {} /\ Kept = {}
  BY DEF Init, ToSet, Kept
<1>4. PageTypeOK
  <2>1. slice \in [Slice -> [at : {"fetch", "prepare", "put"} \cup Over,
                             todo : SUBSET Ref, item : Ref \cup {End},
                             attempt : 1..MaxAttempts]]
    BY <1>1, <1>2 DEF Init
  <2>2. queue \in BoundedSeq(Ref \cup {End}, Concurrency)
    <3>1. <<>> \in Seq(Ref \cup {End}) /\ Len(<<>>) <= Concurrency
      OBVIOUS
    <3>. QED  BY <3>1, <1>3, Bounded
  <2>. QED  BY <2>1, <2>2 DEF Init, PageTypeOK
<1>5. SlicesInOrder
  BY <1>1, <1>2 DEF Init, SlicesInOrder
<1>6. EndIsLast /\ ConsumerInOrder /\ LedgerAfterGraph
  BY <1>3 DEF Init, EndIsLast, ConsumerInOrder, LedgerAfterGraph
<1>7. OneOfEach
  BY <1>1, <1>2, <1>3, PartsApart DEF OneOfEach, IsInjective
<1>8. NothingLost
  BY <1>1, <1>2, <1>3, PartsCover DEF NothingLost
<1>. QED  BY <1>4, <1>5, <1>6, <1>7, <1>8 DEF PInv

-----------------------------------------------------------------------------
(* What is where, when a step moves nothing.                               *)

LEMMA NothingMoves ==
    ASSUME OneOfEach, NothingLost, \A s \in Slice : Owed(s)' = Owed(s),
           UNCHANGED <<fresh, queue>>, Kept' = Kept, Whole' => Whole
    PROVE  OneOfEach' /\ NothingLost'
BY DEF OneOfEach, NothingLost

(* A step of a slice touches the slices and the queue alone. *)
LEMMA SliceTypes ==
    ASSUME PageTypeOK,
           slice' \in [Slice -> [at : {"fetch", "prepare", "put"} \cup Over, todo : SUBSET Ref,
                                 item : Ref \cup {End}, attempt : 1..MaxAttempts]],
           queue' \in BoundedSeq(Ref \cup {End}, Concurrency),
           UNCHANGED <<fresh, stage, consumer, graph, ledger, failed, blame, cancelled>>
    PROVE  PageTypeOK'
<1>1. fresh' = fresh /\ blame' = blame /\ cancelled' = cancelled
  OBVIOUS
<1>2. stage' = stage /\ consumer' = consumer
  OBVIOUS
<1>3. graph' = graph /\ ledger' = ledger /\ failed' = failed
  OBVIOUS
<1>4. fresh' \in 1..MaxPage /\ blame' \in {"none", "source", "message", "store", "worker"}
        /\ cancelled' \in BOOLEAN
  BY <1>1, Zenon DEF PageTypeOK
<1>5. /\ stage' \in [at : {"slices", "sentinel"} \cup Over, outcome : Over]
      /\ consumer' \in [at : {"get", "graph", "ledger"} \cup Over, buffer : SUBSET Ref,
                        error : BOOLEAN, closed : BOOLEAN]
  BY <1>2, Zenon DEF PageTypeOK
<1>6. graph' \subseteq Ref /\ ledger' \subseteq Ref /\ failed' \subseteq Ref
  BY <1>3, Zenon DEF PageTypeOK
<1>. QED  BY <1>4, <1>5, <1>6, Zenon DEF PageTypeOK

(* The slices' own steps, up to the queue. *)
LEMMA SliceInv ==
    ASSUME PInv, NEW s \in Slice,
           Deliver(s) \/ Prepare(s) \/ SliceEnds(s) \/ Retry(s)
    PROVE  PInv'
<1>. USE DEF PInv
<1>1. /\ UNCHANGED <<fresh, queue, stage, consumer, graph, ledger, failed, blame, cancelled>>
      /\ slice[s].at \notin Over
  BY DEF Deliver, Prepare, SliceEnds, Retry
<1>2. slice \in [Slice -> [at : {"fetch", "prepare", "put"} \cup Over, todo : SUBSET Ref,
                           item : Ref \cup {End}, attempt : 1..MaxAttempts]]
  BY DEF PageTypeOK
<1>3. /\ slice' \in [Slice -> [at : {"fetch", "prepare", "put"} \cup Over, todo : SUBSET Ref,
                               item : Ref \cup {End}, attempt : 1..MaxAttempts]]
      /\ \A t \in Slice : t # s => slice'[t] = slice[t]
      /\ Owed(s)' = Owed(s)
      /\ slice'[s].item \notin slice'[s].todo
      /\ slice'[s].at \in {"prepare", "put"} => slice'[s].item # End
      /\ slice'[s].at \in {"fetch", "ok"} => slice'[s].item = End
      /\ slice'[s].at = "ok" => slice'[s].todo = {}
  <2>1. CASE Deliver(s)
    <3>1. PICK r \in slice[s].todo :
            slice' = [slice EXCEPT ![s].at = "prepare", ![s].item = r, ![s].todo = @ \ {r}]
      BY <2>1 DEF Deliver
    <3>2. /\ slice[s].item = End /\ r \in Ref
          /\ slice'[s] = [slice[s] EXCEPT !.at = "prepare", !.item = r,
                                         !.todo = slice[s].todo \ {r}]
      BY <1>2, <2>1, <3>1 DEF Deliver, SlicesInOrder
    <3>. QED  BY <1>2, <3>1, <3>2 DEF Owed
  <2>2. CASE Prepare(s)
    <3>1. slice'[s] = [slice[s] EXCEPT !.at = "put"] /\ slice[s].at = "prepare"
      BY <1>2, <2>2 DEF Prepare
    <3>. QED  BY <1>2, <2>2, <3>1, ZenonT(60) DEF Prepare, SlicesInOrder, Owed
  <2>3. CASE SliceEnds(s)
    <3>1. slice'[s] = [slice[s] EXCEPT !.at = "ok"] /\ slice[s].at = "fetch"
      BY <1>2, <2>3 DEF SliceEnds
    <3>. QED  BY <1>2, <2>3, <3>1 DEF SliceEnds, SlicesInOrder, Owed
  <2>4. CASE Retry(s)
    <3>1. /\ slice'[s] = [slice[s] EXCEPT !.attempt = slice[s].attempt + 1]
          /\ slice[s].at = "fetch" /\ slice[s].attempt + 1 \in 1..MaxAttempts
      BY <1>2, <2>4 DEF Retry
    <3>. QED  BY <1>2, <2>4, <3>1 DEF Retry, SlicesInOrder, Owed
  <2>. QED  BY <2>1, <2>2, <2>3, <2>4
<1>4. stage.at = "slices"
  BY <1>1 DEF SlicesInOrder
<1>5. \A t \in Slice : Owed(t)' = Owed(t)
  BY <1>3 DEF Owed
<1>6. PageTypeOK'
  <2>1. queue' \in BoundedSeq(Ref \cup {End}, Concurrency)
    BY <1>1 DEF PageTypeOK
  <2>. QED  BY <1>1, <1>3, <2>1, SliceTypes
<1>7. SlicesInOrder'
  BY <1>1, <1>3, <1>4 DEF SlicesInOrder
<1>8. EndIsLast' /\ ConsumerInOrder' /\ LedgerAfterGraph'
  BY <1>1 DEF EndIsLast, ConsumerInOrder, LedgerAfterGraph
<1>9. OneOfEach' /\ NothingLost'
  BY <1>1, <1>5, NothingMoves DEF Kept, Whole
<1>. QED  BY <1>6, <1>7, <1>8, <1>9

LEMMA PutInv ==
    ASSUME PInv, NEW s \in Slice, Put(s)
    PROVE  PInv'
<1>. USE DEF PInv
<1>. DEFINE item == slice[s].item
<1>1. /\ UNCHANGED <<fresh, stage, consumer, graph, ledger, failed, blame, cancelled>>
      /\ slice[s].at = "put" /\ Len(queue) < Concurrency
      /\ queue' = Append(queue, item)
  BY DEF Put, HasRoom
<1>2. slice \in [Slice -> [at : {"fetch", "prepare", "put"} \cup Over, todo : SUBSET Ref,
                           item : Ref \cup {End}, attempt : 1..MaxAttempts]]
  BY DEF PageTypeOK
<1>3. /\ slice' \in [Slice -> [at : {"fetch", "prepare", "put"} \cup Over, todo : SUBSET Ref,
                               item : Ref \cup {End}, attempt : 1..MaxAttempts]]
      /\ \A t \in Slice : t # s => slice'[t] = slice[t]
      /\ slice'[s].at = "fetch" /\ slice'[s].item = End
      /\ slice'[s].todo = slice[s].todo
  BY <1>2 DEF Put
<1>4. item # End /\ item \in Ref /\ item \notin slice[s].todo /\ stage.at = "slices"
  BY <1>1, <1>2 DEF SlicesInOrder
<1>5. /\ Owed(s)' = Owed(s) \ {item} /\ item \in Owed(s)
      /\ \A t \in Slice : t # s => Owed(t)' = Owed(t)
  BY <1>3, <1>4 DEF Owed
<1>6. /\ queue' \in BoundedSeq(Ref \cup {End}, Concurrency)
      /\ ToSet(queue') = ToSet(queue) \cup {item}
      /\ IsInjective(queue) /\ item \notin ToSet(queue) => IsInjective(queue')
  <2>1. queue \in BoundedSeq(Ref \cup {End}, Concurrency) /\ item \in Ref \cup {End}
    BY <1>4 DEF PageTypeOK
  <2>. QED  BY <2>1, <1>1, QueueOfAppend
<1>. HIDE DEF item
<1>7. PageTypeOK'
  BY <1>1, <1>3, <1>6, SliceTypes
<1>8. SlicesInOrder'
  <2>1. ASSUME NEW t \in Slice
        PROVE  /\ slice'[t].item \notin slice'[t].todo
               /\ slice'[t].at \in {"prepare", "put"} => slice'[t].item # End
               /\ slice'[t].at \in {"fetch", "ok"} => slice'[t].item = End
               /\ slice'[t].at = "ok" => slice'[t].todo = {}
    <3>1. CASE t = s
      <4>1. slice'[t].at = "fetch" /\ slice'[t].item = End
        BY <1>3, <3>1
      <4>2. End \notin slice'[t].todo
        BY <1>2, <1>3, <3>1 DEF End, Ref
      <4>. QED  BY <4>1, <4>2
    <3>2. CASE t # s
      BY <1>3, <3>2 DEF SlicesInOrder
    <3>. QED  BY <3>1, <3>2
  <2>2. stage' = stage
    BY <1>1
  <2>. QED  BY <1>4, <2>1, <2>2, Zenon DEF SlicesInOrder
<1>9. EndIsLast' /\ ConsumerInOrder' /\ LedgerAfterGraph'
  BY <1>1, <1>4, <1>6 DEF EndIsLast, ConsumerInOrder, LedgerAfterGraph
<1>10. OneOfEach'
  <2>1. Kept' = Kept /\ item \notin ToSet(queue) \cup Kept /\ IsInjective(queue')
    BY <1>1, <1>5, <1>6 DEF Kept, OneOfEach
  <2>2. \A t \in Slice : t # s => item \notin Owed(t)
    BY <1>5 DEF OneOfEach
  <2>3. \A t \in Slice : Owed(t)' \subseteq Owed(t) /\ item \notin Owed(t)'
    BY <1>5, <2>2
  <2>. QED  BY <1>6, <2>1, <2>3 DEF OneOfEach
<1>11. NothingLost'
  BY <1>1, <1>4, <1>5, <1>6 DEF NothingLost, Kept, Whole
<1>. QED  BY <1>7, <1>8, <1>9, <1>10, <1>11

(* A slice raises, or the run is cancelled: slices stop where they stand. *)
LEMMA StopInv ==
    ASSUME PInv, NEW s \in Slice, FetchFails(s) \/ FetchRefused(s)
    PROVE  PInv'
<1>. USE DEF PInv
<1>1. /\ UNCHANGED <<fresh, queue, consumer, graph, ledger, failed, cancelled>>
      /\ blame' \in {"none", "source", "message", "store", "worker"}
      /\ slice[s].at \notin Over
      /\ stage' = [at |-> "sentinel", outcome |-> "raised"]
      /\ Raises(s)
  BY DEF FetchFails, FetchRefused, Raises, Blame, PageTypeOK
<1>2. slice \in [Slice -> [at : {"fetch", "prepare", "put"} \cup Over, todo : SUBSET Ref,
                           item : Ref \cup {End}, attempt : 1..MaxAttempts]]
  BY DEF PageTypeOK
<1>3. /\ slice' \in [Slice -> [at : {"fetch", "prepare", "put"} \cup Over, todo : SUBSET Ref,
                               item : Ref \cup {End}, attempt : 1..MaxAttempts]]
      /\ \A t \in Slice : /\ slice'[t].todo = slice[t].todo /\ slice'[t].item = slice[t].item
                          /\ slice'[t].at \in Over
                          /\ slice'[t].at = "ok" => slice[t].at = "ok"
  BY <1>1, <1>2 DEF Raises
<1>4. stage.at = "slices"
  BY <1>1 DEF SlicesInOrder
<1>5. \A t \in Slice : Owed(t)' = Owed(t)
  BY <1>3 DEF Owed
<1>6. PageTypeOK'
  BY <1>1, <1>3 DEF PageTypeOK
<1>7. SlicesInOrder'
  BY <1>1, <1>3, <1>4 DEF SlicesInOrder
<1>8. EndIsLast' /\ ConsumerInOrder' /\ LedgerAfterGraph'
  BY <1>1, <1>4 DEF EndIsLast, ConsumerInOrder, LedgerAfterGraph
<1>9. OneOfEach' /\ NothingLost'
  BY <1>1, <1>5, NothingMoves DEF Kept, Whole
<1>. QED  BY <1>6, <1>7, <1>8, <1>9

-----------------------------------------------------------------------------
(* The fetch stage.                                                        *)

LEMMA AllFetchedInv ==
    ASSUME PInv, AllFetched
    PROVE  PInv'
<1>. USE DEF PInv
<1>1. /\ UNCHANGED <<fresh, slice, queue, consumer, graph, ledger, failed, blame, cancelled>>
      /\ stage' = [stage EXCEPT !.at = "sentinel"] /\ stage.at = "slices"
      /\ \A s \in Slice : slice[s].at = "ok"
  BY DEF AllFetched
<1>2. stage'.at = "sentinel" /\ stage'.outcome = stage.outcome /\ PageTypeOK'
  BY <1>1 DEF PageTypeOK
<1>3. SlicesInOrder'
  BY <1>1, <1>2 DEF SlicesInOrder
<1>4. EndIsLast' /\ ConsumerInOrder' /\ LedgerAfterGraph'
  BY <1>1 DEF EndIsLast, ConsumerInOrder, LedgerAfterGraph
<1>5. OneOfEach' /\ NothingLost'
  BY <1>1, <1>2, NothingMoves DEF Kept, Whole, Owed
<1>. QED  BY <1>2, <1>3, <1>4, <1>5

LEMMA PutSentinelInv ==
    ASSUME PInv, PutSentinel
    PROVE  PInv'
<1>. USE DEF PInv
<1>1. /\ UNCHANGED <<fresh, slice, consumer, graph, ledger, failed, blame, cancelled>>
      /\ stage.at = "sentinel" /\ Len(queue) < Concurrency
      /\ queue' = Append(queue, End) /\ stage' = [stage EXCEPT !.at = stage.outcome]
  BY DEF PutSentinel, HasRoom
<1>2. /\ stage'.at = stage.outcome /\ stage'.outcome = stage.outcome
      /\ stage' \in [at : {"slices", "sentinel"} \cup Over, outcome : Over]
  BY <1>1 DEF PageTypeOK
<1>3. End \notin ToSet(queue) /\ ~consumer.closed /\ consumer.at # "ok"
  BY <1>1 DEF EndIsLast
<1>4. /\ queue' \in BoundedSeq(Ref \cup {End}, Concurrency)
      /\ ToSet(queue') = ToSet(queue) \cup {End}
      /\ queue'[Len(queue')] = End
      /\ IsInjective(queue')
  <2>1. queue \in BoundedSeq(Ref \cup {End}, Concurrency) /\ End \in Ref \cup {End}
    BY DEF PageTypeOK
  <2>2. IsInjective(queue)
    BY DEF OneOfEach
  <2>. QED  BY <2>1, <2>2, <1>1, <1>3, QueueOfAppend
<1>5. PageTypeOK'
  BY <1>1, <1>2, <1>4 DEF PageTypeOK
<1>6. SlicesInOrder'
  BY <1>1, <1>2 DEF SlicesInOrder, PageTypeOK
<1>7. EndIsLast' /\ ConsumerInOrder' /\ LedgerAfterGraph'
  BY <1>1, <1>2, <1>3, <1>4 DEF EndIsLast, ConsumerInOrder, LedgerAfterGraph, PageTypeOK
<1>8. /\ \A s \in Slice : Owed(s)' = Owed(s) /\ End \notin Owed(s)
      /\ Kept' = Kept /\ End \notin Kept
  BY <1>1 DEF Owed, Kept, PageTypeOK
<1>9. OneOfEach'
  BY <1>4, <1>8 DEF OneOfEach
<1>10. NothingLost'
  BY <1>1, <1>2, <1>4, <1>8 DEF NothingLost, Whole
<1>. QED  BY <1>5, <1>6, <1>7, <1>9, <1>10

-----------------------------------------------------------------------------
(* The consumer.                                                           *)

LEMMA GetInv ==
    ASSUME PInv, Get
    PROVE  PInv'
<1>. USE DEF PInv
<1>. DEFINE item == Head(queue)
<1>1. /\ UNCHANGED <<fresh, slice, stage, graph, ledger, failed, blame, cancelled>>
      /\ consumer.at = "get" /\ queue # <<>> /\ queue' = Tail(queue)
  BY DEF Get
<1>2. /\ queue' \in BoundedSeq(Ref \cup {End}, Concurrency)
      /\ item \in Ref \cup {End}
      /\ ToSet(queue) = ToSet(queue') \cup {item}
      /\ IsInjective(queue') /\ item \notin ToSet(queue')
      /\ queue' # <<>> => queue'[Len(queue')] = queue[Len(queue)]
      /\ item = queue[Len(queue)] => queue' = <<>>
  <2>. DEFINE S == Ref \cup {End}
  <2>1. queue \in BoundedSeq(S, Concurrency) /\ IsInjective(queue)
    BY DEF PageTypeOK, OneOfEach
  <2>. HIDE DEF S
  <2>2. /\ Tail(queue) \in BoundedSeq(S, Concurrency)
        /\ Head(queue) \in S
        /\ ToSet(queue) = ToSet(Tail(queue)) \cup {Head(queue)}
        /\ IsInjective(Tail(queue)) /\ Head(queue) \notin ToSet(Tail(queue))
        /\ Tail(queue) # <<>> => Tail(queue)[Len(Tail(queue))] = queue[Len(queue)]
        /\ Head(queue) = queue[Len(queue)] => Tail(queue) = <<>>
    BY <2>1, <1>1, QueueOfTail
  <2>. QED  BY <2>2, <1>1 DEF S
<1>3. item = End => queue' = <<>> /\ stage.at \in Over
  BY <1>2 DEF EndIsLast
<1>4. ~consumer.closed
  BY <1>1 DEF EndIsLast
<1>5. consumer \in [at : {"get", "graph", "ledger"} \cup Over, buffer : SUBSET Ref,
                   error : BOOLEAN, closed : BOOLEAN]
  BY DEF PageTypeOK
<1>6. consumer' = IF item = End
                  THEN IF consumer.error THEN [consumer EXCEPT !.at = "raised"]
                       ELSE IF consumer.buffer = {} THEN [consumer EXCEPT !.at = "ok"]
                       ELSE Flushing([consumer EXCEPT !.closed = TRUE])
                  ELSE IF consumer.error THEN consumer
                  ELSE IF Full(Collected(item)) THEN Flushing(Collected(item))
                  ELSE Collected(item)
  BY DEF Get
<1>. HIDE DEF item
(* What the five cases have in common. *)
<1>7. /\ consumer' \in [at : {"get", "graph", "ledger"} \cup Over, buffer : SUBSET Ref,
                        error : BOOLEAN, closed : BOOLEAN]
      /\ consumer'.error = consumer.error
      /\ consumer'.closed => item = End
      /\ consumer'.at = "ok" => item = End /\ consumer'.buffer = {} /\ ~consumer'.error
      /\ consumer'.error => consumer'.at \in {"get", "raised"}
      /\ consumer'.at = "ledger" => consumer'.buffer \subseteq Broken
      /\ consumer.buffer \subseteq consumer'.buffer
      /\ consumer'.buffer \subseteq consumer.buffer \cup ({item} \ {End})
      /\ item # End /\ ~consumer.error => item \in consumer'.buffer
  <2>1. CASE item = End
    BY <1>1, <1>4, <1>5, <1>6, <2>1 DEF Flushing
  <2>2. CASE item # End /\ consumer.error
    BY <1>1, <1>4, <1>5, <1>6, <2>2
  <2>3. CASE item # End /\ ~consumer.error
    <3>1. Collected(item) = [consumer EXCEPT !.buffer = consumer.buffer \cup {item}]
      BY DEF Collected
    <3>2. consumer' = Collected(item) \/ consumer' = Flushing(Collected(item))
      BY <1>6, <2>3
    <3>3. CASE consumer' = Collected(item)
      BY <1>1, <1>2, <1>4, <1>5, <2>3, <3>1, <3>3
    <3>4. CASE consumer' = Flushing(Collected(item))
      <4>1. consumer' = [Collected(item) EXCEPT !.at =
                           IF Collected(item).buffer \subseteq Broken THEN "ledger" ELSE "graph"]
        BY <3>4 DEF Flushing
      <4>2. /\ consumer'.buffer = consumer.buffer \cup {item} /\ item \in Ref
            /\ consumer'.error = consumer.error /\ consumer'.closed = consumer.closed
            /\ consumer'.at \in {"ledger", "graph"}
            /\ consumer'.at = "ledger" => consumer.buffer \cup {item} \subseteq Broken
        BY <1>2, <1>5, <2>3, <3>1, <4>1
      <4>3. consumer' \in [at : {"get", "graph", "ledger"} \cup Over, buffer : SUBSET Ref,
                           error : BOOLEAN, closed : BOOLEAN]
        BY <1>5, <3>1, <4>1, <4>2
      <4>. QED  BY <1>4, <2>3, <4>2, <4>3
    <3>. QED  BY <3>2, <3>3, <3>4
  <2>. QED  BY <2>1, <2>2, <2>3
<1>8. PageTypeOK'
  BY <1>1, <1>2, <1>7 DEF PageTypeOK
<1>9. SlicesInOrder' /\ LedgerAfterGraph'
  BY <1>1 DEF SlicesInOrder, LedgerAfterGraph
<1>10. EndIsLast'
  <2>1. End \in ToSet(queue') => stage.at \in Over /\ queue[Len(queue)] = End /\ queue' # <<>>
    <3>1. queue' = <<>> => ToSet(queue') = {}
      BY DEF ToSet
    <3>. QED  BY <3>1, <1>2 DEF EndIsLast
  <2>. QED  BY <2>1, <1>1, <1>2, <1>3, <1>7 DEF EndIsLast
<1>11. ConsumerInOrder'
  BY <1>7 DEF ConsumerInOrder
<1>12. /\ \A s \in Slice : Owed(s)' = Owed(s)
       /\ Kept \subseteq Kept' /\ Kept' \subseteq Kept \cup ({item} \ {End})
       /\ item # End /\ ~consumer.error => item \in Kept'
  BY <1>1, <1>7 DEF Owed, Kept
<1>13. OneOfEach'
  BY <1>2, <1>12 DEF OneOfEach
<1>14. NothingLost'
  <2>1. Whole' => Whole
    BY <1>1, <1>7 DEF Whole
  <2>2. Whole' => ~consumer.error
    BY <2>1 DEF Whole
  <2>3. /\ ToSet(queue') \subseteq 1..fresh \cup {End} /\ Kept' \subseteq 1..fresh
        /\ fresh' = fresh
    BY <1>1, <1>2, <1>12 DEF NothingLost
  <2>4. ASSUME Whole', NEW r \in 1..fresh
        PROVE  r \in ToSet(queue') \cup Kept' \/ \E s \in Slice : r \in Owed(s)'
    <3>1. r \in ToSet(queue) \cup Kept \/ \E s \in Slice : r \in Owed(s)
      BY <2>1, <2>4 DEF NothingLost
    <3>2. r # End
      BY DEF PageTypeOK
    <3>. QED  BY <2>2, <2>4, <3>1, <3>2, <1>2, <1>12
  <2>. QED  BY <2>3, <2>4, <1>12 DEF NothingLost
<1>. QED  BY <1>8, <1>9, <1>10, <1>11, <1>13, <1>14

LEMMA WriteInv ==
    ASSUME PInv, WriteGraph \/ WriteLedger \/ FlushFails
    PROVE  PInv'
<1>. USE DEF PInv
<1>1. /\ UNCHANGED <<fresh, slice, queue, stage, cancelled>>
      /\ consumer.at \in {"graph", "ledger"} /\ ~consumer.error
  BY DEF WriteGraph, WriteLedger, FlushFails, ConsumerInOrder
<1>2. consumer \in [at : {"get", "graph", "ledger"} \cup Over, buffer : SUBSET Ref,
                   error : BOOLEAN, closed : BOOLEAN]
      /\ graph \subseteq Ref /\ ledger \subseteq Ref /\ failed \subseteq Ref
  BY DEF PageTypeOK
<1>3. /\ consumer' \in [at : {"get", "graph", "ledger"} \cup Over, buffer : SUBSET Ref,
                        error : BOOLEAN, closed : BOOLEAN]
      /\ graph \subseteq graph' /\ graph' \subseteq Ref
      /\ ledger' \subseteq Ref /\ failed' \subseteq Ref
      /\ blame' \in {"none", "source", "message", "store", "worker"}
      /\ consumer'.closed = consumer.closed
      /\ consumer'.error => consumer'.at \in {"get", "raised"}
      /\ consumer'.at = "ok" => consumer.closed /\ consumer'.buffer = {} /\ ~consumer'.error
      /\ consumer'.at = "ledger" => consumer'.buffer \ Broken \subseteq graph'
      /\ ledger' \subseteq graph'
      /\ Kept' = Kept
  <2>1. CASE WriteGraph
    <3>1. /\ consumer' = [consumer EXCEPT !.at = "ledger"] /\ UNCHANGED <<ledger, failed, blame>>
          /\ graph' = graph \cup (consumer.buffer \ Broken)
      BY <2>1 DEF WriteGraph
    <3>. QED  BY <1>1, <1>2, <3>1 DEF PageTypeOK, LedgerAfterGraph, Kept
  <2>2. CASE WriteLedger
    <3>1. /\ consumer' = [consumer EXCEPT !.buffer = {},
                                         !.at = IF consumer.closed THEN "ok" ELSE "get"]
          /\ ledger' = ledger \cup (consumer.buffer \ Broken) /\ UNCHANGED <<graph, blame>>
          /\ failed' = failed \cup (consumer.buffer \cap Broken)
          /\ consumer.buffer \ Broken \subseteq graph
      BY <2>2 DEF WriteLedger, ConsumerInOrder
    <3>2. consumer'.buffer = {} /\ Kept' = Kept
      <4>1. consumer'.buffer = {}
        BY <1>2, <3>1
      <4>. QED  BY <3>1, <4>1 DEF Kept
    <3>. QED  BY <1>1, <1>2, <3>1, <3>2 DEF PageTypeOK, LedgerAfterGraph
  <2>3. CASE FlushFails
    <3>1. /\ consumer' = [consumer EXCEPT !.error = TRUE,
                                         !.at = IF consumer.closed THEN "raised" ELSE "get"]
          /\ graph \subseteq graph' /\ graph' \subseteq graph \cup consumer.buffer
          /\ UNCHANGED <<ledger, failed>>
          /\ blame' \in {"none", "source", "message", "store", "worker"}
      BY <2>3 DEF FlushFails, Blame, PageTypeOK
    <3>2. /\ consumer'.buffer = consumer.buffer /\ consumer'.at \in {"get", "raised"}
          /\ consumer'.error /\ consumer'.closed = consumer.closed
          /\ consumer' \in [at : {"get", "graph", "ledger"} \cup Over, buffer : SUBSET Ref,
                            error : BOOLEAN, closed : BOOLEAN]
      BY <1>2, <3>1
    <3>3. Kept' = Kept /\ ledger' \subseteq graph'
      BY <3>1, <3>2 DEF LedgerAfterGraph, Kept
    <3>. QED  BY <1>2, <3>1, <3>2, <3>3
  <2>. QED  BY <2>1, <2>2, <2>3
<1>4. PageTypeOK'
  BY <1>1, <1>3 DEF PageTypeOK
<1>5. SlicesInOrder'
  BY <1>1 DEF SlicesInOrder
<1>6. EndIsLast' /\ ConsumerInOrder' /\ LedgerAfterGraph'
  BY <1>1, <1>3 DEF EndIsLast, ConsumerInOrder, LedgerAfterGraph
<1>7. \A s \in Slice : Owed(s)' = Owed(s)
  BY <1>1 DEF Owed
<1>8. Whole' => Whole
  BY <1>1 DEF Whole
<1>9. OneOfEach' /\ NothingLost'
  BY <1>1, <1>3, <1>7, <1>8, NothingMoves
<1>. QED  BY <1>4, <1>5, <1>6, <1>9

-----------------------------------------------------------------------------
(* The two ways out, and the theorems.                                     *)

(* A consumer that is cancelled, or was over before. *)
LEMMA LeftInv ==
    ASSUME PInv, ConsumerLeft \/ (consumer.at \in Over /\ UNCHANGED <<consumer, graph>>),
           UNCHANGED <<ledger, failed>>
    PROVE  /\ consumer' \in [at : {"get", "graph", "ledger"} \cup Over, buffer : SUBSET Ref,
                             error : BOOLEAN, closed : BOOLEAN]
           /\ graph \subseteq graph' /\ graph' \subseteq Ref
           /\ consumer'.closed = consumer.closed /\ consumer'.error = consumer.error
           /\ consumer'.at = "ok" => consumer.at = "ok"
           /\ consumer'.at \in {"raised", "cancelled"} \/ consumer'.at = consumer.at
           /\ consumer'.at # "ledger"
           /\ Kept' = Kept /\ ConsumerInOrder' /\ LedgerAfterGraph'
<1>. USE DEF PInv
<1>1. consumer \in [at : {"get", "graph", "ledger"} \cup Over, buffer : SUBSET Ref,
                   error : BOOLEAN, closed : BOOLEAN] /\ graph \subseteq Ref
  BY DEF PageTypeOK
<1>2. CASE ConsumerLeft
  <2>1. /\ consumer' = [consumer EXCEPT !.at = "cancelled"]
        /\ graph \subseteq graph' /\ graph' \subseteq graph \cup consumer.buffer
    BY <1>2 DEF ConsumerLeft
  <2>. QED  BY <1>1, <2>1 DEF Kept, ConsumerInOrder, LedgerAfterGraph
<1>3. CASE consumer.at \in Over /\ UNCHANGED <<consumer, graph>>
  BY <1>1, <1>3 DEF Kept, ConsumerInOrder, LedgerAfterGraph
<1>. QED  BY <1>2, <1>3

LEMMA CallOffInv ==
    ASSUME PInv, CallOff
    PROVE  PInv'
<1>. USE DEF PInv
<1>1. /\ UNCHANGED <<fresh, slice, queue, stage, ledger, failed, blame, cancelled>>
      /\ ConsumerLeft
  BY DEF CallOff
<1>2. /\ consumer' \in [at : {"get", "graph", "ledger"} \cup Over, buffer : SUBSET Ref,
                        error : BOOLEAN, closed : BOOLEAN]
      /\ graph' \subseteq Ref /\ consumer'.closed = consumer.closed
      /\ consumer'.at = "ok" => consumer.at = "ok"
      /\ Kept' = Kept /\ ConsumerInOrder' /\ LedgerAfterGraph'
  BY <1>1, LeftInv
<1>3. consumer'.at = "cancelled"
  BY <1>1 DEF ConsumerLeft, PageTypeOK
<1>4. PageTypeOK'
  BY <1>1, <1>2 DEF PageTypeOK
<1>5. SlicesInOrder' /\ EndIsLast'
  BY <1>1, <1>2 DEF SlicesInOrder, EndIsLast
<1>6. OneOfEach' /\ NothingLost'
  BY <1>1, <1>2, <1>3, NothingMoves DEF Owed, Whole
<1>. QED  BY <1>2, <1>4, <1>5, <1>6

LEMMA CancelInv ==
    ASSUME PInv, Cancel
    PROVE  PInv'
<1>. USE DEF PInv
<1>1. /\ UNCHANGED <<fresh, queue, ledger, failed>> /\ cancelled' = TRUE
      /\ blame' \in {"none", "source", "message", "store", "worker"}
      /\ ConsumerLeft \/ (consumer.at \in Over /\ UNCHANGED <<consumer, graph>>)
  BY DEF Cancel, Blame, PageTypeOK
<1>2. /\ consumer' \in [at : {"get", "graph", "ledger"} \cup Over, buffer : SUBSET Ref,
                        error : BOOLEAN, closed : BOOLEAN]
      /\ graph' \subseteq Ref
      /\ consumer'.closed = consumer.closed /\ consumer'.error = consumer.error
      /\ consumer'.at = "ok" => consumer.at = "ok"
      /\ consumer'.at \in {"raised", "cancelled"} \/ consumer'.at = consumer.at
      /\ Kept' = Kept /\ ConsumerInOrder' /\ LedgerAfterGraph'
  BY <1>1, LeftInv
<1>3. slice \in [Slice -> [at : {"fetch", "prepare", "put"} \cup Over, todo : SUBSET Ref,
                           item : Ref \cup {End}, attempt : 1..MaxAttempts]]
      /\ stage \in [at : {"slices", "sentinel"} \cup Over, outcome : Over]
  BY DEF PageTypeOK
<1>4. /\ slice' \in [Slice -> [at : {"fetch", "prepare", "put"} \cup Over, todo : SUBSET Ref,
                               item : Ref \cup {End}, attempt : 1..MaxAttempts]]
      /\ \A s \in Slice : /\ slice'[s].todo = slice[s].todo /\ slice'[s].item = slice[s].item
                          /\ slice'[s].at \in Over
                          /\ slice'[s].at = "ok" <=> slice[s].at = "ok"
  <2>1. slice' = [s \in Slice |-> IF slice[s].at \in Over THEN slice[s]
                                  ELSE [slice[s] EXCEPT !.at = "cancelled"]]
    BY DEF Cancel
  <2>2. ASSUME NEW s \in Slice
        PROVE  /\ slice'[s] \in [at : {"fetch", "prepare", "put"} \cup Over,
                                  todo : SUBSET Ref, item : Ref \cup {End},
                                  attempt : 1..MaxAttempts]
               /\ slice'[s].todo = slice[s].todo /\ slice'[s].item = slice[s].item
               /\ slice'[s].at \in Over
               /\ slice'[s].at = "ok" <=> slice[s].at = "ok"
    <3>1. CASE slice[s].at \in Over
      <4>1. slice'[s] = slice[s]
        BY <2>1, <3>1, Zenon
      <4>. QED  BY <1>3, <3>1, <4>1
    <3>2. CASE slice[s].at \notin Over
      <4>1. slice'[s] = [slice[s] EXCEPT !.at = "cancelled"]
        BY <2>1, <3>2, Zenon
      <4>. QED  BY <1>3, <3>2, <4>1
    <3>. QED  BY <3>1, <3>2
  <2>3. slice' \in [Slice -> [at : {"fetch", "prepare", "put"} \cup Over, todo : SUBSET Ref,
                              item : Ref \cup {End}, attempt : 1..MaxAttempts]]
    BY <2>1, <2>2, Zenon
  <2>. QED  BY <2>2, <2>3, Zenon
<1>5. /\ stage' \in [at : {"slices", "sentinel"} \cup Over, outcome : Over]
      /\ stage'.at # "slices"
      /\ stage'.outcome = "ok" => stage.outcome = "ok" /\ stage.at # "slices"
      /\ stage.at \in Over => stage' = stage
      /\ stage'.at = "ok" => stage.at = "ok" /\ stage' = stage
  BY <1>3 DEF Cancel
<1>6. PageTypeOK'
  BY <1>1, <1>2, <1>4, <1>5 DEF PageTypeOK
<1>7. SlicesInOrder'
  BY <1>4, <1>5 DEF SlicesInOrder
<1>8. EndIsLast'
  BY <1>1, <1>2, <1>5 DEF EndIsLast
<1>9. \A s \in Slice : Owed(s)' = Owed(s)
  BY <1>4 DEF Owed
<1>10. Whole' => Whole
  BY <1>2, <1>5 DEF Whole
<1>11. OneOfEach' /\ NothingLost'
  BY <1>1, <1>2, <1>9, <1>10, NothingMoves
<1>. QED  BY <1>2, <1>6, <1>7, <1>8, <1>11

LEMMA StepInv == PInv /\ [Next]_vars => PInv'
<1>. SUFFICES ASSUME PInv, [Next]_vars  PROVE PInv'
  OBVIOUS
<1>1. ASSUME NEW s \in Slice, SliceStep(s)  PROVE PInv'
  BY <1>1, SliceInv, PutInv, StopInv DEF SliceStep
<1>2. CASE StageStep
  BY <1>2, AllFetchedInv, PutSentinelInv DEF StageStep
<1>3. CASE ConsumerStep
  BY <1>3, GetInv, WriteInv DEF ConsumerStep
<1>4. CASE UNCHANGED vars
  BY <1>4, SMTT(30) DEF vars, PInv, PageTypeOK, SlicesInOrder, EndIsLast, ConsumerInOrder,
              LedgerAfterGraph, OneOfEach, NothingLost, Owed, Kept, Whole
<1>. QED  BY <1>1, <1>2, <1>3, <1>4, CallOffInv, CancelInv DEF Next, Done

LEMMA PageInv == Spec => []PInv
BY InitInv, StepInv, PTL DEF Spec

(* Type correctness of the page's state.                                   *)
THEOREM PageTypeCorrect == Spec => []PageTypeOK
<1>1. PInv => PageTypeOK
  BY DEF PInv
<1>. QED  BY <1>1, PageInv, PTL

(* The ledger never knows a message that the graph does not have, wherever  *)
(* a flush failed or was cancelled (_flush).                               *)
THEOREM LedgerStaysBehindTheGraph == Spec => []LedgerAfterGraph
<1>1. PInv => LedgerAfterGraph
  BY DEF PInv
<1>. QED  BY <1>1, PageInv, PTL

(* A message is in one slice's hands, in the queue or with the consumer,    *)
(* never in two places: no retry fetches again what is on its way.          *)
THEOREM MessagesAreDeliveredOnce == Spec => []DeliveredOnce
<1>1. PInv => DeliveredOnce
  BY DEF PInv, OneOfEach, DeliveredOnce, InFlight, Owed, Kept
<1>. QED  BY <1>1, PageInv, PTL

(* A page that ends well has lost no message: each is in the ledger or has  *)
(* a failure row, so the run may move its checkpoint past the page.         *)
THEOREM GoodPagesAreAccounted == Spec => []GoodPageIsAccounted
<1>1. PInv => GoodPageIsAccounted
  <2>. SUFFICES ASSUME PInv, stage.at = "ok", consumer.at = "ok"
       PROVE  ledger \cup failed = 1..fresh
    BY DEF GoodPageIsAccounted
  <2>. USE DEF PInv
  <2>1. queue = <<>> /\ ToSet(queue) = {} /\ Kept = ledger \cup failed /\ Whole
    BY DEF EndIsLast, ConsumerInOrder, SlicesInOrder, Kept, Whole, ToSet
  <2>2. \A s \in Slice : Owed(s) = {}
    BY DEF SlicesInOrder, Owed
  <2>. QED  BY <2>1, <2>2 DEF NothingLost
<1>. QED  BY <1>1, PageInv, PTL
=============================================================================
