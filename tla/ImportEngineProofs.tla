------------------------- MODULE ImportEngineProofs -------------------------
(***************************************************************************)
(* Proofs that an import never moves a checkpoint past mail it has not      *)
(* dealt with, for mailboxes of any size, any order of listing and any      *)
(* page, batch and checkpoint interval.                                     *)
(*                                                                         *)
(* MarkIsHonest and ResumeIsHonest speak of the checkpoints, which a run    *)
(* writes at its end: what makes them inductive is what the run knows in    *)
(* between, WalkIsHonest, and the order of its writes, RunInv.              *)
(***************************************************************************)
EXTENDS ImportEngine, TLAPS

Loop   == {"list", "flush", "ledger", "turn", "ask"}
Before == {"idle", "resume", "mark"}

(* Where each step of a run stands: what it read, and what it has written. *)
RunInv ==
    /\ ~delta => mark = Nowhere /\ pending = Nowhere /\ incr = Nowhere
    /\ delta /\ full # Nowhere => pending # Nowhere
    /\ delta /\ pc \notin Before => mark # Nowhere
    /\ pc = "mark" => cursor = IF mode = "full" THEN full ELSE incr
    /\ pc \in {"park", "clear"} => mode = "full" /\ cursor = Nowhere
    /\ pc = "park" => full = Nowhere
    /\ pc = "bootstrap" => mode = "incremental"
    /\ pc \in Loop \cup {"store", "unpark"} /\ mode = "full" => pending = mark
    /\ pc = "list" /\ mode = "incremental" => cursor # Nowhere
    /\ pc # "flush" /\ pc # "ledger" => page = {}
    /\ pc # "ledger" => batch = {}
    /\ pc = "ask" => cursor # Nowhere
    /\ pc \in {"store", "unpark"} /\ mode = "full" => full = Nowhere
    /\ pc = "unpark" => mode = "full"

(* Mail a walk leaves to others: a delta does not go back before exempt. *)
Floor == IF mode = "full" THEN 0 ELSE exempt

(* What the walk will still list: before a listing NULL means the top. *)
Rest == IF pc # "list" /\ cursor = Nowhere THEN {} ELSE Ahead(mode, cursor)

(* Up to its mark, a walk has dealt with, holds, or will list everything. *)
WalkIsHonest ==
    /\ pc \in Loop /\ mark # Nowhere =>
         \A m \in (Floor + 1)..mark : m \in Dealt \cup page \cup Rest
    /\ pc = "store" /\ mark # Nowhere =>
         \A m \in (Floor + 1)..mark : m \in Dealt

FlushInOrder == pc = "ledger" => batch \ Broken \subseteq graph

IInv ==
    /\ EngineTypeOK
    /\ RunInv
    /\ WalkIsHonest
    /\ MarkIsHonest
    /\ ResumeIsHonest
    /\ FlushInOrder
    /\ GraphBeforeLedger

USE EngineAssumption DEF Msg, Position, Nowhere, Mode, Arrived, Dealt

LEMMA InitInv == Init => IInv
BY DEF Init, IInv, EngineTypeOK, RunInv, WalkIsHonest, MarkIsHonest,
       ResumeIsHonest, FlushInOrder, GraphBeforeLedger, Location, Before, Loop

LEMMA ArriveInv ==
    ASSUME IInv, Arrive PROVE IInv'
<1> USE DEF Arrive, provider, stores, scopes, walk
<1>1. EngineTypeOK'
  BY DEF IInv, EngineTypeOK, Location, RunInv
<1>2. RunInv'
  BY DEF IInv, EngineTypeOK, RunInv, Loop, Before
<1>3. WalkIsHonest'
  BY DEF IInv, EngineTypeOK, RunInv, WalkIsHonest, Loop, Floor, Rest, Ahead, At, Downward
<1>4. MarkIsHonest'
  BY DEF IInv, EngineTypeOK, RunInv, MarkIsHonest, WalkIsHonest, Floor
<1>5. ResumeIsHonest'
  BY DEF IInv, EngineTypeOK, RunInv, ResumeIsHonest, Ahead, At, Downward
<1>6. FlushInOrder' /\ GraphBeforeLedger'
  BY DEF IInv, EngineTypeOK, FlushInOrder, GraphBeforeLedger
<1> QED
  BY <1>1, <1>2, <1>3, <1>4, <1>5, <1>6 DEF IInv

LEMMA ExpireInv ==
    ASSUME IInv, Expire PROVE IInv'
<1> USE DEF Expire, provider, stores, scopes, walk
<1>1. EngineTypeOK'
  BY DEF IInv, EngineTypeOK, Location, RunInv
<1>2. RunInv'
  BY DEF IInv, EngineTypeOK, RunInv, Loop, Before
<1>3. WalkIsHonest'
  BY DEF IInv, EngineTypeOK, RunInv, WalkIsHonest, Loop, Floor, Rest, Ahead, At, Downward
<1>4. MarkIsHonest'
  BY DEF IInv, EngineTypeOK, RunInv, MarkIsHonest, WalkIsHonest, Floor
<1>5. ResumeIsHonest'
  BY DEF IInv, EngineTypeOK, RunInv, ResumeIsHonest, Ahead, At, Downward
<1>6. FlushInOrder' /\ GraphBeforeLedger'
  BY DEF IInv, EngineTypeOK, FlushInOrder, GraphBeforeLedger
<1> QED
  BY <1>1, <1>2, <1>3, <1>4, <1>5, <1>6 DEF IInv

LEMMA StartInv ==
    ASSUME IInv, NEW m \in Mode, Start(m) PROVE IInv'
<1> USE DEF Start, provider, stores, scopes, walk
<1>1. EngineTypeOK'
  BY DEF IInv, EngineTypeOK, Location, RunInv
<1>2. RunInv'
  BY DEF IInv, EngineTypeOK, RunInv, Loop, Before
<1>3. WalkIsHonest'
  BY DEF IInv, EngineTypeOK, RunInv, WalkIsHonest, Loop, Floor, Rest, Ahead, At, Downward
<1>4. MarkIsHonest'
  BY DEF IInv, EngineTypeOK, RunInv, MarkIsHonest, WalkIsHonest, Floor
<1>5. ResumeIsHonest'
  BY DEF IInv, EngineTypeOK, RunInv, ResumeIsHonest, Ahead, At, Downward
<1>6. FlushInOrder' /\ GraphBeforeLedger'
  BY DEF IInv, EngineTypeOK, FlushInOrder, GraphBeforeLedger
<1> QED
  BY <1>1, <1>2, <1>3, <1>4, <1>5, <1>6 DEF IInv

LEMMA ResumeInv ==
    ASSUME IInv, Resume PROVE IInv'
<1> USE DEF Resume, provider, stores, scopes, walk
<1>1. EngineTypeOK'
  BY DEF IInv, EngineTypeOK, Location, RunInv
<1>2. RunInv'
  BY DEF IInv, EngineTypeOK, RunInv, Loop, Before
<1>3. WalkIsHonest'
  BY DEF IInv, EngineTypeOK, RunInv, WalkIsHonest, Loop, Floor, Rest, Ahead, At, Downward
<1>4. MarkIsHonest'
  BY DEF IInv, EngineTypeOK, RunInv, MarkIsHonest, WalkIsHonest, Floor
<1>5. ResumeIsHonest'
  BY DEF IInv, EngineTypeOK, RunInv, ResumeIsHonest, Ahead, At, Downward
<1>6. FlushInOrder' /\ GraphBeforeLedger'
  BY DEF IInv, EngineTypeOK, FlushInOrder, GraphBeforeLedger
<1> QED
  BY <1>1, <1>2, <1>3, <1>4, <1>5, <1>6 DEF IInv

LEMMA StartingMarkInv ==
    ASSUME IInv, StartingMark PROVE IInv'
<1> USE DEF StartingMark, Inherits, Watermarks, provider, stores, scopes, walk
<1>1. EngineTypeOK'
  BY DEF IInv, EngineTypeOK, Location, RunInv
<1>2. RunInv'
  BY DEF IInv, EngineTypeOK, RunInv, Loop, Before
<1>3. WalkIsHonest'
  <2>1. SUFFICES ASSUME pc' = "list", mark' # Nowhere, NEW m \in (Floor + 1)..mark'
                 PROVE  m \in Dealt \cup Ahead(mode, cursor)
    BY DEF WalkIsHonest, Loop, Floor, Rest, Ahead, At, Downward
  <2>2. cursor # Nowhere /\ cursor = (IF mode = "full" THEN full ELSE incr)
    BY <2>1 DEF IInv, RunInv
  <2>3. m \in Nat /\ m \in Arrived
    BY <2>1 DEF IInv, EngineTypeOK, Floor
  <2>4. CASE mode = "full"
    <3>1. pending # Nowhere /\ mark' = pending
      BY <2>1, <2>2, <2>4 DEF IInv, RunInv
    <3> QED
      BY <2>1, <2>2, <2>3, <2>4, <3>1 DEF IInv, ResumeIsHonest, Floor
  <2>5. CASE mode = "incremental"
    <3>1. CASE m <= incr
      BY <2>1, <2>2, <2>3, <2>5, <3>1 DEF IInv, EngineTypeOK, MarkIsHonest, Floor
    <3>2. CASE m > incr
      BY <2>2, <2>3, <2>5, <3>2 DEF Ahead, At, Downward
    <3> QED
      BY <2>2, <2>3, <3>1, <3>2, <2>5 DEF IInv, EngineTypeOK
  <2> QED
    BY <2>4, <2>5 DEF IInv, EngineTypeOK
<1>4. MarkIsHonest'
  BY DEF IInv, EngineTypeOK, RunInv, MarkIsHonest, WalkIsHonest, Floor
<1>5. ResumeIsHonest'
  BY DEF IInv, EngineTypeOK, RunInv, ResumeIsHonest, Ahead, At, Downward
<1>6. FlushInOrder' /\ GraphBeforeLedger'
  BY DEF IInv, EngineTypeOK, FlushInOrder, GraphBeforeLedger
<1> QED
  BY <1>1, <1>2, <1>3, <1>4, <1>5, <1>6 DEF IInv

LEMMA RememberMarkInv ==
    ASSUME IInv, RememberMark PROVE IInv'
<1> USE DEF RememberMark, provider, stores, scopes, walk
<1>1. EngineTypeOK'
  BY DEF IInv, EngineTypeOK, Location, RunInv
<1>2. RunInv'
  BY DEF IInv, EngineTypeOK, RunInv, Loop, Before
<1>3. WalkIsHonest'
  BY DEF IInv, EngineTypeOK, RunInv, WalkIsHonest, Loop, Floor, Rest, Ahead, At, Downward
<1>4. MarkIsHonest'
  BY DEF IInv, EngineTypeOK, RunInv, MarkIsHonest, WalkIsHonest, Floor
<1>5. ResumeIsHonest'
  BY DEF IInv, EngineTypeOK, RunInv, ResumeIsHonest, Ahead, At, Downward
<1>6. FlushInOrder' /\ GraphBeforeLedger'
  BY DEF IInv, EngineTypeOK, FlushInOrder, GraphBeforeLedger
<1> QED
  BY <1>1, <1>2, <1>3, <1>4, <1>5, <1>6 DEF IInv

LEMMA BootstrapInv ==
    ASSUME IInv, Bootstrap PROVE IInv'
<1> USE DEF Bootstrap, Ended, provider, stores, scopes, walk
<1>1. EngineTypeOK'
  BY DEF IInv, EngineTypeOK, Location, RunInv
<1>2. RunInv'
  BY DEF IInv, EngineTypeOK, RunInv, Loop, Before
<1>3. WalkIsHonest'
  BY DEF IInv, EngineTypeOK, RunInv, WalkIsHonest, Loop, Floor, Rest, Ahead, At, Downward
<1>4. MarkIsHonest'
  BY DEF IInv, EngineTypeOK, RunInv, MarkIsHonest, WalkIsHonest, Floor
<1>5. ResumeIsHonest'
  BY DEF IInv, EngineTypeOK, RunInv, ResumeIsHonest, Ahead, At, Downward
<1>6. FlushInOrder' /\ GraphBeforeLedger'
  BY DEF IInv, EngineTypeOK, FlushInOrder, GraphBeforeLedger
<1> QED
  BY <1>1, <1>2, <1>3, <1>4, <1>5, <1>6 DEF IInv

LEMMA ListInv ==
    ASSUME IInv, List PROVE IInv'
<1> USE DEF List, provider, stores, scopes, walk
<1>1. EngineTypeOK'
  <2>1. since' \in Nat
    BY DEF IInv, EngineTypeOK, IsPage, At, Downward
  <2>2. page' \subseteq Arrived /\ batch' \subseteq page'
    BY DEF IInv, EngineTypeOK, Listed, At, Downward, RunInv
  <2>3. cursor' \in 0..arrived \cup {Nowhere}
    OBVIOUS
  <2> QED
    BY <2>1, <2>2, <2>3 DEF IInv, EngineTypeOK, Location
<1>2. RunInv'
  BY DEF IInv, EngineTypeOK, RunInv, Loop, Before
<1>3. WalkIsHonest'
  <2>1. PICK cut \in 0..arrived :
          /\ IsPage(cut)
          /\ page' = Listed(cut) \ ledger
          /\ cursor' = IF cut = (IF Downward(mode) THEN 0 ELSE arrived)
                       THEN Nowhere ELSE cut
    OBVIOUS
  <2>2. At(mode, cursor) \in 0..arrived
    BY DEF IInv, EngineTypeOK, At, Downward
  <2>3. Ahead(mode, cursor) = Listed(cut) \cup Rest'
    BY <2>1, <2>2 DEF IInv, EngineTypeOK, IsPage, Listed, Ahead, At, Downward, Rest
  <2>4. Listed(cut) \subseteq Dealt \cup page'
    BY <2>1
  <2>5. Rest = Ahead(mode, cursor) /\ page = {}
    BY DEF Rest, IInv, RunInv
  <2> QED
    BY <2>3, <2>4, <2>5 DEF IInv, WalkIsHonest, Loop, Floor
<1>4. MarkIsHonest'
  BY DEF IInv, EngineTypeOK, RunInv, MarkIsHonest, WalkIsHonest, Floor
<1>5. ResumeIsHonest'
  BY DEF IInv, EngineTypeOK, RunInv, ResumeIsHonest, Ahead, At, Downward
<1>6. FlushInOrder' /\ GraphBeforeLedger'
  BY DEF IInv, EngineTypeOK, FlushInOrder, GraphBeforeLedger
<1> QED
  BY <1>1, <1>2, <1>3, <1>4, <1>5, <1>6 DEF IInv

LEMMA FallBackInv ==
    ASSUME IInv, FallBack PROVE IInv'
<1> USE DEF FallBack, Expired, provider, stores, scopes, walk
<1>1. EngineTypeOK'
  BY DEF IInv, EngineTypeOK, Location, RunInv
<1>2. RunInv'
  BY DEF IInv, EngineTypeOK, RunInv, Loop, Before
<1>3. WalkIsHonest'
  BY DEF IInv, EngineTypeOK, RunInv, WalkIsHonest, Loop, Floor, Rest, Ahead, At, Downward
<1>4. MarkIsHonest'
  BY DEF IInv, EngineTypeOK, RunInv, MarkIsHonest, WalkIsHonest, Floor
<1>5. ResumeIsHonest'
  BY DEF IInv, EngineTypeOK, RunInv, ResumeIsHonest, Ahead, At, Downward
<1>6. FlushInOrder' /\ GraphBeforeLedger'
  BY DEF IInv, EngineTypeOK, FlushInOrder, GraphBeforeLedger
<1> QED
  BY <1>1, <1>2, <1>3, <1>4, <1>5, <1>6 DEF IInv

LEMMA ClearFullInv ==
    ASSUME IInv, ClearFull PROVE IInv'
<1> USE DEF ClearFull, provider, stores, scopes, walk
<1>1. EngineTypeOK'
  BY DEF IInv, EngineTypeOK, Location, RunInv
<1>2. RunInv'
  BY DEF IInv, EngineTypeOK, RunInv, Loop, Before
<1>3. WalkIsHonest'
  BY DEF IInv, EngineTypeOK, RunInv, WalkIsHonest, Loop, Floor, Rest, Ahead, At, Downward
<1>4. MarkIsHonest'
  BY DEF IInv, EngineTypeOK, RunInv, MarkIsHonest, WalkIsHonest, Floor
<1>5. ResumeIsHonest'
  BY DEF IInv, EngineTypeOK, RunInv, ResumeIsHonest, Ahead, At, Downward
<1>6. FlushInOrder' /\ GraphBeforeLedger'
  BY DEF IInv, EngineTypeOK, FlushInOrder, GraphBeforeLedger
<1> QED
  BY <1>1, <1>2, <1>3, <1>4, <1>5, <1>6 DEF IInv

LEMMA FlushGraphInv ==
    ASSUME IInv, FlushGraph PROVE IInv'
<1> USE DEF FlushGraph, IsBatch, provider, stores, scopes, walk
<1>1. EngineTypeOK'
  BY DEF IInv, EngineTypeOK, Location, RunInv
<1>2. RunInv'
  BY DEF IInv, EngineTypeOK, RunInv, Loop, Before
<1>3. WalkIsHonest'
  BY DEF IInv, EngineTypeOK, RunInv, WalkIsHonest, Loop, Floor, Rest, Ahead, At, Downward
<1>4. MarkIsHonest'
  BY DEF IInv, EngineTypeOK, RunInv, MarkIsHonest, WalkIsHonest, Floor
<1>5. ResumeIsHonest'
  BY DEF IInv, EngineTypeOK, RunInv, ResumeIsHonest, Ahead, At, Downward
<1>6. FlushInOrder' /\ GraphBeforeLedger'
  BY DEF IInv, EngineTypeOK, FlushInOrder, GraphBeforeLedger
<1> QED
  BY <1>1, <1>2, <1>3, <1>4, <1>5, <1>6 DEF IInv

LEMMA FlushLedgerInv ==
    ASSUME IInv, FlushLedger PROVE IInv'
<1> USE DEF FlushLedger, provider, stores, scopes, walk
<1>1. EngineTypeOK'
  BY DEF IInv, EngineTypeOK, Location, RunInv
<1>2. RunInv'
  BY DEF IInv, EngineTypeOK, RunInv, Loop, Before
<1>3. WalkIsHonest'
  BY DEF IInv, EngineTypeOK, RunInv, WalkIsHonest, Loop, Floor, Rest, Ahead, At, Downward
<1>4. MarkIsHonest'
  BY DEF IInv, EngineTypeOK, RunInv, MarkIsHonest, WalkIsHonest, Floor
<1>5. ResumeIsHonest'
  BY DEF IInv, EngineTypeOK, RunInv, ResumeIsHonest, Ahead, At, Downward
<1>6. FlushInOrder' /\ GraphBeforeLedger'
  BY DEF IInv, EngineTypeOK, FlushInOrder, GraphBeforeLedger
<1> QED
  BY <1>1, <1>2, <1>3, <1>4, <1>5, <1>6 DEF IInv

LEMMA CheckpointInv ==
    ASSUME IInv, Checkpoint PROVE IInv'
<1> USE DEF Checkpoint, CheckpointDue, provider, stores, scopes, walk
<1>1. EngineTypeOK'
  BY DEF IInv, EngineTypeOK, Location, RunInv
<1>2. RunInv'
  BY DEF IInv, EngineTypeOK, RunInv, Loop, Before
<1>3. WalkIsHonest'
  BY DEF IInv, EngineTypeOK, RunInv, WalkIsHonest, Loop, Floor, Rest, Ahead, At, Downward
<1>4. MarkIsHonest'
  BY DEF IInv, EngineTypeOK, RunInv, MarkIsHonest, WalkIsHonest, Floor
<1>5. ResumeIsHonest'
  <2>1. CASE CheckpointDue /\ cursor # Nowhere
    <3>1. mode = "full" /\ pending = mark /\ page = {} /\ full' = cursor
      BY <2>1 DEF IInv, RunInv, Loop
    <3>2. mark # Nowhere =>
            \A m \in 1..mark : m \in Dealt \cup Ahead("full", cursor)
      BY <2>1, <3>1 DEF IInv, WalkIsHonest, Loop, Floor, Rest
    <3> QED
      BY <3>1, <3>2 DEF ResumeIsHonest, Ahead, At, Downward
  <2>2. CASE ~CheckpointDue \/ cursor = Nowhere
    BY <2>2 DEF IInv, ResumeIsHonest, Ahead, At, Downward
  <2> QED
    BY <2>1, <2>2
<1>6. FlushInOrder' /\ GraphBeforeLedger'
  BY DEF IInv, EngineTypeOK, FlushInOrder, GraphBeforeLedger
<1> QED
  BY <1>1, <1>2, <1>3, <1>4, <1>5, <1>6 DEF IInv

LEMMA GoOnInv ==
    ASSUME IInv, GoOn PROVE IInv'
<1> USE DEF GoOn, provider, stores, scopes, walk
<1>1. EngineTypeOK'
  BY DEF IInv, EngineTypeOK, Location, RunInv
<1>2. RunInv'
  BY DEF IInv, EngineTypeOK, RunInv, Loop, Before
<1>3. WalkIsHonest'
  BY DEF IInv, EngineTypeOK, RunInv, WalkIsHonest, Loop, Floor, Rest, Ahead, At, Downward
<1>4. MarkIsHonest'
  BY DEF IInv, EngineTypeOK, RunInv, MarkIsHonest, WalkIsHonest, Floor
<1>5. ResumeIsHonest'
  BY DEF IInv, EngineTypeOK, RunInv, ResumeIsHonest, Ahead, At, Downward
<1>6. FlushInOrder' /\ GraphBeforeLedger'
  BY DEF IInv, EngineTypeOK, FlushInOrder, GraphBeforeLedger
<1> QED
  BY <1>1, <1>2, <1>3, <1>4, <1>5, <1>6 DEF IInv

LEMMA StoreWatermarkInv ==
    ASSUME IInv, StoreWatermark PROVE IInv'
<1> USE DEF StoreWatermark, Ended, provider, stores, scopes, walk
<1>1. EngineTypeOK'
  <2>1. CASE mode = "full" /\ mark # Nowhere
    <3>1. pc' = "unpark" /\ incr' = mark /\ exempt' = 0 /\ UNCHANGED walk
      BY <2>1
    <3> QED
      BY <3>1 DEF IInv, EngineTypeOK, Location
  <2>2. CASE ~(mode = "full" /\ mark # Nowhere)
    BY <2>2 DEF IInv, EngineTypeOK, Location
  <2> QED
    BY <2>1, <2>2
<1>2. RunInv'
  BY DEF IInv, EngineTypeOK, RunInv, Loop, Before
<1>3. WalkIsHonest'
  BY DEF IInv, EngineTypeOK, RunInv, WalkIsHonest, Loop, Floor, Rest, Ahead, At, Downward
<1>4. MarkIsHonest'
  BY DEF IInv, EngineTypeOK, RunInv, MarkIsHonest, WalkIsHonest, Floor
<1>5. ResumeIsHonest'
  BY DEF IInv, EngineTypeOK, RunInv, ResumeIsHonest, Ahead, At, Downward
<1>6. FlushInOrder' /\ GraphBeforeLedger'
  BY DEF IInv, EngineTypeOK, FlushInOrder, GraphBeforeLedger
<1> QED
  BY <1>1, <1>2, <1>3, <1>4, <1>5, <1>6 DEF IInv

LEMMA UnparkInv ==
    ASSUME IInv, Unpark PROVE IInv'
<1> USE DEF Unpark, Ended, provider, stores, scopes, walk
<1>1. EngineTypeOK'
  BY DEF IInv, EngineTypeOK, Location, RunInv
<1>2. RunInv'
  BY DEF IInv, EngineTypeOK, RunInv, Loop, Before
<1>3. WalkIsHonest'
  BY DEF IInv, EngineTypeOK, RunInv, WalkIsHonest, Loop, Floor, Rest, Ahead, At, Downward
<1>4. MarkIsHonest'
  BY DEF IInv, EngineTypeOK, RunInv, MarkIsHonest, WalkIsHonest, Floor
<1>5. ResumeIsHonest'
  BY DEF IInv, EngineTypeOK, RunInv, ResumeIsHonest, Ahead, At, Downward
<1>6. FlushInOrder' /\ GraphBeforeLedger'
  BY DEF IInv, EngineTypeOK, FlushInOrder, GraphBeforeLedger
<1> QED
  BY <1>1, <1>2, <1>3, <1>4, <1>5, <1>6 DEF IInv

LEMMA CancelledInv ==
    ASSUME IInv, Cancelled PROVE IInv'
<1> USE DEF Cancelled, Ended, provider, stores, scopes, walk
<1>1. EngineTypeOK'
  BY DEF IInv, EngineTypeOK, Location, RunInv
<1>2. RunInv'
  BY DEF IInv, EngineTypeOK, RunInv, Loop, Before
<1>3. WalkIsHonest'
  BY DEF IInv, EngineTypeOK, RunInv, WalkIsHonest, Loop, Floor, Rest, Ahead, At, Downward
<1>4. MarkIsHonest'
  BY DEF IInv, EngineTypeOK, RunInv, MarkIsHonest, WalkIsHonest, Floor
<1>5. ResumeIsHonest'
  BY DEF IInv, EngineTypeOK, RunInv, ResumeIsHonest, Ahead, At, Downward
<1>6. FlushInOrder' /\ GraphBeforeLedger'
  BY DEF IInv, EngineTypeOK, FlushInOrder, GraphBeforeLedger
<1> QED
  BY <1>1, <1>2, <1>3, <1>4, <1>5, <1>6 DEF IInv

LEMMA CutShortInv ==
    ASSUME IInv, CutShort PROVE IInv'
<1> USE DEF CutShort, Ended, provider, stores, scopes, walk
<1>1. EngineTypeOK'
  <2>1. graph' \subseteq Arrived'
    BY DEF IInv, EngineTypeOK
  <2> QED
    BY <2>1 DEF IInv, EngineTypeOK, Location
<1>2. RunInv'
  BY DEF IInv, EngineTypeOK, RunInv, Loop, Before
<1>3. WalkIsHonest'
  BY DEF IInv, EngineTypeOK, RunInv, WalkIsHonest, Loop, Floor, Rest, Ahead, At, Downward
<1>4. MarkIsHonest'
  BY DEF IInv, EngineTypeOK, RunInv, MarkIsHonest, WalkIsHonest, Floor
<1>5. ResumeIsHonest'
  BY DEF IInv, EngineTypeOK, RunInv, ResumeIsHonest, Ahead, At, Downward
<1>6. FlushInOrder' /\ GraphBeforeLedger'
  BY DEF IInv, EngineTypeOK, FlushInOrder, GraphBeforeLedger
<1> QED
  BY <1>1, <1>2, <1>3, <1>4, <1>5, <1>6 DEF IInv

LEMMA StutterInv ==
    ASSUME IInv, UNCHANGED vars PROVE IInv'
BY DEF IInv, EngineTypeOK, RunInv, WalkIsHonest, MarkIsHonest, ResumeIsHonest,
       FlushInOrder, GraphBeforeLedger, Floor, Rest, Ahead, At, Downward,
       vars, provider, stores, scopes, walk

LEMMA Invariance == Spec => []IInv
<1>1. IInv /\ [Next]_vars => IInv'
  <2> SUFFICES ASSUME IInv, [Next]_vars PROVE IInv'
    OBVIOUS
  <2>1. CASE \E m \in Mode : Start(m)
    BY <2>1, StartInv
  <2>2. CASE Step
    BY <2>2, ResumeInv, StartingMarkInv, RememberMarkInv, BootstrapInv, ListInv,
       FallBackInv, ClearFullInv, FlushGraphInv, FlushLedgerInv, CheckpointInv,
       GoOnInv, StoreWatermarkInv, UnparkInv DEF Step
  <2>3. CASE Arrive \/ Expire \/ Cancelled \/ CutShort
    BY <2>3, ArriveInv, ExpireInv, CancelledInv, CutShortInv
  <2> QED
    BY <2>1, <2>2, <2>3, StutterInv DEF Next
<1> QED
  BY <1>1, InitInv, PTL DEF Spec

(* Every position a run or a checkpoint holds lies in the mailbox. *)
THEOREM EngineTypeCorrect == Spec => []EngineTypeOK
BY Invariance, PTL DEF IInv

(* No delta ever starts past mail nobody has accounted for: however runs    *)
(* are cancelled, cut short, resumed or sent back to the start by an        *)
(* expired cursor, everything a stored mark covers is in the ledger or has  *)
(* a failure row.                                                           *)
THEOREM MarksAreHonest == Spec => []MarkIsHonest
BY Invariance, PTL DEF IInv

(* An import that stopped half way can always be resumed where its          *)
(* checkpoint says without losing what arrived before it began.             *)
THEOREM ResumesAreHonest == Spec => []ResumeIsHonest
BY Invariance, PTL DEF IInv

(* What the ledger filters out of later walks is in the graph. *)
THEOREM LedgerFollowsGraph == Spec => []GraphBeforeLedger
BY Invariance, PTL DEF IInv
=============================================================================
