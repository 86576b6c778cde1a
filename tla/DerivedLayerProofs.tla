------------------------- MODULE DerivedLayerProofs -------------------------
(***************************************************************************)
(* Proofs about the derived layer, for any mail, any number of workers and  *)
(* of rebuilds beside them, and whatever people do meanwhile: a rebuild     *)
(* brings nothing back that was deleted under it, takes no decision from a  *)
(* person, and after it ended well the layer is whole and, if it was alone, *)
(* nothing but what it found.                                              *)
(*                                                                         *)
(* The layer is judged when a rebuild has ended; what carries the judgement *)
(* is base.by, the rebuild that deleted last: Progress says what of its     *)
(* work is in the layer at each stage, and ByItself what else is not.       *)
(***************************************************************************)
EXTENDS DerivedLayer, SequenceTheorems, TLAPS

AtWork == {"delete", "edges", "clear", "read", "topics", "about", "score", "tagged",
           "suggest", "weigh", "accept"}

(* What is behind a rebuild, by where it stands. *)
HasRead   == {"topics", "about", "score", "tagged", "suggest", "weigh", "accept", "done"}
HasTopics == HasRead \ {"topics"}
HasAbout  == HasTopics \ {"about"}
HasScored == HasAbout \ {"score"}

IsRun(x) ==
    /\ x = [at |-> x.at, job |-> x.job, facts |-> x.facts, offers |-> x.offers,
            alone |-> x.alone]
    /\ x.facts \subseteq Msg /\ x.offers \subseteq Msg /\ x.alone \in BOOLEAN

LayerTypeOK ==
    /\ mail \subseteq Msg /\ hand \subseteq Msg /\ late \subseteq Msg
    /\ tag \in [there : BOOLEAN, on : [Msg -> {"no", "person", "auto"}]]
    /\ layer \in [topics : SUBSET SUBSET Msg, about : SUBSET (Msg \X SUBSET Msg),
                  scored : [Msg -> SUBSET Msg], suggested : SUBSET Msg]
    /\ DOMAIN run = Runner /\ \A r \in Runner : IsRun(run[r])
    /\ base \in [by : Runner \cup {None}, end : {"running", "done", "half"},
                 facts : SUBSET Msg, alone : BOOLEAN]
    /\ DOMAIN brought = Msg

(* What auto-accept is about to write over a person's tag came late. *)
PersonsAreLate ==
    \A r \in Runner : run[r].at = "accept" =>
        \A m \in run[r].offers : tag.on[m] = "person" => m \in late

(* No rebuild knows of mail that is still to come. *)
Seen == Archived \cup {m \in Msg : brought[m] # "no"}

NothingForeseen ==
    /\ mail \subseteq Seen /\ base.facts \subseteq Seen
    /\ \A r \in Runner : run[r].facts \subseteq Seen

(* Of the rebuild that deleted last, everything behind it is in the layer. *)
Progress ==
    base.by # None =>
        LET x == run[base.by]
        IN  /\ base.by \in Runner /\ base.end = "running"
            /\ x.at \in AtWork \cup {"done", "stop"}
            /\ x.at \in HasRead => base.facts = x.facts
            /\ x.at \in HasTopics => Topics(x.facts) \subseteq layer.topics
            /\ x.at \in HasAbout => (x.facts \cap mail) \X Topics(x.facts) \subseteq layer.about
            /\ x.at \in HasScored => \A m \in x.facts \cap mail : layer.scored[m] # {}

(* A rebuild that is alone deleted last, and nothing else is in the layer. *)
ByItself ==
    /\ \A r \in Runner : run[r].alone /\ run[r].at \in AtWork \cup {"done"} =>
         /\ \A q \in Runner \ {r} : run[q].at \notin AtWork
         /\ run[r].at # "delete" => base.by = r
         /\ run[r].at \in {"edges", "clear", "read", "topics"} => layer.topics = {}
         /\ run[r].at \in {"read", "topics", "about", "score"} =>
              \A m \in Msg : layer.scored[m] = {}
         /\ run[r].at \in HasTopics => layer.topics = Topics(run[r].facts)
         /\ run[r].at \in HasScored => \A m \in Msg : layer.scored[m] \in {{}, run[r].facts}
    /\ base.end = "done" /\ base.alone =>
         \A r \in Runner : run[r].at \in AtWork => run[r].at = "delete"

DInv ==
    /\ LayerTypeOK /\ NothingInvented /\ PersonsAreLate
    /\ NothingForeseen /\ Progress /\ ByItself
    /\ SucceededMeansWhole /\ NothingLeftOver

USE DerivedAssumption DEF Runner

LEMMA TopicsType == \A f \in SUBSET Msg : Topics(f) \in SUBSET SUBSET Msg
BY DEF Topics

LEMMA InitInv == Init => DInv
<1>. SUFFICES ASSUME Init  PROVE DInv
  OBVIOUS
<1>. DEFINE pairs == {<<m, t>> : m \in Archived, t \in Topics(Archived)}
<1>1. Topics(Archived) \in SUBSET SUBSET Msg /\ pairs = Archived \X Topics(Archived)
  BY TopicsType
<1>2. layer = [topics |-> Topics(Archived), about |-> pairs,
               scored |-> [m \in Msg |-> IF m \in Archived THEN Archived ELSE {}],
               suggested |-> {}]
  BY DEF Init, Full
<1>. HIDE DEF pairs
<1>3. /\ run = [r \in Runner |-> IdleRun]
      /\ IsRun(IdleRun) /\ IdleRun.at = "idle" /\ IdleRun.facts = {}
  BY DEF Init, IdleRun, IsRun
<1>4. LayerTypeOK
  BY <1>1, <1>2, <1>3 DEF Init, LayerTypeOK
<1>5. NothingInvented
  BY <1>1, <1>2 DEF Init, NothingInvented, Wearing
<1>6. PersonsAreLate /\ NothingForeseen /\ Progress /\ ByItself
  BY <1>3 DEF Init, PersonsAreLate, NothingForeseen, Seen, Progress, ByItself, AtWork
<1>7. SucceededMeansWhole /\ NothingLeftOver
  BY <1>1, <1>2 DEF Init, SucceededMeansWhole, NothingLeftOver
<1>. QED  BY <1>4, <1>5, <1>6, <1>7 DEF DInv

-----------------------------------------------------------------------------
(* People: no step of theirs adds a topic or a score, or takes one from a   *)
(* message that stays.                                                     *)

GraphKeeps ==
    /\ UNCHANGED <<run, base, brought>>
    /\ mail' \subseteq mail
    /\ layer'.topics = layer.topics
    /\ \A a \in layer.about : a[1] \in mail' => a \in layer'.about
    /\ \A m \in Msg : \/ layer'.scored[m] = layer.scored[m]
                      \/ m \notin mail' /\ layer'.scored[m] = {}

LEMMA GraphKeepsInv ==
    ASSUME DInv, GraphKeeps, LayerTypeOK', NothingInvented', PersonsAreLate'
    PROVE  DInv'
<1>. USE DEF DInv, GraphKeeps
<1>1. NothingForeseen'
  BY DEF NothingForeseen, Seen
<1>2. ASSUME NEW f, f \in SUBSET Msg
      PROVE  /\ (f \cap mail) \X Topics(f) \subseteq layer.about =>
                  (f \cap mail') \X Topics(f) \subseteq layer'.about
             /\ (\A m \in f \cap mail : layer.scored[m] # {}) =>
                  \A m \in f \cap mail' : layer'.scored[m] # {}
  BY <1>2
<1>3. base.facts \in SUBSET Msg /\ \A r \in Runner : run[r].facts \in SUBSET Msg
  BY DEF LayerTypeOK, IsRun
<1>4. Progress'
  <2>. SUFFICES ASSUME base.by # None  PROVE Progress'
    BY DEF Progress
  <2>1. base.by \in Runner /\ run[base.by].facts \in SUBSET Msg
    BY <1>3 DEF Progress
  <2>. QED  BY <1>2, <2>1 DEF Progress
<1>5. SucceededMeansWhole'
  BY <1>2, <1>3 DEF SucceededMeansWhole
<1>6. ByItself' /\ NothingLeftOver'
  BY DEF ByItself, NothingLeftOver
<1>. QED  BY <1>1, <1>4, <1>5, <1>6

(* What the queue, the buttons and a person's choice leave alone. *)
LEMMA AskingInv ==
    ASSUME DInv, UNCHANGED <<mail, layer, run, base, brought, late>>,
           hand' \subseteq Msg,
           tag' = tag \/ (~tag.there /\ tag' = [tag EXCEPT !.there = TRUE])
    PROVE  DInv'
<1>1. /\ tag' \in [there : BOOLEAN, on : [Msg -> {"no", "person", "auto"}]]
      /\ tag'.on = tag.on /\ (~tag'.there => ~tag.there)
  <2>1. tag \in [there : BOOLEAN, on : [Msg -> {"no", "person", "auto"}]]
    BY DEF DInv, LayerTypeOK
  <2>2. CASE tag' = tag
    BY <2>1, <2>2
  <2>3. CASE tag' = [tag EXCEPT !.there = TRUE]
    BY <2>1, <2>3
  <2>. QED  BY <2>2, <2>3
<1>2. LayerTypeOK'
  BY <1>1 DEF DInv, LayerTypeOK
<1>3. NothingInvented'
  BY <1>1 DEF DInv, NothingInvented, Wearing
<1>4. PersonsAreLate'
  BY <1>1 DEF DInv, PersonsAreLate
<1>5. GraphKeeps
  BY DEF GraphKeeps
<1>. QED  BY <1>2, <1>3, <1>4, <1>5, GraphKeepsInv

LEMMA PeopleAskInv ==
    ASSUME DInv,
           \/ PressRebuild \/ PanelQueues \/ \E i \in DOMAIN jobs : CancelRebuild(i)
           \/ \E t \in layer.topics \cup {{}} : Promote(t)
           \/ \E ids \in {{m} : m \in mail} \cup {layer.suggested} : PickByHand(ids)
    PROVE  DInv'
<1>1. UNCHANGED <<mail, layer, run, base, brought, late>>
  BY DEF PressRebuild, PanelQueues, CancelRebuild, Promote, PickByHand, histVars
<1>2. tag' = tag \/ (~tag.there /\ tag' = [tag EXCEPT !.there = TRUE])
  BY DEF PressRebuild, PanelQueues, CancelRebuild, Promote, PickByHand
<1>3. hand' \subseteq Msg
  <2>1. hand \subseteq Msg /\ layer.topics \subseteq SUBSET Msg /\ layer.suggested \subseteq Msg
        /\ mail \subseteq Msg
    BY DEF DInv, LayerTypeOK
  <2>2. ASSUME NEW t \in layer.topics \cup {{}}, Promote(t)  PROVE hand' \subseteq Msg
    BY <2>1, <2>2 DEF Promote
  <2>3. ASSUME NEW ids \in {{m} : m \in mail} \cup {layer.suggested}, PickByHand(ids)
        PROVE  hand' \subseteq Msg
    BY <2>1, <2>3 DEF PickByHand
  <2>4. CASE PressRebuild \/ PanelQueues \/ \E i \in DOMAIN jobs : CancelRebuild(i)
    BY <2>1, <2>4 DEF PressRebuild, PanelQueues, CancelRebuild
  <2>. QED  BY <2>2, <2>3, <2>4
<1>. QED  BY <1>1, <1>2, <1>3, AskingInv

(* Tagging touches only mail and tags that are there. *)
LEMMA TaggingKeeps ==
    ASSUME DInv, NEW ids, NEW source \in {"person", "auto"}
    PROVE  /\ Tagging(ids, source) \in [there : BOOLEAN, on : [Msg -> {"no", "person", "auto"}]]
           /\ Tagging(ids, source).there = tag.there
           /\ \A m \in Msg : Tagging(ids, source).on[m] =
                 IF tag.there /\ m \in ids \cap mail THEN source ELSE tag.on[m]
BY DEF DInv, LayerTypeOK, Tagging

LEMMA HandTagsInv ==
    ASSUME DInv, HandTags
    PROVE  DInv'
<1>1. /\ UNCHANGED <<mail, layer, run, base, brought>>
      /\ tag' = Tagging(hand, "person") /\ hand' = {}
      /\ late' = IF Weighed = {} THEN late ELSE late \cup hand
  BY DEF HandTags
<1>2. /\ tag' \in [there : BOOLEAN, on : [Msg -> {"no", "person", "auto"}]]
      /\ tag'.there = tag.there
      /\ \A m \in Msg : tag'.on[m] = IF tag.there /\ m \in hand \cap mail THEN "person" ELSE tag.on[m]
  BY <1>1, TaggingKeeps
<1>3. LayerTypeOK'
  BY <1>1, <1>2 DEF DInv, LayerTypeOK
<1>4. NothingInvented'
  BY <1>1, <1>2 DEF DInv, NothingInvented, Wearing
<1>5. PersonsAreLate'
  BY <1>1, <1>2, ZenonT(60) DEF DInv, PersonsAreLate, Weighed, LayerTypeOK, IsRun
<1>6. GraphKeeps
  BY <1>1 DEF GraphKeeps
<1>. QED  BY <1>3, <1>4, <1>5, <1>6, GraphKeepsInv

LEMMA TakeAwayInv ==
    ASSUME DInv, DeleteTag \/ \E m \in Msg : Untag(m) \/ Purge(m)
    PROVE  DInv'
<1>0. /\ tag \in [there : BOOLEAN, on : [Msg -> {"no", "person", "auto"}]]
      /\ layer \in [topics : SUBSET SUBSET Msg, about : SUBSET (Msg \X SUBSET Msg),
                    scored : [Msg -> SUBSET Msg], suggested : SUBSET Msg]
  BY DEF DInv, LayerTypeOK
<1>1. CASE DeleteTag
  <2>1. /\ UNCHANGED <<mail, hand, run, base, brought, late>>
        /\ tag' = [there |-> FALSE, on |-> [m \in Msg |-> "no"]]
        /\ layer' = [layer EXCEPT !.suggested = {}]
    BY <1>1 DEF DeleteTag, histVars
  <2>2. LayerTypeOK'
    BY <1>0, <2>1 DEF DInv, LayerTypeOK
  <2>3. NothingInvented' /\ PersonsAreLate'
    BY <1>0, <2>1, ZenonT(60) DEF DInv, NothingInvented, PersonsAreLate, Wearing, LayerTypeOK, IsRun
  <2>4. GraphKeeps
    BY <1>0, <2>1 DEF GraphKeeps
  <2>. QED  BY <2>2, <2>3, <2>4, GraphKeepsInv
<1>2. ASSUME NEW m \in Msg, Untag(m)  PROVE DInv'
  <2>1. /\ UNCHANGED <<mail, layer, hand, run, base, brought, late>>
        /\ tag' = [tag EXCEPT !.on[m] = "no"]
    BY <1>2 DEF Untag, histVars
  <2>2. /\ tag' \in [there : BOOLEAN, on : [Msg -> {"no", "person", "auto"}]]
        /\ tag'.there = tag.there
        /\ \A n \in Msg : tag'.on[n] = IF n = m THEN "no" ELSE tag.on[n]
    BY <1>0, <2>1
  <2>3. LayerTypeOK'
    BY <2>1, <2>2 DEF DInv, LayerTypeOK
  <2>4. NothingInvented' /\ PersonsAreLate'
    BY <2>1, <2>2 DEF DInv, NothingInvented, PersonsAreLate, Wearing, LayerTypeOK, IsRun
  <2>5. GraphKeeps
    BY <2>1 DEF GraphKeeps
  <2>. QED  BY <2>3, <2>4, <2>5, GraphKeepsInv
<1>3. ASSUME NEW m \in Msg, Purge(m)  PROVE DInv'
  <2>1. /\ UNCHANGED <<hand, run, base, brought, late>> /\ mail' = mail \ {m}
        /\ tag' = [tag EXCEPT !.on[m] = "no"]
        /\ layer' = [layer EXCEPT !.about = {a \in layer.about : a[1] # m}, !.scored[m] = {},
                                  !.suggested = layer.suggested \ {m}]
    BY <1>3 DEF Purge, histVars
  <2>2. /\ tag' \in [there : BOOLEAN, on : [Msg -> {"no", "person", "auto"}]]
        /\ tag'.there = tag.there
        /\ \A n \in Msg : tag'.on[n] = IF n = m THEN "no" ELSE tag.on[n]
    BY <1>0, <2>1
  <2>3. /\ layer' \in [topics : SUBSET SUBSET Msg, about : SUBSET (Msg \X SUBSET Msg),
                       scored : [Msg -> SUBSET Msg], suggested : SUBSET Msg]
        /\ layer'.topics = layer.topics /\ layer'.about = {a \in layer.about : a[1] # m}
        /\ \A n \in Msg : layer'.scored[n] = IF n = m THEN {} ELSE layer.scored[n]
        /\ layer'.suggested = layer.suggested \ {m}
    BY <1>0, <2>1
  <2>4. LayerTypeOK'
    BY <2>1, <2>2, <2>3 DEF DInv, LayerTypeOK
  <2>5. NothingInvented'
    <3>1. /\ ~tag'.there => Wearing' = {} /\ layer'.suggested = {}
          /\ Wearing' \subseteq mail' /\ layer'.suggested \subseteq mail'
      <4>1. Wearing' = Wearing \ {m}
        BY <2>2 DEF Wearing
      <4>2. /\ ~tag.there => Wearing = {} /\ layer.suggested = {}
            /\ Wearing \subseteq mail /\ layer.suggested \subseteq mail
        BY DEF DInv, NothingInvented
      <4>. QED  BY <4>1, <4>2, <2>1, <2>2, <2>3, ZenonT(60)
    <3>2. \A a \in layer'.about : a[1] \in mail' /\ a[2] \in layer'.topics
      BY <2>1, <2>3 DEF DInv, NothingInvented
    <3>3. \A n \in Msg \ mail' : layer'.scored[n] = {}
      BY <2>1, <2>3 DEF DInv, NothingInvented
    <3>. QED  BY <3>1, <3>2, <3>3 DEF NothingInvented
  <2>6. PersonsAreLate'
    BY <2>1, <2>2 DEF DInv, PersonsAreLate, LayerTypeOK, IsRun
  <2>7. GraphKeeps
    BY <2>1, <2>3 DEF GraphKeeps
  <2>. QED  BY <2>4, <2>5, <2>6, <2>7, GraphKeepsInv
<1>. QED  BY <1>1, <1>2, <1>3

-----------------------------------------------------------------------------
(* Between rebuilds: a worker that brings mail, or looks whether to queue.  *)

Moved(r, at) ==
    /\ DOMAIN run' = Runner /\ \A q \in Runner \ {r} : run'[q] = run[q]
    /\ IsRun(run'[r]) /\ run'[r].at = at
    /\ run'[r].facts = run[r].facts /\ run'[r].alone = run[r].alone

LEMMA ToMoves ==
    ASSUME DInv, NEW r \in Runner
    PROVE  \A n : To(r, n) => Moved(r, n) /\ run'[r].offers = run[r].offers
<1>. SUFFICES ASSUME NEW n, To(r, n)
     PROVE  Moved(r, n) /\ run'[r].offers = run[r].offers
  OBVIOUS
<1>1. DOMAIN run = Runner /\ IsRun(run[r])
  BY DEF DInv, LayerTypeOK
<1>2. /\ DOMAIN run' = Runner /\ \A q \in Runner \ {r} : run'[q] = run[q]
      /\ run'[r] = [run[r] EXCEPT !.at = n]
  BY <1>1 DEF To
<1>. QED  BY <1>1, <1>2 DEF Moved, IsRun

Resting == {"idle", "followUp", "enqueue"}

LEMMA RestingInv ==
    ASSUME DInv, NEW w \in Worker,
           FollowUp(w) \/ QueueRebuild(w) \/ \E m \in Msg : DeltaArchives(w, m)
    PROVE  DInv'
<1>. USE DEF DInv
<1>1. /\ UNCHANGED <<tag, layer, hand, base, late>> /\ run[w].at \in Resting
      /\ mail \subseteq mail' /\ mail' \subseteq Msg
  BY DEF FollowUp, QueueRebuild, DeltaArchives, Resting, histVars, LayerTypeOK
<1>2. PICK n \in Resting : To(w, n)
  BY DEF FollowUp, QueueRebuild, DeltaArchives, Resting
<1>3. Moved(w, n)
  BY <1>2, ToMoves
<1>4. /\ DOMAIN brought' = Msg /\ Seen \subseteq Seen'
      /\ mail' \subseteq Seen' /\ mail' \cap Seen = mail
  <2>1. mail \subseteq Seen /\ DOMAIN brought = Msg /\ Seen \subseteq Msg
    BY DEF NothingForeseen, LayerTypeOK, Seen
  <2>2. CASE FollowUp(w) \/ QueueRebuild(w)
    <3>1. mail' = mail /\ (brought' = brought \/ Skips)
      BY <2>2 DEF FollowUp, QueueRebuild, histVars
    <3>2. DOMAIN brought' = Msg /\ \A m \in Msg : brought[m] # "no" => brought'[m] # "no"
      BY <2>1, <3>1 DEF Skips
    <3>. QED  BY <2>1, <3>1, <3>2 DEF Seen
  <2>3. ASSUME NEW m \in Msg, DeltaArchives(w, m)
        PROVE  /\ DOMAIN brought' = Msg /\ Seen \subseteq Seen'
               /\ mail' \subseteq Seen' /\ mail' \cap Seen = mail
    <3>1. /\ m \notin Archived /\ brought[m] = "no" /\ mail' = mail \cup {m}
          /\ brought' = [brought EXCEPT ![m] = "due"]
      BY <2>3 DEF DeltaArchives
    <3>2. DOMAIN brought' = Msg /\ brought'[m] = "due"
          /\ \A k \in Msg : k # m => brought'[k] = brought[k]
      BY <2>1, <3>1
    <3>. QED  BY <2>1, <3>1, <3>2 DEF Seen
  <2>. QED  BY <2>2, <2>3
<1>5. LayerTypeOK'
  BY <1>1, <1>3, <1>4 DEF LayerTypeOK, Moved
<1>6. NothingInvented'
  BY <1>1 DEF NothingInvented, Wearing
<1>7. PersonsAreLate'
  BY <1>1, <1>3 DEF PersonsAreLate, Moved, Resting
<1>8. \A f \in SUBSET Seen : f \cap mail' = f \cap mail
  BY <1>1, <1>4
<1>9. NothingForeseen'
  BY <1>1, <1>3, <1>4 DEF NothingForeseen, Moved
<1>10. Progress'
  <2>. SUFFICES ASSUME base.by # None  PROVE Progress'
    BY <1>1 DEF Progress
  <2>1. base.by \in Runner \ {w}
    BY <1>1 DEF Progress, Resting, AtWork
  <2>2. run'[base.by] = run[base.by] /\ run[base.by].facts \in SUBSET Seen
    BY <1>3, <2>1 DEF Moved, NothingForeseen
  <2>3. run[base.by].facts \cap mail' = run[base.by].facts \cap mail
    BY <1>8, <2>2
  <2>. QED  BY <1>1, <2>1, <2>2, <2>3 DEF Progress
<1>11. ByItself'
  BY <1>1, <1>3 DEF ByItself, Moved, Resting, AtWork
<1>12. SucceededMeansWhole'
  <2>1. base.facts \cap mail' = base.facts \cap mail
    BY <1>8 DEF NothingForeseen
  <2>. QED  BY <1>1, <2>1 DEF SucceededMeansWhole
<1>13. NothingLeftOver'
  BY <1>1 DEF NothingLeftOver
<1>. QED  BY <1>5, <1>6, <1>7, <1>9, <1>10, <1>11, <1>12, <1>13

(* A rebuild starts, is left behind by its worker, or ends. *)

LEMMA StartsInv ==
    ASSUME DInv, NEW r \in Runner, run[r].at = "idle", NEW job, Starts(r, job),
           UNCHANGED <<mail, tag, layer, hand, histVars>>
    PROVE  DInv'
<1>. USE DEF DInv
<1>1. UNCHANGED <<mail, tag, layer, hand, base, brought, late>>
  BY DEF histVars
<1>2. /\ DOMAIN run' = Runner
      /\ run'[r].at = "delete" /\ IsRun(run'[r]) /\ run'[r].facts = {}
      /\ run'[r].alone => Rebuilding = {}
  BY DEF Starts, IdleRun, IsRun
<1>3. \A q \in Runner : q # r =>
        /\ run'[q].at = run[q].at /\ run'[q].facts = run[q].facts
        /\ run'[q].offers = run[q].offers /\ ~run'[q].alone /\ IsRun(run'[q])
  <2>. SUFFICES ASSUME NEW q \in Runner, q # r
       PROVE  /\ run'[q].at = run[q].at /\ run'[q].facts = run[q].facts
              /\ run'[q].offers = run[q].offers /\ ~run'[q].alone /\ IsRun(run'[q])
    OBVIOUS
  <2>1. run'[q] = [run[q] EXCEPT !.alone = FALSE] /\ IsRun(run[q])
    BY DEF Starts, LayerTypeOK
  <2>. QED  BY <2>1 DEF IsRun
<1>4. LayerTypeOK'
  BY <1>1, <1>2, <1>3 DEF LayerTypeOK
<1>5. NothingInvented' /\ PersonsAreLate' /\ SucceededMeansWhole' /\ NothingLeftOver'
  BY <1>1, <1>2, <1>3 DEF NothingInvented, Wearing, PersonsAreLate,
     SucceededMeansWhole, NothingLeftOver
<1>6. NothingForeseen'
  BY <1>1, <1>2, <1>3 DEF NothingForeseen, Seen
<1>7. Progress'
  BY <1>1, <1>2, <1>3 DEF Progress, AtWork
<1>8. run'[r].alone => \A q \in Runner : run[q].at \notin AtWork
  BY <1>2 DEF Rebuilding, AtWork
<1>9. ByItself'
  BY <1>1, <1>2, <1>3, <1>8 DEF ByItself, AtWork, HasTopics, HasRead, HasScored, HasAbout
<1>. QED  BY <1>4, <1>5, <1>6, <1>7, <1>9

LEMMA LeftBehindInv ==
    ASSUME DInv, NEW w \in Worker, NEW b \in Beside, LeftBehind(w, b)
    PROVE  DInv'
<1>. USE DEF DInv
<1>1. /\ UNCHANGED <<mail, tag, layer, hand, brought, late>>
      /\ run' = [run EXCEPT ![b] = run[w], ![w] = IdleRun]
      /\ base' = IF base.by = w THEN [base EXCEPT !.by = b] ELSE base
      /\ run[b].at = "idle" /\ run[w].at \in AtWork
  BY DEF LeftBehind, Rebuilding, AtWork
<1>2. /\ w # b /\ DOMAIN run' = Runner /\ run'[b] = run[w] /\ run'[w] = IdleRun
      /\ \A q \in Runner \ {b, w} : run'[q] = run[q]
  BY <1>1 DEF LayerTypeOK
<1>3. IsRun(IdleRun) /\ IdleRun.at = "idle" /\ IdleRun.facts = {}
  BY DEF IsRun, IdleRun
<1>4. /\ base' \in [by : Runner \cup {None}, end : {"running", "done", "half"},
                    facts : SUBSET Msg, alone : BOOLEAN]
      /\ base'.end = base.end /\ base'.facts = base.facts /\ base'.alone = base.alone
      /\ base'.by = IF base.by = w THEN b ELSE base.by
  BY <1>1 DEF LayerTypeOK
<1>5. base.by # b
  BY <1>1 DEF Progress, AtWork
<1>6. LayerTypeOK'
  BY <1>1, <1>2, <1>3, <1>4 DEF LayerTypeOK
<1>7. NothingInvented' /\ PersonsAreLate' /\ SucceededMeansWhole' /\ NothingLeftOver'
  BY <1>1, <1>2, <1>3, <1>4 DEF NothingInvented, Wearing, PersonsAreLate,
     SucceededMeansWhole, NothingLeftOver
<1>8. NothingForeseen'
  BY <1>1, <1>2, <1>3, <1>4 DEF NothingForeseen, Seen
<1>9. Progress'
  <2>1. CASE base.by = w
    BY <1>1, <1>2, <1>4, <2>1 DEF Progress
  <2>2. CASE base.by # w
    BY <1>1, <1>2, <1>4, <1>5, <2>2 DEF Progress
  <2>. QED  BY <2>1, <2>2
<1>10. ByItself'
  <2>1. \A q \in Runner \ {b, w} : run[w].alone => run[q].at \notin AtWork
    BY <1>1 DEF ByItself
  <2>2. \A q \in Runner \ {b, w} : run[q].at \in AtWork \cup {"done"} => ~run[q].alone
    BY <1>1 DEF ByItself
  <2>. QED  BY <1>1, <1>2, <1>3, <1>4, <2>1, <2>2 DEF ByItself, AtWork
<1>. QED  BY <1>6, <1>7, <1>8, <1>9, <1>10

LEMMA EndsInv ==
    ASSUME DInv, NEW r \in Runner, Finish(r) \/ StopBetweenStages(r) \/ Fail(r)
    PROVE  DInv'
<1>. USE DEF DInv
<1>1. /\ UNCHANGED <<mail, tag, layer, hand, brought, late>>
      /\ run' = [run EXCEPT ![r] = IdleRun]
  BY DEF Finish, StopBetweenStages, Fail, Ends
<1>2. /\ DOMAIN run' = Runner /\ run'[r] = IdleRun /\ \A q \in Runner \ {r} : run'[q] = run[q]
      /\ IsRun(IdleRun) /\ IdleRun.at = "idle" /\ IdleRun.facts = {}
  BY <1>1 DEF LayerTypeOK, IsRun, IdleRun
<1>3. \/ base.by # r /\ base' = base
      \/ base.by = r /\ base' = [base EXCEPT !.end = "half", !.by = None, !.alone = run[r].alone]
      \/ /\ base.by = r /\ run[r].at = "done"
         /\ base' = [base EXCEPT !.end = "done", !.by = None, !.alone = run[r].alone]
  BY DEF Finish, StopBetweenStages, Fail, Ends
<1>4. base \in [by : Runner \cup {None}, end : {"running", "done", "half"},
                facts : SUBSET Msg, alone : BOOLEAN] /\ run[r].alone \in BOOLEAN
  BY DEF LayerTypeOK, IsRun
<1>5. \/ base.by # r /\ base' = base
      \/ base.by = r /\ base'.end = "half" /\ base'.by = None
      \/ /\ base.by = r /\ run[r].at = "done"
         /\ base'.by = None /\ base'.alone = run[r].alone
  BY <1>3, <1>4
<1>6. /\ base' \in [by : Runner \cup {None}, end : {"running", "done", "half"},
                    facts : SUBSET Msg, alone : BOOLEAN]
      /\ base'.facts = base.facts
  BY <1>3, <1>4
<1>7. LayerTypeOK'
  BY <1>1, <1>2, <1>6 DEF LayerTypeOK
<1>8. NothingInvented' /\ PersonsAreLate' /\ NothingForeseen'
  BY <1>1, <1>2, <1>6 DEF NothingInvented, Wearing, PersonsAreLate, NothingForeseen, Seen
<1>9. Progress'
  BY <1>1, <1>2, <1>5 DEF Progress
<1>10. SucceededMeansWhole' /\ NothingLeftOver'
  <2>1. CASE base.by # r /\ base' = base
    BY <1>1, <2>1 DEF SucceededMeansWhole, NothingLeftOver
  <2>2. CASE base.by = r /\ base'.end = "half"
    BY <2>2 DEF SucceededMeansWhole, NothingLeftOver
  <2>3. CASE base.by = r /\ run[r].at = "done" /\ base'.alone = run[r].alone
    <3>1. /\ base.facts = run[r].facts /\ Topics(base.facts) \subseteq layer.topics
          /\ (base.facts \cap mail) \X Topics(base.facts) \subseteq layer.about
          /\ \A m \in base.facts \cap mail : layer.scored[m] # {}
      BY <2>3 DEF Progress, LayerTypeOK, HasRead, HasTopics, HasAbout, HasScored
    <3>2. run[r].alone => /\ layer.topics = Topics(base.facts)
                          /\ \A m \in Msg : layer.scored[m] \in {{}, base.facts}
      BY <2>3, <3>1 DEF ByItself, HasRead, HasTopics, HasAbout, HasScored
    <3>. QED  BY <1>1, <1>6, <2>3, <3>1, <3>2 DEF SucceededMeansWhole, NothingLeftOver
  <2>. QED  BY <1>5, <2>1, <2>2, <2>3
<1>11. ByItself'
  <2>1. /\ \A q \in Runner : run'[q].alone /\ run'[q].at \in AtWork \cup {"done"} => q # r
        /\ \A q \in Runner : run'[q].at \in AtWork => q # r /\ run[q].at \in AtWork
    BY <1>2 DEF AtWork
  <2>2. CASE base.by # r /\ base' = base
    BY <1>1, <1>2, <2>1, <2>2 DEF ByItself
  <2>3. CASE base.by = r /\ base'.end = "half"
    BY <1>1, <1>2, <2>1, <2>3 DEF ByItself, AtWork
  <2>4. CASE base.by = r /\ run[r].at = "done" /\ base'.alone = run[r].alone
    <3>1. run[r].alone => \A q \in Runner \ {r} : run[q].at \notin AtWork
      BY <2>4 DEF ByItself
    <3>2. \A q \in Runner \ {r} : ~(run[q].alone /\ run[q].at \in AtWork \cup {"done"})
                                  \/ run[q].at = "delete"
      BY <2>4 DEF ByItself
    <3>. QED  BY <1>1, <1>2, <2>1, <2>4, <3>1, <3>2 DEF ByItself, AtWork
  <2>. QED  BY <1>5, <2>2, <2>3, <2>4
<1>. QED  BY <1>7, <1>8, <1>9, <1>10, <1>11

-----------------------------------------------------------------------------
(* A rebuild's stages.  First what it takes away.                           *)

(* Whoever is at work has nobody beside it that is alone. *)
LEMMA NobodyElseAlone ==
    ASSUME DInv, NEW r \in Runner, run[r].at \in AtWork
    PROVE  /\ \A q \in Runner \ {r} : run[q].alone => run[q].at \notin AtWork \cup {"done"}
           /\ run[r].alone => \A q \in Runner \ {r} : run[q].at \notin AtWork
           /\ base.end = "done" /\ base.alone => run[r].at = "delete"
BY DEF DInv, ByItself

LEMMA TakenAway ==
    ASSUME DInv, NEW r \in Runner, Delete(r) \/ DeleteEdges(r) \/ Clear(r)
    PROVE  DInv'
<1>. USE DEF DInv
<1>1. /\ UNCHANGED <<mail, tag, hand, brought, late>> /\ Claims(r)
      /\ run[r].at \in {"delete", "edges", "clear"}
  BY DEF Delete, DeleteEdges, Clear
<1>2. /\ base'.by = r /\ base'.end = "running" /\ base'.facts = {} /\ ~base'.alone
      /\ base' \in [by : Runner \cup {None}, end : {"running", "done", "half"},
                    facts : SUBSET Msg, alone : BOOLEAN]
  BY <1>1 DEF Claims
<1>3. /\ layer \in [topics : SUBSET SUBSET Msg, about : SUBSET (Msg \X SUBSET Msg),
                    scored : [Msg -> SUBSET Msg], suggested : SUBSET Msg]
      /\ DOMAIN run = Runner /\ IsRun(run[r])
  BY DEF LayerTypeOK
<1>4. PICK n \in {"delete", "edges", "clear", "read", "stop"} :
        /\ Moved(r, n)
        /\ n = "delete" => run[r].at = "delete"
        /\ n = "edges" => run[r].at = "delete" /\ layer'.topics = {}
        /\ n = "clear" => run[r].at = "edges" /\ layer'.topics = layer.topics
        /\ n = "read" => /\ run[r].at = "clear" /\ layer'.topics = layer.topics
                         /\ \A m \in Msg : layer'.scored[m] = {}
  <2>1. CASE Delete(r) /\ UNCHANGED run
    BY <1>3, <2>1 DEF Delete, Moved
  <2>2. CASE Delete(r) /\ layer.topics = {} /\ To(r, "edges") /\ UNCHANGED layer
    BY <2>2, ToMoves DEF Delete
  <2>3. CASE DeleteEdges(r)
    <3>1. Moved(r, "clear") /\ layer'.topics = layer.topics /\ run[r].at = "edges"
      BY <1>3, <2>3, ToMoves DEF DeleteEdges
    <3>. QED  BY <3>1
  <2>4. CASE Clear(r)
    <3>1. PICK k \in {"read", "stop"} : To(r, k)
      BY <2>4 DEF Clear, After
    <3>2. Moved(r, k)
      BY <3>1, ToMoves
    <3>3. /\ layer'.topics = layer.topics /\ run[r].at = "clear"
          /\ \A m \in Msg : layer'.scored[m] = {}
      BY <1>3, <2>4 DEF Clear
    <3>. QED  BY <3>2, <3>3
  <2>. QED  BY <2>1, <2>2, <2>3, <2>4 DEF Delete
<1>5. /\ layer' \in [topics : SUBSET SUBSET Msg, about : SUBSET (Msg \X SUBSET Msg),
                     scored : [Msg -> SUBSET Msg], suggested : SUBSET Msg]
      /\ layer'.suggested \subseteq layer.suggested
      /\ \A a \in layer'.about : a \in layer.about /\ (a[2] \in layer.topics => a[2] \in layer'.topics)
      /\ \A m \in Msg : layer'.scored[m] \in {layer.scored[m], {}}
  <2>1. CASE UNCHANGED layer
    BY <1>3, <2>1
  <2>2. ASSUME NEW t \in layer.topics,
               layer' = [layer EXCEPT !.topics = layer.topics \ {t},
                                      !.about = {a \in layer.about : a[2] # t}]
        PROVE  /\ layer' \in [topics : SUBSET SUBSET Msg, about : SUBSET (Msg \X SUBSET Msg),
                              scored : [Msg -> SUBSET Msg], suggested : SUBSET Msg]
               /\ layer'.suggested \subseteq layer.suggested
               /\ \A a \in layer'.about :
                    a \in layer.about /\ (a[2] \in layer.topics => a[2] \in layer'.topics)
               /\ \A m \in Msg : layer'.scored[m] \in {layer.scored[m], {}}
    BY <1>3, <2>2
  <2>3. CASE layer' = [layer EXCEPT !.suggested = {}]
    BY <1>3, <2>3
  <2>4. CASE layer' = [layer EXCEPT !.scored = [m \in Msg |-> {}]]
    BY <1>3, <2>4
  <2>. QED  BY <2>1, <2>2, <2>3, <2>4 DEF Delete, DeleteEdges, Clear
<1>6. LayerTypeOK'
  BY <1>1, <1>2, <1>4, <1>5 DEF LayerTypeOK, Moved
<1>7. NothingInvented'
  BY <1>1, <1>5 DEF NothingInvented, Wearing
<1>8. PersonsAreLate' /\ NothingForeseen'
  BY <1>1, <1>2, <1>4 DEF PersonsAreLate, NothingForeseen, Moved, Seen
<1>9. Progress'
  BY <1>2, <1>4 DEF Progress, Moved, AtWork, HasRead, HasTopics, HasAbout, HasScored
<1>10. SucceededMeansWhole' /\ NothingLeftOver'
  BY <1>2 DEF SucceededMeansWhole, NothingLeftOver
<1>11. ByItself'
  <2>1. /\ \A q \in Runner \ {r} : run'[q] = run[q]
        /\ run'[r].at = n /\ run'[r].alone = run[r].alone
    BY <1>4 DEF Moved
  <2>2. /\ \A q \in Runner \ {r} : run[q].alone => run[q].at \notin AtWork \cup {"done"}
        /\ run[r].alone => \A q \in Runner \ {r} : run[q].at \notin AtWork
    BY <1>1, NobodyElseAlone DEF AtWork
  <2>3. run[r].alone => (n = "clear" => layer'.topics = {}) /\ (n = "read" => layer'.topics = {})
    BY <1>4 DEF ByItself, AtWork
  <2>. QED  BY <1>2, <1>4, <2>1, <2>2, <2>3
            DEF ByItself, AtWork, HasRead, HasTopics, HasAbout, HasScored
<1>. QED  BY <1>6, <1>7, <1>8, <1>9, <1>10, <1>11

(* The ground truth is read. *)
LEMMA ReadInv ==
    ASSUME DInv, NEW r \in Runner, Read(r)
    PROVE  DInv'
<1>. USE DEF DInv
<1>1. /\ UNCHANGED <<mail, tag, layer, hand, brought, late>> /\ run[r].at = "read"
      /\ base' = IF base.by = r THEN [base EXCEPT !.facts = mail] ELSE base
      /\ mail \subseteq Msg
  BY DEF Read, LayerTypeOK
<1>2. PICK n \in {"topics", "stop"} :
        run' = [run EXCEPT ![r].at = n, ![r].facts = mail]
  BY DEF Read, After
<1>3. /\ DOMAIN run' = Runner /\ \A q \in Runner \ {r} : run'[q] = run[q]
      /\ IsRun(run'[r]) /\ run'[r].at = n /\ run'[r].facts = mail
      /\ run'[r].alone = run[r].alone
  <2>1. DOMAIN run = Runner /\ IsRun(run[r])
    BY DEF LayerTypeOK
  <2>2. /\ DOMAIN run' = Runner /\ \A q \in Runner \ {r} : run'[q] = run[q]
        /\ run'[r] = [run[r] EXCEPT !.at = n, !.facts = mail]
    BY <1>2, <2>1
  <2>. QED  BY <1>1, <2>1, <2>2 DEF IsRun
<1>4. /\ base' \in [by : Runner \cup {None}, end : {"running", "done", "half"},
                    facts : SUBSET Msg, alone : BOOLEAN]
      /\ base'.by = base.by /\ base'.end = base.end /\ base'.alone = base.alone
      /\ base'.facts = IF base.by = r THEN mail ELSE base.facts
  BY <1>1 DEF LayerTypeOK
<1>5. LayerTypeOK'
  BY <1>1, <1>3, <1>4 DEF LayerTypeOK
<1>6. NothingInvented' /\ PersonsAreLate' /\ NothingForeseen'
  BY <1>1, <1>3, <1>4 DEF NothingInvented, Wearing, PersonsAreLate, NothingForeseen, Seen
<1>7. Progress'
  BY <1>1, <1>3, <1>4 DEF Progress, AtWork, HasRead, HasTopics, HasAbout, HasScored
<1>8. SucceededMeansWhole' /\ NothingLeftOver'
  <2>1. base.by = r => base.end = "running"
    BY <1>1 DEF Progress, LayerTypeOK
  <2>. QED  BY <1>1, <1>4, <2>1 DEF SucceededMeansWhole, NothingLeftOver
<1>9. ByItself'
  BY <1>1, <1>3, <1>4 DEF ByItself, AtWork, HasRead, HasTopics, HasAbout, HasScored
<1>. QED  BY <1>5, <1>6, <1>7, <1>8, <1>9

(* From there on it only adds, and only what follows from what it read. *)
Adds(r, n) ==
    /\ UNCHANGED <<mail, base, brought>>
    /\ run[r].at \in HasRead \ {"done"}
    /\ Moved(r, n)
    /\ layer'.topics \in {layer.topics, layer.topics \cup Topics(run[r].facts)}
    /\ layer.about \subseteq layer'.about
    /\ \A m \in Msg : \/ layer'.scored[m] = layer.scored[m]
                      \/ m \in run[r].facts /\ layer'.scored[m] = run[r].facts

(* What it must have got done, and what must not be there, to stand at n. *)
Behind(r, n) ==
    LET x == run[r]
    IN  /\ n \in HasTopics => Topics(x.facts) \subseteq layer'.topics
        /\ n \in HasAbout => (x.facts \cap mail) \X Topics(x.facts) \subseteq layer'.about
        /\ n \in HasScored => \A m \in x.facts \cap mail : layer'.scored[m] # {}

ByItsOwn(r, n) ==
    /\ n \in {"about", "score"} => \A m \in Msg : layer'.scored[m] = {}
    /\ n \in HasTopics => layer'.topics = Topics(run[r].facts)
    /\ n \in HasScored => \A m \in Msg : layer'.scored[m] \in {{}, run[r].facts}

LEMMA AddsInv ==
    ASSUME DInv, NEW r \in Runner, NEW n \in HasTopics \cup {"stop"}, Adds(r, n),
           base.by = r => Behind(r, n), run[r].alone => ByItsOwn(r, n),
           LayerTypeOK', NothingInvented', PersonsAreLate'
    PROVE  DInv'
<1>. USE DEF DInv
<1>1. /\ UNCHANGED <<mail, base, brought>> /\ DOMAIN run' = Runner
      /\ \A q \in Runner \ {r} : run'[q] = run[q]
      /\ IsRun(run'[r]) /\ run'[r].at = n /\ run'[r].facts = run[r].facts
      /\ run'[r].alone = run[r].alone /\ run[r].at \in AtWork
  BY DEF Adds, Moved, AtWork, HasRead
<1>2. layer.topics \subseteq layer'.topics /\ layer.about \subseteq layer'.about
  BY DEF Adds
<1>3. \A m \in Msg : layer.scored[m] # {} => layer'.scored[m] # {}
  BY DEF Adds
<1>4. NothingForeseen'
  BY <1>1 DEF NothingForeseen, Seen
<1>5. base.facts \subseteq Msg /\ mail \subseteq Msg /\ \A q \in Runner : run[q].facts \subseteq Msg
  BY DEF LayerTypeOK, IsRun
<1>6. Progress'
  <2>1. CASE base.by = r
    <3>1. base.end = "running" /\ base.facts = run[r].facts
      BY <2>1 DEF Progress, Adds, HasRead
    <3>. QED  BY <1>1, <2>1, <3>1
              DEF Progress, Behind, AtWork, HasRead, HasTopics, HasAbout, HasScored
  <2>2. CASE base.by # r
    <3>. SUFFICES ASSUME base.by # None  PROVE Progress'
      BY <1>1 DEF Progress
    <3>1. base.by \in Runner \ {r} /\ run'[base.by] = run[base.by]
      BY <1>1, <2>2 DEF Progress
    <3>. QED  BY <1>1, <1>2, <1>3, <1>5, <3>1 DEF Progress
  <2>. QED  BY <2>1, <2>2
<1>7. /\ \A q \in Runner \ {r} : run[q].alone => run[q].at \notin AtWork \cup {"done"}
      /\ ~(base.end = "done" /\ base.alone)
  BY <1>1, NobodyElseAlone DEF Adds, HasRead
<1>8. ByItself'
  <2>1. run[r].alone => base.by = r /\ \A q \in Runner \ {r} : run[q].at \notin AtWork
    BY <1>1 DEF ByItself, Adds, HasRead, AtWork
  <2>. QED  BY <1>1, <1>7, <2>1
            DEF ByItself, ByItsOwn, AtWork, HasRead, HasTopics, HasAbout, HasScored
<1>9. SucceededMeansWhole' /\ NothingLeftOver'
  BY <1>1, <1>2, <1>3, <1>5, <1>7 DEF SucceededMeansWhole, NothingLeftOver
<1>. QED  BY <1>4, <1>6, <1>8, <1>9

LEMMA WriteTopicsInv ==
    ASSUME DInv, NEW r \in Runner, WriteTopics(r)
    PROVE  DInv'
<1>. USE DEF DInv
<1>. DEFINE new == Topics(run[r].facts)
<1>1. /\ UNCHANGED <<mail, tag, hand, base, brought, late>> /\ run[r].at = "topics"
      /\ Moved(r, "about")
      /\ layer' = [layer EXCEPT !.topics = layer.topics \cup new]
  BY ToMoves DEF WriteTopics
<1>2. new \subseteq SUBSET Msg
  <2>1. IsRun(run[r])
    BY DEF LayerTypeOK
  <2>2. run[r].facts \in SUBSET Msg
    BY <2>1 DEF IsRun
  <2>. QED  BY <2>2, TopicsType
<1>3. /\ layer' \in [topics : SUBSET SUBSET Msg, about : SUBSET (Msg \X SUBSET Msg),
                     scored : [Msg -> SUBSET Msg], suggested : SUBSET Msg]
      /\ layer'.topics = layer.topics \cup new /\ layer'.about = layer.about
      /\ layer'.scored = layer.scored /\ layer'.suggested = layer.suggested
  <2>. HIDE DEF new
  <2>. QED  BY <1>1, <1>2 DEF LayerTypeOK
<1>4. Adds(r, "about")
  BY <1>1, <1>3 DEF Adds, HasRead
<1>5. base.by = r => Behind(r, "about")
  BY <1>3 DEF Behind, HasRead, HasTopics, HasAbout, HasScored
<1>6. run[r].alone => ByItsOwn(r, "about")
  <2>1. run[r].alone => layer.topics = {} /\ \A m \in Msg : layer.scored[m] = {}
    BY <1>1 DEF ByItself, AtWork
  <2>. QED  BY <1>3, <2>1 DEF ByItsOwn, HasRead, HasTopics, HasAbout, HasScored
<1>7. LayerTypeOK'
  BY <1>1, <1>3 DEF LayerTypeOK, Moved
<1>8. NothingInvented' /\ PersonsAreLate'
  BY <1>1, <1>3 DEF NothingInvented, Wearing, PersonsAreLate, Moved
<1>9. "about" \in HasTopics
  BY DEF HasTopics, HasRead
<1>. QED  BY <1>4, <1>5, <1>6, <1>7, <1>8, <1>9, AddsInv

LEMMA WriteAboutInv ==
    ASSUME DInv, NEW r \in Runner, WriteAbout(r)
    PROVE  DInv'
<1>. USE DEF DInv
<1>. DEFINE new == (run[r].facts \cap mail) \X (Topics(run[r].facts) \cap layer.topics)
<1>1. PICK n \in {"score", "stop"} : To(r, n)
  BY DEF WriteAbout, After
<1>2. /\ UNCHANGED <<mail, tag, hand, base, brought, late>> /\ run[r].at = "about"
      /\ Moved(r, n)
      /\ layer' = [layer EXCEPT !.about = layer.about \cup new]
  BY <1>1, ToMoves DEF WriteAbout
<1>3. /\ new \subseteq Msg \X SUBSET Msg
      /\ \A a \in new : a[1] \in mail /\ a[2] \in layer.topics
  BY DEF LayerTypeOK
<1>4. /\ layer' \in [topics : SUBSET SUBSET Msg, about : SUBSET (Msg \X SUBSET Msg),
                     scored : [Msg -> SUBSET Msg], suggested : SUBSET Msg]
      /\ layer'.topics = layer.topics /\ layer'.about = layer.about \cup new
      /\ layer'.scored = layer.scored /\ layer'.suggested = layer.suggested
  <2>. HIDE DEF new
  <2>. QED  BY <1>2, <1>3 DEF LayerTypeOK
<1>5. Adds(r, n)
  BY <1>2, <1>4 DEF Adds, HasRead
<1>6. base.by = r => Behind(r, n)
  <2>1. base.by = r => Topics(run[r].facts) \subseteq layer.topics
    BY <1>2 DEF Progress, LayerTypeOK, HasTopics, HasRead
  <2>. QED  BY <1>4, <2>1 DEF Behind, HasRead, HasTopics, HasAbout, HasScored
<1>7. run[r].alone => ByItsOwn(r, n)
  <2>1. run[r].alone => /\ layer.topics = Topics(run[r].facts)
                        /\ \A m \in Msg : layer.scored[m] = {}
    BY <1>2 DEF ByItself, AtWork, HasRead, HasTopics
  <2>. QED  BY <1>4, <2>1 DEF ByItsOwn, HasRead, HasTopics, HasAbout, HasScored
<1>8. LayerTypeOK'
  BY <1>2, <1>4 DEF LayerTypeOK, Moved
<1>9. NothingInvented'
  <2>. HIDE DEF new
  <2>. QED  BY <1>2, <1>3, <1>4 DEF NothingInvented, Wearing
<1>10. PersonsAreLate'
  BY <1>2 DEF PersonsAreLate, Moved
<1>11. n \in HasTopics \cup {"stop"}
  BY DEF HasTopics, HasRead
<1>. QED  BY <1>5, <1>6, <1>7, <1>8, <1>9, <1>10, <1>11, AddsInv

LEMMA ScoreInv ==
    ASSUME DInv, NEW r \in Runner, Score(r)
    PROVE  DInv'
<1>. USE DEF DInv
<1>1. PICK n \in {"tagged", "stop"} : To(r, n)
  BY DEF Score, After
<1>2. /\ UNCHANGED <<mail, tag, hand, base, brought, late>> /\ run[r].at = "score"
      /\ Moved(r, n) /\ run[r].facts \subseteq Msg /\ mail \subseteq Msg
  BY <1>1, ToMoves DEF Score, LayerTypeOK, IsRun
<1>3. /\ layer' \in [topics : SUBSET SUBSET Msg, about : SUBSET (Msg \X SUBSET Msg),
                     scored : [Msg -> SUBSET Msg], suggested : SUBSET Msg]
      /\ layer'.topics = layer.topics /\ layer'.about = layer.about
      /\ layer'.suggested = layer.suggested
      /\ \A m \in Msg : layer'.scored[m] =
            IF m \in run[r].facts \cap mail THEN run[r].facts ELSE layer.scored[m]
  BY <1>2 DEF Score, LayerTypeOK
<1>4. Adds(r, n)
  BY <1>2, <1>3 DEF Adds, HasRead
<1>5. base.by = r => Behind(r, n)
  <2>1. base.by = r => /\ Topics(run[r].facts) \subseteq layer.topics
                       /\ (run[r].facts \cap mail) \X Topics(run[r].facts) \subseteq layer.about
    BY <1>2 DEF Progress, LayerTypeOK, HasAbout, HasTopics, HasRead
  <2>2. \A m \in run[r].facts \cap mail : layer'.scored[m] # {}
    BY <1>2, <1>3
  <2>. QED  BY <1>3, <2>1, <2>2 DEF Behind
<1>6. run[r].alone => ByItsOwn(r, n)
  <2>1. run[r].alone => /\ layer.topics = Topics(run[r].facts)
                        /\ \A m \in Msg : layer.scored[m] = {}
    BY <1>2 DEF ByItself, AtWork, HasRead, HasTopics
  <2>. QED  BY <1>3, <2>1 DEF ByItsOwn, HasRead, HasTopics, HasAbout, HasScored
<1>7. LayerTypeOK'
  BY <1>2, <1>3 DEF LayerTypeOK, Moved
<1>8. NothingInvented' /\ PersonsAreLate'
  BY <1>2, <1>3 DEF NothingInvented, Wearing, PersonsAreLate, Moved
<1>9. n \in HasTopics \cup {"stop"}
  BY DEF HasTopics, HasRead
<1>. QED  BY <1>4, <1>5, <1>6, <1>7, <1>8, <1>9, AddsInv

(* Behind the scores only suggestions and tags are written. *)
LEMMA BehindTheScores ==
    ASSUME DInv, NEW r \in Runner, NEW n \in {"suggest", "weigh", "accept", "done", "stop"},
           run[r].at \in {"tagged", "suggest", "weigh", "accept"}, Moved(r, n),
           UNCHANGED <<mail, base, brought>>, layer'.topics = layer.topics,
           layer'.about = layer.about, layer'.scored = layer.scored,
           LayerTypeOK', NothingInvented', PersonsAreLate'
    PROVE  DInv'
<1>. USE DEF DInv
<1>1. Adds(r, n)
  BY DEF Adds, HasRead
<1>2. base.by = r => Behind(r, n)
  BY DEF Progress, LayerTypeOK, Behind, HasRead, HasTopics, HasAbout, HasScored
<1>3. run[r].alone => ByItsOwn(r, n)
  BY DEF ByItself, ByItsOwn, AtWork, HasRead, HasTopics, HasAbout, HasScored
<1>4. n \in HasTopics \cup {"stop"}
  BY DEF HasTopics, HasRead
<1>. QED  BY <1>1, <1>2, <1>3, <1>4, AddsInv

LEMMA OffersType == \A f \in SUBSET Msg : Offers(f) \subseteq Msg
<1>. SUFFICES ASSUME NEW f \in SUBSET Msg, NEW m \in Offers(f)  PROVE m \in Msg
  OBVIOUS
<1>1. PICK t \in Topics(f) : m \in t \ Wearing
  BY DEF Offers
<1>2. t \subseteq Msg
  BY <1>1 DEF Topics
<1>. QED  BY <1>1, <1>2

LEMMA ReadTaggedInv ==
    ASSUME DInv, NEW r \in Runner, ReadTagged(r) \/ Weigh(r)
    PROVE  DInv'
<1>. USE DEF DInv
<1>1. UNCHANGED <<mail, tag, layer, hand, base, brought, late>>
      /\ run[r].at \in {"tagged", "weigh"}
  BY DEF ReadTagged, Weigh
<1>2. PICK n \in {"suggest", "accept"}, o \in SUBSET Msg :
        /\ run' = [run EXCEPT ![r].at = n, ![r].offers = o]
        /\ n = "accept" => o \cap Wearing = {}
  <2>1. CASE ReadTagged(r)
    <3>1. run[r].facts \in SUBSET Msg
      BY DEF LayerTypeOK, IsRun
    <3>2. Offers(run[r].facts) \in SUBSET Msg
      BY <3>1, OffersType
    <3>. QED  BY <2>1, <3>2 DEF ReadTagged
  <2>2. CASE Weigh(r)
    <3>1. layer.suggested \ Wearing \in SUBSET Msg
      BY DEF LayerTypeOK
    <3>. QED  BY <2>2, <3>1 DEF Weigh
  <2>. QED  BY <2>1, <2>2
<1>3. Moved(r, n) /\ run'[r].offers = o
  <2>1. DOMAIN run = Runner /\ IsRun(run[r])
    BY DEF LayerTypeOK
  <2>2. /\ DOMAIN run' = Runner /\ \A q \in Runner \ {r} : run'[q] = run[q]
        /\ run'[r] = [run[r] EXCEPT !.at = n, !.offers = o]
    BY <1>2, <2>1
  <2>. QED  BY <2>1, <2>2 DEF Moved, IsRun
<1>4. LayerTypeOK' /\ NothingInvented'
  BY <1>1, <1>3 DEF LayerTypeOK, Moved, NothingInvented, Wearing
<1>5. PersonsAreLate'
  BY <1>1, <1>2, <1>3 DEF PersonsAreLate, Moved, Wearing
<1>. QED  BY <1>1, <1>3, <1>4, <1>5, BehindTheScores

LEMMA WriteSuggestedInv ==
    ASSUME DInv, NEW r \in Runner, WriteSuggested(r)
    PROVE  DInv'
<1>. USE DEF DInv
<1>1. PICK n \in {"weigh", "done", "stop"} : To(r, n)
  BY DEF WriteSuggested, After
<1>2. /\ UNCHANGED <<mail, tag, hand, base, brought, late>> /\ run[r].at = "suggest"
      /\ Moved(r, n) /\ mail \subseteq Msg
  BY <1>1, ToMoves DEF WriteSuggested, LayerTypeOK
<1>3. PICK new \in SUBSET mail :
        /\ ~tag.there => new = {}
        /\ layer' = [layer EXCEPT !.suggested = layer.suggested \cup new]
  BY DEF WriteSuggested
<1>4. /\ layer' \in [topics : SUBSET SUBSET Msg, about : SUBSET (Msg \X SUBSET Msg),
                     scored : [Msg -> SUBSET Msg], suggested : SUBSET Msg]
      /\ layer'.topics = layer.topics /\ layer'.about = layer.about
      /\ layer'.scored = layer.scored /\ layer'.suggested = layer.suggested \cup new
  BY <1>2, <1>3 DEF LayerTypeOK
<1>5. LayerTypeOK'
  BY <1>2, <1>4 DEF LayerTypeOK, Moved
<1>6. NothingInvented'
  BY <1>2, <1>3, <1>4 DEF NothingInvented, Wearing
<1>7. PersonsAreLate'
  BY <1>2 DEF PersonsAreLate, Moved
<1>. QED  BY <1>2, <1>4, <1>5, <1>6, <1>7, BehindTheScores

LEMMA AcceptInv ==
    ASSUME DInv, NEW r \in Runner, Accept(r)
    PROVE  DInv'
<1>. USE DEF DInv
<1>1. /\ UNCHANGED <<mail, layer, hand, base, brought, late>> /\ run[r].at = "accept"
      /\ Moved(r, "done")
  BY ToMoves DEF Accept
<1>2. /\ tag' \in [there : BOOLEAN, on : [Msg -> {"no", "person", "auto"}]]
      /\ tag'.there = tag.there
      /\ \A m \in Msg : tag'.on[m] =
            IF tag.there /\ m \in run[r].offers \cap mail THEN "auto" ELSE tag.on[m]
  BY TaggingKeeps DEF Accept
<1>3. LayerTypeOK'
  BY <1>1, <1>2 DEF LayerTypeOK, Moved
<1>4. NothingInvented'
  BY <1>1, <1>2 DEF NothingInvented, Wearing
<1>5. PersonsAreLate'
  <2>. SUFFICES ASSUME NEW q \in Runner, run'[q].at = "accept", NEW m \in run'[q].offers,
                       tag'.on[m] = "person"
       PROVE  m \in late'
    BY DEF PersonsAreLate
  <2>1. q # r /\ run'[q] = run[q]
    BY <1>1 DEF Moved
  <2>2. m \in Msg
    BY <2>1 DEF LayerTypeOK, IsRun
  <2>3. tag.on[m] = "person"
    BY <1>2, <2>2
  <2>. QED  BY <1>1, <2>1, <2>3 DEF PersonsAreLate
<1>. QED  BY <1>1, <1>3, <1>4, <1>5, BehindTheScores

-----------------------------------------------------------------------------
LEMMA StageInv ==
    ASSUME DInv, NEW r \in Runner, Stage(r)
    PROVE  DInv'
<1>1. CASE Delete(r) \/ DeleteEdges(r) \/ Clear(r)
  BY <1>1, TakenAway
<1>2. CASE Read(r)
  BY <1>2, ReadInv
<1>3. CASE WriteTopics(r)
  BY <1>3, WriteTopicsInv
<1>4. CASE WriteAbout(r)
  BY <1>4, WriteAboutInv
<1>5. CASE Score(r)
  BY <1>5, ScoreInv
<1>6. CASE ReadTagged(r) \/ Weigh(r)
  BY <1>6, ReadTaggedInv
<1>7. CASE WriteSuggested(r)
  BY <1>7, WriteSuggestedInv
<1>8. CASE Accept(r)
  BY <1>8, AcceptInv
<1>9. CASE Finish(r) \/ StopBetweenStages(r) \/ Fail(r)
  BY <1>9, EndsInv
<1>. QED  BY <1>1, <1>2, <1>3, <1>4, <1>5, <1>6, <1>7, <1>8, <1>9 DEF Stage

LEMMA StepInv == DInv /\ [Next]_vars => DInv'
<1>. SUFFICES ASSUME DInv, [Next]_vars  PROVE DInv'
  OBVIOUS
<1>1. ASSUME NEW r \in Runner, Stage(r)  PROVE DInv'
  BY <1>1, StageInv
<1>2. ASSUME NEW w \in Worker, WorkerStep(w)  PROVE DInv'
  <2>1. CASE Claim(w)
    <3>1. PICK i : Starts(w, i)
      BY <2>1 DEF Claim
    <3>2. run[w].at = "idle" /\ UNCHANGED <<mail, tag, layer, hand, histVars>>
      BY <2>1 DEF Claim
    <3>. QED  BY <3>1, <3>2, StartsInv
  <2>2. CASE FollowUp(w) \/ QueueRebuild(w) \/ \E m \in Msg : DeltaArchives(w, m)
    BY <2>2, RestingInv
  <2>3. CASE \E b \in Beside : LeftBehind(w, b)
    BY <2>3, LeftBehindInv
  <2>. QED  BY <1>2, <2>1, <2>2, <2>3 DEF WorkerStep
<1>3. ASSUME NEW b \in Beside, RunFromShell(b)  PROVE DInv'
  <2>1. run[b].at = "idle" /\ Starts(b, 0) /\ UNCHANGED <<mail, tag, layer, hand, histVars>>
    BY <1>3 DEF RunFromShell
  <2>. QED  BY <2>1, StartsInv
<1>4. CASE PersonStep
  <2>1. \/ PressRebuild \/ PanelQueues \/ \E i \in DOMAIN jobs : CancelRebuild(i)
        \/ \E t \in layer.topics \cup {{}} : Promote(t)
        \/ \E ids \in {{m} : m \in mail} \cup {layer.suggested} : PickByHand(ids)
        \/ HandTags
        \/ DeleteTag \/ \E m \in Msg : Untag(m) \/ Purge(m)
    BY <1>4 DEF PersonStep
  <2>. QED  BY <2>1, PeopleAskInv, HandTagsInv, TakeAwayInv
<1>5. CASE UNCHANGED vars
  <2>1. UNCHANGED <<mail, tag, layer, hand, run, base, brought, late>>
    BY <1>5 DEF vars, histVars
  <2>2. hand' \subseteq Msg
    BY <2>1 DEF DInv, LayerTypeOK
  <2>. QED  BY <2>1, <2>2, AskingInv
<1>. QED  BY <1>1, <1>2, <1>3, <1>4, <1>5 DEF Next

LEMMA Holds == Spec => []DInv
BY InitInv, StepInv, PTL DEF Spec

-----------------------------------------------------------------------------
(* Whatever people delete while a rebuild holds it in memory stays deleted:  *)
(* no tag, topic, score or edge is on mail or on a tag that is gone.         *)
THEOREM DeletedStaysDeleted == Spec => []NothingInvented
<1>1. DInv => NothingInvented
  BY DEF DInv
<1>. QED  BY Holds, <1>1, PTL

(* A rebuild that ends well leaves the layer whole, however many ran beside  *)
(* it, in whatever order their statements fell, and whoever was cancelled.   *)
THEOREM EndedWellIsWhole == Spec => []SucceededMeansWhole
<1>1. DInv => SucceededMeansWhole
  BY DEF DInv
<1>. QED  BY Holds, <1>1, PTL

(* A rebuild that was alone leaves nothing of the ones before it.            *)
THEOREM AloneLeavesNothingElse == Spec => []NothingLeftOver
<1>1. DInv => NothingLeftOver
  BY DEF DInv
<1>. QED  BY Holds, <1>1, PTL

LEMMA PersonsTagStays ==
    ASSUME DInv, [Next]_vars, NEW m \in Msg \ late, tag.on[m] = "person"
    PROVE  tag'.on[m] # "auto"
<1>. USE DEF DInv
<1>1. ASSUME NEW r \in Runner, Accept(r)  PROVE tag'.on[m] # "auto"
  <2>1. run[r].at = "accept" /\ tag' = Tagging(run[r].offers, "auto")
    BY <1>1 DEF Accept
  <2>2. m \notin run[r].offers
    BY <2>1 DEF PersonsAreLate
  <2>. QED  BY <2>1, <2>2, TaggingKeeps
<1>2. CASE HandTags
  BY <1>2, TaggingKeeps DEF HandTags
<1>3. CASE DeleteTag
  BY <1>3 DEF DeleteTag
<1>4. ASSUME NEW k \in Msg, Untag(k) \/ Purge(k)  PROVE tag'.on[m] # "auto"
  <2>1. tag' = [tag EXCEPT !.on[k] = "no"]
    BY <1>4 DEF Untag, Purge
  <2>. QED  BY <2>1 DEF LayerTypeOK
<1>5. ASSUME NEW t, Promote(t)  PROVE tag'.on[m] # "auto"
  <2>1. tag' = [tag EXCEPT !.there = TRUE]
    BY <1>5 DEF Promote
  <2>. QED  BY <2>1 DEF LayerTypeOK
<1>6. CASE tag' = tag
  BY <1>6
<1>7. ASSUME NEW r \in Runner, Stage(r)  PROVE Accept(r) \/ tag' = tag
  <2>1. CASE Delete(r) \/ DeleteEdges(r) \/ Clear(r) \/ Read(r)
    BY <2>1 DEF Delete, DeleteEdges, Clear, Read
  <2>2. CASE WriteTopics(r) \/ WriteAbout(r) \/ Score(r) \/ ReadTagged(r)
    BY <2>2 DEF WriteTopics, WriteAbout, Score, ReadTagged
  <2>3. CASE WriteSuggested(r) \/ Weigh(r)
    BY <2>3 DEF WriteSuggested, Weigh
  <2>4. CASE Finish(r) \/ StopBetweenStages(r) \/ Fail(r)
    BY <2>4 DEF Finish, StopBetweenStages, Fail, Ends
  <2>. QED  BY <1>7, <2>1, <2>2, <2>3, <2>4 DEF Stage
<1>8. ASSUME NEW w \in Worker, WorkerStep(w)  PROVE tag' = tag
  BY <1>8 DEF WorkerStep, Claim, FollowUp, QueueRebuild, DeltaArchives, LeftBehind
<1>9. ASSUME NEW b \in Beside, RunFromShell(b)  PROVE tag' = tag
  BY <1>9 DEF RunFromShell
<1>10. CASE \/ PressRebuild \/ PanelQueues \/ \E i \in DOMAIN jobs : CancelRebuild(i)
            \/ \E ids \in {{k} : k \in mail} \cup {layer.suggested} : PickByHand(ids)
  BY <1>10 DEF PressRebuild, PanelQueues, CancelRebuild, PickByHand
<1>11. CASE PersonStep
  BY <1>2, <1>3, <1>4, <1>5, <1>10, <1>11 DEF PersonStep
<1>12. CASE UNCHANGED vars
  BY <1>12 DEF vars
<1>. QED  BY <1>1, <1>6, <1>7, <1>8, <1>9, <1>11, <1>12 DEF Next

(* Auto-accept takes no decision from a person, unless it was made between   *)
(* auto-accept's own read and its write.                                     *)
THEOREM PersonsTagIsKept == Spec => PersonDecidesFirst
<1>1. DInv /\ [Next]_vars =>
        [\A m \in Msg \ late : tag.on[m] = "person" => tag'.on[m] # "auto"]_vars
  BY PersonsTagStays
<1>. QED  BY Holds, <1>1, PTL DEF Spec, PersonDecidesFirst
-----------------------------------------------------------------------------
(* Mail a delta brought.  Nothing but a rebuild scores it, and every rebuild *)
(* starts by taking all scores away; what carries the proof is who will come *)
(* by: a rebuild that has not read yet, one that has read the mail and not   *)
(* scored it yet, a job that waits, or a worker about to queue one.          *)
JobStates == {"queued", "running", "succeeded", "failed", "cancelled"}
JobRow    == [state : JobStates, asked : BOOLEAN]

WillScore(r, m) ==
    \/ run[r].at \in {"delete", "edges", "clear", "read"}
    \/ run[r].at \in {"topics", "about", "score"} /\ m \in run[r].facts

Derives(m) == layer.scored[m] # {} \/ \E r \in Runner : WillScore(r, m)

(* While nothing fails, workers and running jobs go together.                *)
Manned ==
    /\ jobs \in Seq(JobRow)
    /\ \A r \in Runner : run[r].at \in AtWork \cup {"done", "stop"} \cup Resting
    /\ \A b \in Beside : run[b].at \notin {"followUp", "enqueue"} /\ run[b].job = 0
    /\ \A w \in Worker : run[w].at \in Resting => run[w].job = 0
    /\ \A w \in Worker : run[w].at \notin Resting =>
         run[w].job \in DOMAIN jobs /\ jobs[run[w].job].state = "running"
    /\ \A v, w \in Worker : run[v].job = run[w].job => v = w \/ run[v].job = 0
    /\ \A i \in DOMAIN jobs : jobs[i].state = "running" => \E w \in Worker : run[w].job = i
    /\ \A i \in DOMAIN jobs : jobs[i].asked => jobs[i].state \in {"running", "cancelled"}
    /\ \A r \in Runner : run[r].at = "stop" => Asked(r)

Unasked == \A i \in DOMAIN jobs : ~jobs[i].asked /\ jobs[i].state # "cancelled"

Covered ==
    /\ \A r \in Runner : run[r].at \in HasScored =>
         \A m \in run[r].facts \cap mail : Derives(m)
    /\ \A m \in mail : brought[m] = "due" =>
         \/ Derives(m)
         \/ \E i \in DOMAIN jobs : jobs[i].state = "queued"
         \/ \E w \in Worker : run[w].at \in {"followUp", "enqueue"}

FInv ==
    /\ faults \in Nat
    /\ faults = 0 => Manned
    /\ faults = 0 /\ Unasked => Covered

LEMMA Rows ==
    ASSUME jobs \in Seq(JobRow)
    PROVE  /\ Len(jobs) \in Nat /\ DOMAIN jobs = 1..Len(jobs)
           /\ 0 \notin DOMAIN jobs /\ Len(jobs) + 1 \notin DOMAIN jobs /\ Len(jobs) + 1 # 0
           /\ \A i \in DOMAIN jobs : jobs[i] \in JobRow
<1>1. Len(jobs) \in Nat /\ DOMAIN jobs = 1..Len(jobs)
  BY LenProperties
<1>2. \A i \in DOMAIN jobs : jobs[i] \in JobRow
  BY <1>1, ElementOfSeq
<1>. QED  BY <1>1, <1>2

LEMMA RowAdded ==
    ASSUME jobs \in Seq(JobRow), Enqueue
    PROVE  /\ jobs' \in Seq(JobRow) /\ DOMAIN jobs' = DOMAIN jobs \cup {Len(jobs) + 1}
           /\ \A i \in DOMAIN jobs : jobs'[i] = jobs[i]
           /\ jobs'[Len(jobs) + 1].state = "queued" /\ ~jobs'[Len(jobs) + 1].asked
<1>. DEFINE row == [state |-> "queued", asked |-> FALSE]
<1>1. row \in JobRow /\ row.state = "queued" /\ ~row.asked
  BY DEF JobRow, JobStates
<1>2. jobs' = Append(jobs, row)
  BY DEF Enqueue
<1>. HIDE DEF row
<1>3. /\ jobs' \in Seq(JobRow) /\ Len(jobs') = Len(jobs) + 1
      /\ \A i \in 1..Len(jobs) : jobs'[i] = jobs[i]
      /\ jobs'[Len(jobs) + 1] = row
  BY <1>1, <1>2, AppendProperties
<1>4. Len(jobs) \in Nat /\ DOMAIN jobs = 1..Len(jobs) /\ DOMAIN jobs' = 1..Len(jobs')
  BY <1>3, LenProperties
<1>. QED  BY <1>1, <1>3, <1>4

LEMMA RowChanged ==
    ASSUME jobs \in Seq(JobRow), NEW i \in DOMAIN jobs, NEW row \in JobRow,
           jobs' = [jobs EXCEPT ![i] = row]
    PROVE  /\ jobs' \in Seq(JobRow) /\ DOMAIN jobs' = DOMAIN jobs /\ jobs'[i] = row
           /\ \A j \in DOMAIN jobs : j # i => jobs'[j] = jobs[j]
<1>1. Len(jobs) \in Nat /\ DOMAIN jobs = 1..Len(jobs)
  BY LenProperties
<1>2. /\ jobs' \in Seq(JobRow) /\ Len(jobs') = Len(jobs)
      /\ \A j \in 1..Len(jobs) : jobs'[j] = IF j = i THEN row ELSE jobs[j]
  BY <1>1, ExceptSeq
<1>3. DOMAIN jobs' = 1..Len(jobs')
  BY <1>2, LenProperties
<1>. QED  BY <1>1, <1>2, <1>3

LEMMA StateSet ==
    ASSUME jobs \in Seq(JobRow), NEW i \in DOMAIN jobs, NEW state \in JobStates,
           jobs' = [jobs EXCEPT ![i].state = state]
    PROVE  /\ jobs' \in Seq(JobRow) /\ DOMAIN jobs' = DOMAIN jobs
           /\ jobs'[i].state = state /\ jobs'[i].asked = jobs[i].asked
           /\ \A j \in DOMAIN jobs : j # i => jobs'[j] = jobs[j]
<1>. DEFINE row == [jobs[i] EXCEPT !.state = state]
<1>1. jobs[i] \in JobRow
  BY Rows
<1>2. row \in JobRow /\ row.state = state /\ row.asked = jobs[i].asked
  BY <1>1 DEF JobRow
<1>3. jobs' = [jobs EXCEPT ![i] = row]
  OBVIOUS
<1>. HIDE DEF row
<1>. QED  BY <1>2, <1>3, RowChanged

LEMMA AskedSet ==
    ASSUME jobs \in Seq(JobRow), NEW i \in DOMAIN jobs,
           jobs' = [jobs EXCEPT ![i].asked = TRUE]
    PROVE  /\ jobs' \in Seq(JobRow) /\ DOMAIN jobs' = DOMAIN jobs
           /\ jobs'[i].state = jobs[i].state /\ jobs'[i].asked
           /\ \A j \in DOMAIN jobs : j # i => jobs'[j] = jobs[j]
<1>. DEFINE row == [jobs[i] EXCEPT !.asked = TRUE]
<1>1. jobs[i] \in JobRow
  BY Rows
<1>2. row \in JobRow /\ row.state = jobs[i].state /\ row.asked
  BY <1>1 DEF JobRow
<1>3. jobs' = [jobs EXCEPT ![i] = row]
  OBVIOUS
<1>. HIDE DEF row
<1>. QED  BY <1>2, <1>3, RowChanged
LEMMA Quietly ==
    ASSUME Manned, jobs' = jobs \/ Enqueue,
           \A r \in Runner : /\ run'[r].job = run[r].job
                             /\ run'[r].at \in AtWork \cup {"done", "stop"} \cup Resting
                             /\ run'[r].at = "stop" => Asked(r),
           \A w \in Worker : run'[w].at \in Resting <=> run[w].at \in Resting,
           \A b \in Beside : run'[b].at \notin {"followUp", "enqueue"}
    PROVE  Manned'
<1>1. /\ jobs' \in Seq(JobRow) /\ DOMAIN jobs \subseteq DOMAIN jobs'
      /\ \A i \in DOMAIN jobs : jobs'[i] = jobs[i]
      /\ \A i \in DOMAIN jobs' \ DOMAIN jobs : jobs'[i].state = "queued" /\ ~jobs'[i].asked
  BY RowAdded DEF Manned
<1>2. \A r \in Runner : Asked(r) => run[r].job \in DOMAIN jobs
  BY DEF Manned, Asked
<1>3. \A r \in Runner : Asked(r) => Asked(r)'
  BY <1>1, <1>2 DEF Asked
<1>. QED  BY <1>1, <1>3 DEF Manned

LEMMA StageMoves ==
    ASSUME DInv, Manned, faults \in Nat, faults' = faults, NEW r \in Runner, Stage(r)
    PROVE  \/ Finish(r) \/ StopBetweenStages(r)
           \/ /\ jobs' = jobs /\ run[r].at \in AtWork /\ \A q \in Runner \ {r} : run'[q] = run[q]
              /\ run'[r].job = run[r].job /\ run'[r].at \in AtWork \cup {"done", "stop"}
              /\ run'[r].at = "stop" => Asked(r)
<1>0. DOMAIN run = Runner /\ IsRun(run[r]) /\ ~Fail(r)
  BY DEF DInv, LayerTypeOK, Fail
<1>1. ASSUME NEW n, To(r, n)
      PROVE  run'[r].job = run[r].job /\ run'[r].at = n /\ \A q \in Runner \ {r} : run'[q] = run[q]
  <2>1. run'[r] = [run[r] EXCEPT !.at = n] /\ \A q \in Runner \ {r} : run'[q] = run[q]
    BY <1>0, <1>1 DEF To
  <2>. QED  BY <1>0, <2>1 DEF IsRun
<1>2. CASE Delete(r)
  <2>1. jobs' = jobs /\ run[r].at = "delete"
    BY <1>2 DEF Delete
  <2>2. CASE To(r, "edges")
    BY <1>1, <2>1, <2>2 DEF AtWork
  <2>3. CASE UNCHANGED run
    BY <2>1, <2>3 DEF AtWork
  <2>. QED  BY <1>2, <2>2, <2>3 DEF Delete
<1>3. CASE DeleteEdges(r) \/ WriteTopics(r) \/ Accept(r)
  BY <1>1, <1>3 DEF DeleteEdges, WriteTopics, Accept, AtWork
<1>4. CASE Clear(r) \/ WriteAbout(r) \/ Score(r)
  BY <1>1, <1>4 DEF Clear, WriteAbout, Score, After, AtWork
<1>5. CASE WriteSuggested(r)
  BY <1>1, <1>5 DEF WriteSuggested, After, AtWork
<1>6. CASE Read(r)
  <2>1. run'[r] = [run[r] EXCEPT !.at = After(r, "topics"), !.facts = mail]
        /\ \A q \in Runner \ {r} : run'[q] = run[q]
    BY <1>0, <1>6 DEF Read
  <2>2. run'[r].job = run[r].job /\ run'[r].at = After(r, "topics")
    BY <1>0, <2>1 DEF IsRun
  <2>3. jobs' = jobs /\ run[r].at = "read"
    BY <1>6 DEF Read
  <2>4. /\ After(r, "topics") \in {"topics", "stop"}
        /\ After(r, "topics") = "stop" => Asked(r)
    BY DEF After
  <2>. QED  BY <2>1, <2>2, <2>3, <2>4 DEF AtWork
<1>7. CASE ReadTagged(r) \/ Weigh(r)
  <2>1. PICK n, o : n \in {"suggest", "accept"}
                      /\ run' = [run EXCEPT ![r].at = n, ![r].offers = o]
    BY <1>7 DEF ReadTagged, Weigh
  <2>2. run'[r] = [run[r] EXCEPT !.at = n, !.offers = o] /\ \A q \in Runner \ {r} : run'[q] = run[q]
    BY <1>0, <2>1
  <2>3. run'[r].job = run[r].job /\ run'[r].at = n
    BY <1>0, <2>2 DEF IsRun
  <2>4. jobs' = jobs /\ run[r].at \in {"tagged", "weigh"}
    BY <1>7 DEF ReadTagged, Weigh
  <2>. QED  BY <2>1, <2>2, <2>3, <2>4 DEF AtWork
<1>. QED  BY <1>0, <1>2, <1>3, <1>4, <1>5, <1>6, <1>7 DEF Stage

LEMMA EndsManned ==
    ASSUME DInv, Manned, NEW r \in Runner, Finish(r) \/ StopBetweenStages(r)
    PROVE  /\ Manned' /\ DOMAIN jobs' = DOMAIN jobs
           /\ \A i \in DOMAIN jobs :
                \/ jobs'[i] = jobs[i]
                \/ jobs[i].state = "running" /\ jobs'[i].asked = jobs[i].asked
           /\ run'[r].at = "idle" /\ run'[r].facts = {}
           /\ \A q \in Runner \ {r} : run'[q] = run[q]
<1>1. PICK state \in {"succeeded", "cancelled"} :
        /\ jobs' = Settled(r, state) /\ (Asked(r) => state = "cancelled")
        /\ run' = [run EXCEPT ![r] = IdleRun]
  BY DEF Finish, StopBetweenStages, Ends
<1>2. /\ run'[r] = IdleRun /\ \A q \in Runner \ {r} : run'[q] = run[q]
      /\ IdleRun.at = "idle" /\ IdleRun.job = 0 /\ IdleRun.facts = {}
  BY <1>1 DEF DInv, LayerTypeOK, IdleRun
<1>3. run[r].at \in {"done", "stop"}
  BY DEF Finish, StopBetweenStages
<1>4. CASE r \in Beside
  <2>1. jobs' = jobs
    BY <1>1, <1>4 DEF Settled
  <2>2. run'[r].job = run[r].job
    BY <1>2, <1>4 DEF Manned
  <2>3. \A q \in Runner : /\ run'[q].job = run[q].job
                          /\ run'[q].at \in AtWork \cup {"done", "stop"} \cup Resting
                          /\ run'[q].at = "stop" => Asked(q)
    BY <1>2, <2>2 DEF Manned, Resting
  <2>4. /\ \A w \in Worker : run'[w].at \in Resting <=> run[w].at \in Resting
        /\ \A b \in Beside : run'[b].at \notin {"followUp", "enqueue"}
    BY <1>2, <1>4 DEF Manned
  <2>. QED  BY <1>2, <2>1, <2>3, <2>4, Quietly
<1>5. CASE r \in Worker
  <2>. DEFINE i == run[r].job
  <2>1. i \in DOMAIN jobs /\ jobs[i].state = "running" /\ i # 0
    BY <1>3, <1>5, Rows DEF Manned, Resting
  <2>2. jobs' = [jobs EXCEPT ![i].state = state]
    BY <1>1, <1>5, <2>1 DEF Settled
  <2>3. Asked(r) <=> jobs[i].asked
    BY <2>1 DEF Asked
  <2>. HIDE DEF i
  <2>4. /\ jobs' \in Seq(JobRow) /\ DOMAIN jobs' = DOMAIN jobs
        /\ jobs'[i].state = state /\ jobs'[i].asked = jobs[i].asked
        /\ \A j \in DOMAIN jobs : j # i => jobs'[j] = jobs[j]
    BY <2>1, <2>2, StateSet DEF Manned, JobStates
  <2>5. \A w \in Worker \ {r} : run[w].job # i
    BY <1>5, <2>1 DEF Manned, i
  <2>6. \A q \in Runner \ {r} : Asked(q) => run[q].job \in DOMAIN jobs
    BY DEF Manned, Asked
  <2>7. \A q \in Runner \ {r} : Asked(q) => Asked(q)'
    BY <1>2, <2>4, <2>6 DEF Asked
  <2>8. Manned'
    <3>1. \A j \in DOMAIN jobs : jobs'[j].state = "running" => \E w \in Worker : run'[w].job = j
      <4>. SUFFICES ASSUME NEW j \in DOMAIN jobs, jobs'[j].state = "running"
                    PROVE  \E w \in Worker : run'[w].job = j
        OBVIOUS
      <4>1. j # i /\ jobs[j].state = "running"
        BY <2>4
      <4>2. PICK w \in Worker : run[w].job = j
        BY <4>1 DEF Manned
      <4>. QED  BY <1>2, <4>1, <4>2 DEF i
    <3>2. \A j \in DOMAIN jobs : jobs'[j].asked => jobs'[j].state \in {"running", "cancelled"}
      BY <1>1, <2>3, <2>4 DEF Manned
    <3>3. \A w \in Worker : run'[w].at \notin Resting =>
            run'[w].job \in DOMAIN jobs /\ jobs'[run'[w].job].state = "running"
      BY <1>2, <2>4, <2>5 DEF Manned, Resting
    <3>4. \A v, w \in Worker : run'[v].job = run'[w].job => v = w \/ run'[v].job = 0
      BY <1>2 DEF Manned
    <3>5. \A q \in Runner : run'[q].at = "stop" => Asked(q)'
      BY <1>2, <2>7 DEF Manned
    <3>6. /\ \A q \in Runner : run'[q].at \in AtWork \cup {"done", "stop"} \cup Resting
          /\ \A b \in Beside : run'[b].at \notin {"followUp", "enqueue"} /\ run'[b].job = 0
          /\ \A w \in Worker : run'[w].at \in Resting => run'[w].job = 0
      BY <1>2 DEF Manned, Resting
    <3>. QED  BY <2>4, <3>1, <3>2, <3>3, <3>4, <3>5, <3>6 DEF Manned
  <2>. QED  BY <1>2, <2>1, <2>4, <2>8
<1>. QED  BY <1>4, <1>5
(* What people asked for stays asked.                                        *)
LEMMA UnaskedBefore ==
    ASSUME jobs \in Seq(JobRow), DOMAIN jobs \subseteq DOMAIN jobs', Unasked',
           \A i \in DOMAIN jobs :
             \/ jobs'[i] = jobs[i]
             \/ jobs[i].state \in {"running", "queued"} /\ jobs'[i].asked = jobs[i].asked
             \/ jobs'[i].asked \/ jobs'[i].state = "cancelled"
    PROVE  Unasked
BY DEF Unasked

LEMMA StartsFacts ==
    ASSUME DInv, NEW r \in Runner, NEW job, Starts(r, job)
    PROVE  /\ run'[r].at = "delete" /\ run'[r].job = job /\ run'[r].facts = {}
           /\ \A q \in Runner \ {r} : /\ run'[q].at = run[q].at /\ run'[q].job = run[q].job
                                      /\ run'[q].facts = run[q].facts
<1>1. run'[r].at = "delete" /\ run'[r].job = job /\ run'[r].facts = {}
  BY DEF Starts, IdleRun
<1>2. ASSUME NEW q \in Runner \ {r}
      PROVE  /\ run'[q].at = run[q].at /\ run'[q].job = run[q].job
             /\ run'[q].facts = run[q].facts
  <2>1. run'[q] = [run[q] EXCEPT !.alone = FALSE] /\ IsRun(run[q])
    BY DEF Starts, DInv, LayerTypeOK
  <2>. QED  BY <2>1 DEF IsRun
<1>. QED  BY <1>1, <1>2

LEMMA ClaimManned ==
    ASSUME DInv, Manned, NEW w \in Worker, Claim(w)
    PROVE  Manned' /\ (Unasked' => Unasked)
<1>1. PICK i \in DOMAIN jobs :
        /\ jobs[i].state = "queued" /\ jobs' = [jobs EXCEPT ![i].state = "running"]
        /\ Starts(w, i)
  BY DEF Claim, Open
<1>2. /\ run'[w].at = "delete" /\ run'[w].job = i /\ run[w].at = "idle"
      /\ \A q \in Runner \ {w} : run'[q].at = run[q].at /\ run'[q].job = run[q].job
  BY <1>1, StartsFacts DEF Claim
<1>3. /\ jobs' \in Seq(JobRow) /\ DOMAIN jobs' = DOMAIN jobs
      /\ jobs'[i].state = "running" /\ jobs'[i].asked = jobs[i].asked
      /\ \A j \in DOMAIN jobs : j # i => jobs'[j] = jobs[j]
  BY <1>1, StateSet DEF Manned, JobStates
<1>4. \A v \in Worker : run[v].job # i
  <2>1. i # 0
    BY Rows DEF Manned
  <2>. QED  BY <1>1, <2>1 DEF Manned
<1>5. \A q \in Runner : Asked(q) => run[q].job \in DOMAIN jobs /\ q # w
  BY <1>2 DEF Manned, Asked, Resting
<1>6. \A q \in Runner : Asked(q) => Asked(q)'
  BY <1>2, <1>3, <1>5 DEF Asked
<1>7. \A j \in DOMAIN jobs : jobs'[j].state = "running" => \E v \in Worker : run'[v].job = j
  <2>. SUFFICES ASSUME NEW j \in DOMAIN jobs, j # i, jobs'[j].state = "running"
                PROVE  \E v \in Worker : run'[v].job = j
    BY <1>2
  <2>1. PICK v \in Worker : run[v].job = j
    BY <1>3 DEF Manned
  <2>2. v # w
    <3>1. j # 0 /\ run[w].job = 0
      BY <1>2, Rows DEF Manned, Resting
    <3>. QED  BY <2>1, <3>1
  <2>. QED  BY <1>2, <2>1, <2>2
<1>8. \A j \in DOMAIN jobs : jobs'[j].asked => jobs'[j].state \in {"running", "cancelled"}
  BY <1>3 DEF Manned
<1>9. \A v \in Worker : run'[v].at \notin Resting =>
        run'[v].job \in DOMAIN jobs /\ jobs'[run'[v].job].state = "running"
  BY <1>2, <1>3, <1>4 DEF Manned
<1>10. \A u, v \in Worker : run'[u].job = run'[v].job => u = v \/ run'[u].job = 0
  BY <1>2, <1>4 DEF Manned
<1>11. /\ \A q \in Runner : run'[q].at \in AtWork \cup {"done", "stop"} \cup Resting
       /\ \A b \in Beside : run'[b].at \notin {"followUp", "enqueue"} /\ run'[b].job = 0
       /\ \A v \in Worker : run'[v].at \in Resting => run'[v].job = 0
       /\ \A q \in Runner : run'[q].at = "stop" => Asked(q)'
  BY <1>2, <1>6 DEF Manned, AtWork, Resting
<1>12. Manned'
  BY <1>3, <1>7, <1>8, <1>9, <1>10, <1>11 DEF Manned
<1>13. Unasked' => Unasked
  BY <1>1, <1>3, UnaskedBefore DEF Manned
<1>. QED  BY <1>12, <1>13

LEMMA CancelManned ==
    ASSUME DInv, Manned, NEW i \in DOMAIN jobs, CancelRebuild(i)
    PROVE  Manned' /\ ~Unasked'
<1>0. jobs \in Seq(JobRow) /\ run' = run /\ jobs[i].state \in {"queued", "running"}
  BY DEF CancelRebuild, Open, Manned
<1>1. CASE jobs[i].state = "queued"
  <2>1. jobs' = [jobs EXCEPT ![i].state = "cancelled"]
    BY <1>1 DEF CancelRebuild
  <2>2. /\ jobs' \in Seq(JobRow) /\ DOMAIN jobs' = DOMAIN jobs
        /\ jobs'[i].state = "cancelled" /\ jobs'[i].asked = jobs[i].asked
        /\ \A j \in DOMAIN jobs : j # i => jobs'[j] = jobs[j]
    BY <1>0, <2>1, StateSet DEF JobStates
  <2>3. \A v \in Worker : run[v].job # i
    BY <1>1, Rows DEF Manned
  <2>4. \A q \in Runner : Asked(q) => Asked(q)'
    <3>1. \A q \in Runner : Asked(q) => run[q].job \in DOMAIN jobs
      BY DEF Manned, Asked
    <3>. QED  BY <1>0, <2>2, <3>1 DEF Asked
  <2>5. Manned'
    BY <1>0, <1>1, <2>2, <2>3, <2>4 DEF Manned
  <2>. QED  BY <2>2, <2>5 DEF Unasked
<1>2. CASE jobs[i].state = "running"
  <2>1. jobs' = [jobs EXCEPT ![i].asked = TRUE]
    BY <1>2 DEF CancelRebuild
  <2>2. /\ jobs' \in Seq(JobRow) /\ DOMAIN jobs' = DOMAIN jobs
        /\ jobs'[i].state = jobs[i].state /\ jobs'[i].asked
        /\ \A j \in DOMAIN jobs : j # i => jobs'[j] = jobs[j]
    BY <1>0, <2>1, AskedSet
  <2>4. \A q \in Runner : Asked(q) => Asked(q)'
    <3>1. \A q \in Runner : Asked(q) => run[q].job \in DOMAIN jobs
      BY DEF Manned, Asked
    <3>. QED  BY <1>0, <2>2, <3>1 DEF Asked
  <2>5. Manned'
    BY <1>0, <1>2, <2>2, <2>4 DEF Manned
  <2>. QED  BY <2>2, <2>5 DEF Unasked
<1>. QED  BY <1>0, <1>1, <1>2

LEMMA MannedStep ==
    ASSUME DInv, Manned, faults \in Nat, faults' = faults, Next
    PROVE  Manned' /\ (Unasked' => Unasked)
<1>0. jobs \in Seq(JobRow) /\ DOMAIN run = Runner /\ \A r \in Runner : IsRun(run[r])
  BY DEF Manned, DInv, LayerTypeOK
<1>1. ASSUME jobs' = jobs \/ Enqueue, Unasked' PROVE Unasked
  <2>1. DOMAIN jobs \subseteq DOMAIN jobs' /\ \A i \in DOMAIN jobs : jobs'[i] = jobs[i]
    BY <1>0, <1>1, RowAdded
  <2>. QED  BY <1>0, <1>1, <2>1, UnaskedBefore
<1>2. ASSUME NEW r \in Runner, Stage(r)  PROVE Manned' /\ (Unasked' => Unasked)
  <2>1. CASE Finish(r) \/ StopBetweenStages(r)
    <3>1. /\ Manned' /\ DOMAIN jobs' = DOMAIN jobs
          /\ \A i \in DOMAIN jobs :
               \/ jobs'[i] = jobs[i]
               \/ jobs[i].state = "running" /\ jobs'[i].asked = jobs[i].asked
      BY <2>1, EndsManned
    <3>. QED  BY <1>0, <3>1, UnaskedBefore
  <2>2. CASE /\ jobs' = jobs /\ run[r].at \in AtWork /\ \A q \in Runner \ {r} : run'[q] = run[q]
             /\ run'[r].job = run[r].job /\ run'[r].at \in AtWork \cup {"done", "stop"}
             /\ run'[r].at = "stop" => Asked(r)
    <3>1. run[r].at \notin Resting /\ run'[r].at \notin Resting
      BY <2>2 DEF AtWork, Resting
    <3>2. \A q \in Runner : /\ run'[q].job = run[q].job
                            /\ run'[q].at \in AtWork \cup {"done", "stop"} \cup Resting
                            /\ run'[q].at = "stop" => Asked(q)
      BY <2>2 DEF Manned
    <3>3. /\ \A w \in Worker : run'[w].at \in Resting <=> run[w].at \in Resting
          /\ \A b \in Beside : run'[b].at \notin {"followUp", "enqueue"}
      BY <2>2, <3>1 DEF Manned, Resting
    <3>. QED  BY <1>1, <2>2, <3>2, <3>3, Quietly
  <2>. QED  BY <1>2, <2>1, <2>2, StageMoves
<1>3. ASSUME NEW w \in Worker, WorkerStep(w)  PROVE Manned' /\ (Unasked' => Unasked)
  <2>1. CASE Claim(w)
    BY <2>1, ClaimManned
  <2>2. CASE FollowUp(w) \/ QueueRebuild(w) \/ \E m \in Msg : DeltaArchives(w, m)
    <3>1. PICK n \in Resting : To(w, n)
      BY <2>2 DEF FollowUp, QueueRebuild, DeltaArchives, Resting
    <3>2. run[w].at \in Resting /\ (jobs' = jobs \/ Enqueue)
      BY <2>2 DEF FollowUp, QueueRebuild, DeltaArchives, Resting
    <3>3. run'[w] = [run[w] EXCEPT !.at = n] /\ \A q \in Runner \ {w} : run'[q] = run[q]
      BY <1>0, <3>1 DEF To
    <3>4. run'[w].job = run[w].job /\ run'[w].at = n
      BY <1>0, <3>3 DEF IsRun
    <3>5. \A q \in Runner : /\ run'[q].job = run[q].job
                            /\ run'[q].at \in AtWork \cup {"done", "stop"} \cup Resting
                            /\ run'[q].at = "stop" => Asked(q)
      BY <3>3, <3>4 DEF Manned, Resting
    <3>6. /\ \A v \in Worker : run'[v].at \in Resting <=> run[v].at \in Resting
          /\ \A b \in Beside : run'[b].at \notin {"followUp", "enqueue"}
      BY <3>2, <3>3, <3>4 DEF Manned
    <3>. QED  BY <1>1, <3>2, <3>5, <3>6, Quietly
  <2>3. ASSUME NEW b \in Beside, LeftBehind(w, b)  PROVE FALSE
    BY <2>3 DEF LeftBehind
  <2>. QED  BY <1>3, <2>1, <2>2, <2>3 DEF WorkerStep
<1>4. ASSUME NEW b \in Beside, RunFromShell(b)  PROVE Manned' /\ (Unasked' => Unasked)
  <2>1. Starts(b, 0) /\ jobs' = jobs
    BY <1>4 DEF RunFromShell
  <2>2. /\ run'[b].at = "delete" /\ run'[b].job = run[b].job
        /\ \A q \in Runner \ {b} : run'[q].at = run[q].at /\ run'[q].job = run[q].job
    BY <2>1, StartsFacts DEF Manned
  <2>3. \A q \in Runner : /\ run'[q].job = run[q].job
                          /\ run'[q].at \in AtWork \cup {"done", "stop"} \cup Resting
                          /\ run'[q].at = "stop" => Asked(q)
    BY <2>2 DEF Manned, AtWork
  <2>4. /\ \A w \in Worker : run'[w].at \in Resting <=> run[w].at \in Resting
        /\ \A c \in Beside : run'[c].at \notin {"followUp", "enqueue"}
    BY <2>2 DEF Manned
  <2>. QED  BY <1>1, <2>1, <2>3, <2>4, Quietly
<1>5. CASE PersonStep
  <2>1. CASE \E i \in DOMAIN jobs : CancelRebuild(i)
    BY <2>1, CancelManned
  <2>2. CASE ~\E i \in DOMAIN jobs : CancelRebuild(i)
    <3>1. run' = run /\ (jobs' = jobs \/ Enqueue)
      BY <1>5, <2>2 DEF PersonStep, PressRebuild, PanelQueues, Promote, PickByHand, HandTags,
         DeleteTag, Untag, Purge
    <3>. QED  BY <1>1, <3>1, Quietly DEF Manned
  <2>. QED  BY <2>1, <2>2
<1>. QED  BY <1>2, <1>3, <1>4, <1>5 DEF Next
-----------------------------------------------------------------------------
(* Who stands where after a step in which nothing fails and nobody cancels.  *)
LEMMA NobodyAsked ==
    ASSUME Manned, Unasked
    PROVE  \A r \in Runner : ~Asked(r) /\ run[r].at # "stop"
BY DEF Manned, Unasked, Asked

LEMMA Stays ==
    ASSUME DInv, Manned, faults \in Nat, faults' = faults, Next, NEW r \in Runner, ~Stage(r)
    PROVE  \/ run'[r].at = run[r].at /\ run'[r].facts = run[r].facts
           \/ run[r].at \in Resting /\ run'[r].at \in Resting
           \/ run[r].at = "idle" /\ run'[r].at = "delete"
<1>0. DOMAIN run = Runner /\ \A q \in Runner : IsRun(run[q])
  BY DEF DInv, LayerTypeOK
<1>1. ASSUME NEW q \in Runner, Stage(q)
      PROVE  run'[r].at = run[r].at /\ run'[r].facts = run[r].facts
  BY <1>1, StageMoves, EndsManned
<1>2. ASSUME NEW w \in Worker, WorkerStep(w)
      PROVE  \/ run'[r].at = run[r].at /\ run'[r].facts = run[r].facts
             \/ run[r].at \in Resting /\ run'[r].at \in Resting
             \/ run[r].at = "idle" /\ run'[r].at = "delete"
  <2>1. CASE Claim(w)
    <3>1. PICK i : Starts(w, i)
      BY <2>1 DEF Claim
    <3>2. run[w].at = "idle"
      BY <2>1 DEF Claim
    <3>. QED  BY <3>1, <3>2, StartsFacts
  <2>2. CASE FollowUp(w) \/ QueueRebuild(w) \/ \E m \in Msg : DeltaArchives(w, m)
    <3>1. PICK n \in Resting : To(w, n)
      BY <2>2 DEF FollowUp, QueueRebuild, DeltaArchives, Resting
    <3>2. run[w].at \in Resting
      BY <2>2 DEF FollowUp, QueueRebuild, DeltaArchives, Resting
    <3>3. run'[w].at = n /\ \A q \in Runner \ {w} : run'[q] = run[q]
      BY <3>1, ToMoves DEF Moved
    <3>. QED  BY <3>2, <3>3
  <2>3. ASSUME NEW b \in Beside, LeftBehind(w, b)  PROVE FALSE
    BY <2>3 DEF LeftBehind
  <2>. QED  BY <1>2, <2>1, <2>2, <2>3 DEF WorkerStep
<1>3. ASSUME NEW b \in Beside, RunFromShell(b)
      PROVE  \/ run'[r].at = run[r].at /\ run'[r].facts = run[r].facts
             \/ run[r].at = "idle" /\ run'[r].at = "delete"
  <2>1. Starts(b, 0) /\ run[b].at = "idle"
    BY <1>3 DEF RunFromShell
  <2>. QED  BY <2>1, StartsFacts
<1>4. CASE PersonStep
  BY <1>4 DEF PersonStep, PressRebuild, PanelQueues, CancelRebuild, Promote, PickByHand, HandTags,
     DeleteTag, Untag, Purge
<1>. QED  BY <1>1, <1>2, <1>3, <1>4 DEF Next

(* A stage of a rebuild nobody cancels, as far as the scores go.             *)
LEMMA StageScores ==
    ASSUME DInv, Manned, Unasked, faults \in Nat, faults' = faults, NEW r \in Runner, Stage(r)
    PROVE  /\ mail' = mail /\ brought' = brought
           /\ \/ run[r].at \in {"delete", "edges", "clear"}
                 /\ run'[r].at \in {"delete", "edges", "clear", "read"}
              \/ run[r].at = "read" /\ run'[r].at = "topics" /\ run'[r].facts = mail
              \/ /\ run[r].at \in {"topics", "about"} /\ run'[r].at \in {"about", "score"}
                 /\ run'[r].facts = run[r].facts
              \/ /\ Score(r) /\ run'[r].facts = run[r].facts
                 /\ \A m \in Msg : layer'.scored[m] =
                      IF m \in run[r].facts \cap mail THEN run[r].facts ELSE layer.scored[m]
              \/ /\ run[r].at \in HasScored /\ run'[r].facts = run[r].facts
              \/ run[r].at = "done" /\ run'[r].at = "idle"
           /\ Score(r) \/ Clear(r) \/ layer'.scored = layer.scored
           /\ Clear(r) => run'[r].at = "read"
<1>0. /\ layer \in [topics : SUBSET SUBSET Msg, about : SUBSET (Msg \X SUBSET Msg),
                    scored : [Msg -> SUBSET Msg], suggested : SUBSET Msg]
      /\ DOMAIN run = Runner /\ IsRun(run[r]) /\ ~Asked(r) /\ ~Fail(r) /\ ~StopBetweenStages(r)
  BY NobodyAsked DEF DInv, LayerTypeOK, Fail, StopBetweenStages
<1>1. \A n : To(r, n) => run'[r].at = n /\ run'[r].facts = run[r].facts
  BY ToMoves DEF Moved
<1>2. CASE Delete(r)
  <2>1. /\ mail' = mail /\ brought' = brought /\ run[r].at = "delete" /\ ~Score(r) /\ ~Clear(r)
    BY <1>2 DEF Delete, Score, Clear
  <2>2. layer'.scored = layer.scored
    <3>1. CASE UNCHANGED layer
      BY <3>1
    <3>2. ASSUME NEW t \in layer.topics,
                 layer' = [layer EXCEPT !.topics = @ \ {t}, !.about = {a \in @ : a[2] # t}]
          PROVE  layer'.scored = layer.scored
      BY <1>0, <3>2
    <3>. QED  BY <1>2, <3>1, <3>2 DEF Delete
  <2>3. run'[r].at \in {"delete", "edges"}
    BY <1>1, <1>2 DEF Delete
  <2>. QED  BY <2>1, <2>2, <2>3
<1>3. CASE DeleteEdges(r)
  <2>1. layer'.scored = layer.scored
    BY <1>0, <1>3 DEF DeleteEdges
  <2>. QED  BY <1>1, <1>3, <2>1 DEF DeleteEdges, Clear
<1>4. CASE Clear(r)
  BY <1>0, <1>1, <1>4 DEF Clear, After
<1>5. CASE Read(r)
  <2>1. run'[r] = [run[r] EXCEPT !.at = "topics", !.facts = mail]
    BY <1>0, <1>5 DEF Read, After
  <2>2. run'[r].at = "topics" /\ run'[r].facts = mail
    BY <1>0, <2>1 DEF IsRun
  <2>. QED  BY <1>5, <2>2 DEF Read, Clear
<1>6. CASE WriteTopics(r) \/ WriteAbout(r)
  <2>1. layer'.scored = layer.scored
    BY <1>0, <1>6 DEF WriteTopics, WriteAbout
  <2>2. run'[r].at \in {"about", "score"} /\ run'[r].facts = run[r].facts
    BY <1>0, <1>1, <1>6 DEF WriteTopics, WriteAbout, After
  <2>3. mail' = mail /\ brought' = brought /\ run[r].at \in {"topics", "about"}
    BY <1>6 DEF WriteTopics, WriteAbout
  <2>. QED  BY <2>1, <2>2, <2>3 DEF Clear
<1>7. CASE Score(r)
  <2>1. \A m \in Msg : layer'.scored[m] =
          IF m \in run[r].facts \cap mail THEN run[r].facts ELSE layer.scored[m]
    BY <1>0, <1>7 DEF Score
  <2>. QED  BY <1>0, <1>1, <1>7, <2>1 DEF Score, After, Clear
<1>8. CASE ReadTagged(r) \/ Weigh(r)
  <2>1. PICK n, o : n \in {"suggest", "accept"}
                      /\ run' = [run EXCEPT ![r].at = n, ![r].offers = o]
    BY <1>8 DEF ReadTagged, Weigh
  <2>2. run'[r] = [run[r] EXCEPT !.at = n, !.offers = o]
    BY <1>0, <2>1
  <2>3. run'[r].facts = run[r].facts
    BY <1>0, <2>2 DEF IsRun
  <2>4. run[r].at \in HasScored /\ UNCHANGED <<mail, brought, layer>>
    BY <1>8 DEF ReadTagged, Weigh, HasScored, HasAbout, HasTopics, HasRead
  <2>. QED  BY <2>3, <2>4 DEF Clear, HasScored, HasAbout, HasTopics, HasRead
<1>9. CASE WriteSuggested(r) \/ Accept(r)
  <2>1. run[r].at \in HasScored /\ UNCHANGED <<mail, brought>>
    BY <1>9 DEF WriteSuggested, Accept, HasScored, HasAbout, HasTopics, HasRead
  <2>2. layer'.scored = layer.scored
    BY <1>0, <1>9 DEF WriteSuggested, Accept
  <2>3. run'[r].facts = run[r].facts
    BY <1>1, <1>9 DEF WriteSuggested, Accept
  <2>. QED  BY <2>1, <2>2, <2>3 DEF Clear, HasScored, HasAbout, HasTopics, HasRead
<1>10. CASE Finish(r)
  <2>1. run[r].at = "done" /\ UNCHANGED <<mail, brought, layer>>
    BY <1>10 DEF Finish, Ends
  <2>2. run'[r].at = "idle"
    BY <1>10, EndsManned
  <2>. QED  BY <2>1, <2>2 DEF Clear
<1>. QED  BY <1>0, <1>2, <1>3, <1>4, <1>5, <1>6, <1>7, <1>8, <1>9, <1>10 DEF Stage
LEMMA ScoresElsewhere ==
    ASSUME DInv, Next, faults \in Nat, faults' = faults, \A r \in Runner : ~Stage(r),
           NEW m \in mail'
    PROVE  layer'.scored[m] = layer.scored[m]
<1>0. /\ layer \in [topics : SUBSET SUBSET Msg, about : SUBSET (Msg \X SUBSET Msg),
                    scored : [Msg -> SUBSET Msg], suggested : SUBSET Msg]
  BY DEF DInv, LayerTypeOK
<1>1. ASSUME NEW k \in Msg, Purge(k)  PROVE layer'.scored[m] = layer.scored[m]
  <2>1. m # k
    BY <1>1 DEF Purge
  <2>2. layer' = [layer EXCEPT !.about = {a \in layer.about : a[1] # k}, !.scored[k] = {},
                               !.suggested = layer.suggested \ {k}]
    BY <1>1 DEF Purge
  <2>. QED  BY <1>0, <2>1, <2>2
<1>2. CASE DeleteTag
  BY <1>0, <1>2 DEF DeleteTag
<1>3. CASE PersonStep
  BY <1>1, <1>2, <1>3 DEF PersonStep, PressRebuild, PanelQueues, CancelRebuild, Promote,
     PickByHand, HandTags, Untag
<1>4. CASE \E w \in Worker : WorkerStep(w)
  BY <1>4 DEF WorkerStep, Claim, FollowUp, QueueRebuild, DeltaArchives, LeftBehind
<1>5. CASE \E b \in Beside : RunFromShell(b)
  BY <1>5 DEF RunFromShell
<1>. QED  BY <1>3, <1>4, <1>5 DEF Next

(* Mail that has a score or will be scored keeps one of the two.             *)
LEMMA DerivesStays ==
    ASSUME DInv, Manned, Unasked, faults \in Nat, faults' = faults, Next,
           NEW m \in mail', m \in mail, Derives(m)
    PROVE  Derives(m)'
<1>0. m \in Msg
  BY DEF DInv, LayerTypeOK
<1>1. CASE layer.scored[m] # {}
  <2>1. ASSUME NEW r \in Runner, Stage(r)  PROVE Derives(m)'
    <3>1. CASE Clear(r)
      BY <2>1, <3>1, StageScores DEF Derives, WillScore
    <3>2. CASE Score(r)
      <4>1. layer'.scored[m] = IF m \in run[r].facts \cap mail THEN run[r].facts
                               ELSE layer.scored[m]
        BY <1>0, <2>1, <3>2, StageScores DEF Score, HasScored, HasAbout, HasTopics, HasRead
      <4>. QED  BY <1>1, <4>1 DEF Derives
    <3>3. CASE layer'.scored = layer.scored
      BY <1>1, <3>3 DEF Derives
    <3>. QED  BY <2>1, <3>1, <3>2, <3>3, StageScores
  <2>2. CASE \A r \in Runner : ~Stage(r)
    BY <1>1, <2>2, ScoresElsewhere DEF Derives
  <2>. QED  BY <2>1, <2>2
<1>2. ASSUME NEW r \in Runner, WillScore(r, m)  PROVE Derives(m)'
  <2>0. run[r].at \in {"delete", "edges", "clear", "read", "topics", "about", "score"}
    BY <1>2 DEF WillScore
  <2>1. CASE ~Stage(r)
    <3>1. run'[r].at = run[r].at /\ run'[r].facts = run[r].facts
      BY <2>0, <2>1, Stays DEF Resting
    <3>2. WillScore(r, m)'
      BY <1>2, <3>1 DEF WillScore
    <3>. QED  BY <3>2 DEF Derives
  <2>2. CASE Stage(r)
    <3>1. CASE Score(r)
      <4>1. layer'.scored[m] = IF m \in run[r].facts \cap mail THEN run[r].facts
                               ELSE layer.scored[m]
        BY <1>0, <2>2, <3>1, StageScores DEF Score, HasScored, HasAbout, HasTopics, HasRead
      <4>2. m \in run[r].facts
        BY <1>2, <3>1 DEF WillScore, Score
      <4>. QED  BY <4>1, <4>2 DEF Derives
    <3>2. CASE ~Score(r)
      <4>1. WillScore(r, m)'
        BY <1>2, <2>0, <2>2, <3>2, StageScores
           DEF WillScore, HasScored, HasAbout, HasTopics, HasRead
      <4>. QED  BY <4>1 DEF Derives
    <3>. QED  BY <3>1, <3>2
  <2>. QED  BY <2>1, <2>2
<1>. QED  BY <1>1, <1>2 DEF Derives

LEMMA MailComes ==
    ASSUME DInv, Next, NEW m \in mail', m \notin mail
    PROVE  /\ m \notin Seen /\ m \in Msg
           /\ \E w \in Worker : DeltaArchives(w, m)
<1>1. \E w \in Worker, k \in Msg : DeltaArchives(w, k)
  <2>1. CASE \E r \in Runner : Stage(r)
    BY <2>1 DEF Stage, Delete, DeleteEdges, Clear, Read, WriteTopics, WriteAbout, Score,
       ReadTagged, WriteSuggested, Weigh, Accept, Finish, StopBetweenStages, Fail, Ends
  <2>2. CASE PersonStep \/ \E b \in Beside : RunFromShell(b)
    BY <2>2 DEF PersonStep, PressRebuild, PanelQueues, CancelRebuild, Promote, PickByHand,
       HandTags, DeleteTag, Untag, Purge, RunFromShell
  <2>3. CASE \E w \in Worker : WorkerStep(w)
    BY <2>3 DEF WorkerStep, Claim, FollowUp, QueueRebuild, LeftBehind
  <2>. QED  BY <2>1, <2>2, <2>3 DEF Next
<1>. QED  BY <1>1 DEF DeltaArchives, Seen

LEMMA ScoredStep ==
    ASSUME DInv, Manned, Unasked, Covered, faults \in Nat, faults' = faults, Next,
           NEW r \in Runner, run'[r].at \in HasScored, NEW m \in run'[r].facts \cap mail'
    PROVE  Derives(m)'
<1>1. CASE ~Stage(r)
  <2>1. run[r].at \in HasScored /\ m \in run[r].facts
    BY <1>1, Stays DEF Resting, HasScored, HasAbout, HasTopics, HasRead
  <2>2. m \in mail
    BY <2>1, MailComes DEF DInv, NothingForeseen
  <2>. QED  BY <2>1, <2>2, DerivesStays DEF Covered
<1>2. CASE Stage(r)
  <2>1. mail' = mail /\ m \in Msg
    BY <1>2, StageScores DEF DInv, LayerTypeOK
  <2>2. CASE Score(r)
    <3>1. run'[r].facts = run[r].facts
          /\ layer'.scored[m] = IF m \in run[r].facts \cap mail THEN run[r].facts
                                ELSE layer.scored[m]
      BY <1>2, <2>1, <2>2, StageScores DEF Score, HasScored, HasAbout, HasTopics, HasRead
    <3>. QED  BY <2>1, <3>1 DEF Derives
  <2>3. CASE ~Score(r)
    <3>1. run[r].at \in HasScored /\ run'[r].facts = run[r].facts
      BY <1>2, <2>3, StageScores DEF HasScored, HasAbout, HasTopics, HasRead
    <3>. QED  BY <2>1, <3>1, DerivesStays DEF Covered
  <2>. QED  BY <2>2, <2>3
<1>. QED  BY <1>1, <1>2

(* A worker that finds a rebuild open leaves the mail to it.                 *)
LEMMA FollowUpLeaves ==
    ASSUME DInv, Manned, Unasked, Covered, NEW w \in Worker, FollowUp(w), Open # {},
           NEW m \in mail, brought'[m] = "due"
    PROVE  Derives(m) \/ \E i \in DOMAIN jobs : jobs[i].state = "queued"
<1>1. PICK i \in DOMAIN jobs : jobs[i].state \in {"queued", "running"}
  BY DEF Open
<1>2. CASE jobs[i].state = "running"
  <2>1. PICK v \in Worker : run[v].job = i
    BY <1>2 DEF Manned
  <2>2. i # 0
    BY <1>1, Rows DEF Manned
  <2>3. run[v].at \in AtWork \cup {"done"}
    BY <2>1, <2>2, NobodyAsked DEF Manned
  <2>4. m \in Msg /\ DOMAIN brought = Msg
    BY DEF DInv, LayerTypeOK
  <2>5. ~Missed(m)
    BY <2>4 DEF FollowUp, Skips
  <2>6. m \in run[v].facts \/ run[v].at \in {"delete", "edges", "clear", "read"}
    BY <2>1, <2>2, <2>5 DEF Missed
  <2>7. CASE run[v].at \in HasScored /\ m \in run[v].facts
    BY <2>7 DEF Covered
  <2>8. CASE run[v].at \notin HasScored \/ m \notin run[v].facts
    <3>1. WillScore(v, m)
      BY <2>3, <2>6, <2>8 DEF WillScore, AtWork, HasScored, HasAbout, HasTopics, HasRead
    <3>. QED  BY <3>1 DEF Derives
  <2>. QED  BY <2>7, <2>8
<1>. QED  BY <1>1, <1>2
LEMMA QueueStays ==
    ASSUME DInv, Manned, Unasked', faults \in Nat, faults' = faults, Next,
           NEW i \in DOMAIN jobs, jobs[i].state = "queued"
    PROVE  \/ i \in DOMAIN jobs' /\ jobs'[i].state = "queued"
           \/ \E w \in Worker : run'[w].at = "delete"
<1>1. CASE jobs' = jobs \/ Enqueue
  BY <1>1, RowAdded DEF Manned
<1>2. ASSUME NEW r \in Runner, Stage(r)  PROVE i \in DOMAIN jobs' /\ jobs'[i].state = "queued"
  BY <1>2, StageMoves, EndsManned
<1>3. ASSUME NEW w \in Worker, Claim(w)  PROVE run'[w].at = "delete"
  <2>1. PICK k : Starts(w, k)
    BY <1>3 DEF Claim
  <2>. QED  BY <2>1, StartsFacts
<1>4. ASSUME NEW w \in Worker, WorkerStep(w)  PROVE Claim(w) \/ jobs' = jobs \/ Enqueue
  BY <1>4 DEF WorkerStep, FollowUp, QueueRebuild, DeltaArchives, LeftBehind
<1>5. CASE PersonStep \/ \E b \in Beside : RunFromShell(b)
  <2>1. (\E k \in DOMAIN jobs : CancelRebuild(k)) \/ jobs' = jobs \/ Enqueue
    BY <1>5 DEF PersonStep, PressRebuild, PanelQueues, Promote, PickByHand, HandTags,
       DeleteTag, Untag, Purge, RunFromShell
  <2>. QED  BY <1>1, <2>1, CancelManned
<1>. QED  BY <1>1, <1>2, <1>3, <1>4, <1>5 DEF Next

LEMMA FollowUpStays ==
    ASSUME DInv, Manned, faults \in Nat, faults' = faults, Next,
           NEW w \in Worker, run[w].at \in {"followUp", "enqueue"},
           ~FollowUp(w), ~QueueRebuild(w)
    PROVE  run'[w].at = run[w].at
<1>1. ASSUME NEW q \in Runner, Stage(q)  PROVE run'[w].at = run[w].at
  <2>1. CASE Finish(q) \/ StopBetweenStages(q)
    <3>1. q # w
      BY <2>1 DEF Finish, StopBetweenStages
    <3>. QED  BY <2>1, <3>1, EndsManned
  <2>2. CASE ~(Finish(q) \/ StopBetweenStages(q))
    BY <1>1, <2>2, StageMoves DEF AtWork
  <2>. QED  BY <2>1, <2>2
<1>2. ASSUME NEW v \in Worker, WorkerStep(v)  PROVE run'[w].at = run[w].at
  <2>1. CASE Claim(v)
    <3>1. PICK k : Starts(v, k)
      BY <2>1 DEF Claim
    <3>2. v # w
      BY <2>1 DEF Claim
    <3>. QED  BY <3>1, <3>2, StartsFacts
  <2>2. CASE FollowUp(v) \/ QueueRebuild(v) \/ \E m \in Msg : DeltaArchives(v, m)
    <3>1. v # w
      BY <2>2 DEF DeltaArchives
    <3>2. PICK n : To(v, n)
      BY <2>2 DEF FollowUp, QueueRebuild, DeltaArchives
    <3>. QED  BY <3>1, <3>2, ToMoves DEF Moved
  <2>3. ASSUME NEW b \in Beside, LeftBehind(v, b)  PROVE FALSE
    BY <2>3 DEF LeftBehind
  <2>. QED  BY <1>2, <2>1, <2>2, <2>3 DEF WorkerStep
<1>3. ASSUME NEW b \in Beside, RunFromShell(b)  PROVE run'[w].at = run[w].at
  <2>1. Starts(b, 0) /\ b # w
    BY <1>3 DEF RunFromShell
  <2>. QED  BY <2>1, StartsFacts
<1>4. CASE PersonStep
  BY <1>4 DEF PersonStep, PressRebuild, PanelQueues, CancelRebuild, Promote, PickByHand, HandTags,
     DeleteTag, Untag, Purge
<1>. QED  BY <1>1, <1>2, <1>3, <1>4 DEF Next

LEMMA DueBefore ==
    ASSUME DInv, Manned, Unasked, faults \in Nat, faults' = faults, Next,
           NEW m \in mail, brought'[m] = "due"
    PROVE  brought[m] = "due"
<1>1. m \in Msg /\ DOMAIN brought = Msg /\ m \in Seen
  BY DEF DInv, LayerTypeOK, NothingForeseen
<1>2. ASSUME NEW r \in Runner, Stage(r)  PROVE brought' = brought
  BY <1>2, StageScores
<1>3. ASSUME NEW w \in Worker, WorkerStep(w)  PROVE brought[m] = "due"
  <2>1. ASSUME NEW k \in Msg, DeltaArchives(w, k)  PROVE brought[m] = "due"
    <3>1. k # m
      BY <1>1, <2>1 DEF DeltaArchives, Seen
    <3>. QED  BY <1>1, <2>1, <3>1 DEF DeltaArchives
  <2>2. CASE FollowUp(w)
    BY <1>1, <2>2 DEF FollowUp, Skips
  <2>3. CASE Claim(w) \/ QueueRebuild(w) \/ \E b \in Beside : LeftBehind(w, b)
    BY <2>3 DEF Claim, QueueRebuild, LeftBehind, histVars
  <2>. QED  BY <1>3, <2>1, <2>2, <2>3 DEF WorkerStep
<1>4. CASE PersonStep \/ \E b \in Beside : RunFromShell(b)
  BY <1>4 DEF PersonStep, PressRebuild, PanelQueues, CancelRebuild, Promote, PickByHand,
     HandTags, DeleteTag, Untag, Purge, RunFromShell, histVars
<1>. QED  BY <1>2, <1>3, <1>4 DEF Next

LEMMA CoveredStep ==
    ASSUME DInv, Manned, Unasked, Unasked', Covered, faults \in Nat, faults' = faults, Next
    PROVE  Covered'
<1>1. \A r \in Runner : run'[r].at \in HasScored =>
        \A m \in run'[r].facts \cap mail' : Derives(m)'
  BY ScoredStep
<1>2. ASSUME NEW m \in mail', brought'[m] = "due"
      PROVE  \/ Derives(m)'
             \/ \E i \in DOMAIN jobs' : jobs'[i].state = "queued"
             \/ \E w \in Worker : run'[w].at \in {"followUp", "enqueue"}
  <2>1. CASE m \notin mail
    <3>1. PICK w \in Worker : DeltaArchives(w, m)
      BY <2>1, MailComes
    <3>2. run'[w].at = "followUp"
      BY <3>1, ToMoves DEF DeltaArchives, Moved
    <3>. QED  BY <3>2
  <2>2. CASE m \in mail
    <3>1. brought[m] = "due"
      BY <1>2, <2>2, DueBefore
    <3>2. CASE Derives(m)
      BY <2>2, <3>2, DerivesStays
    <3>3. ASSUME NEW i \in DOMAIN jobs, jobs[i].state = "queued"
          PROVE  Derives(m)' \/ \E j \in DOMAIN jobs' : jobs'[j].state = "queued"
      <4>1. CASE \E w \in Worker : run'[w].at = "delete"
        BY <4>1 DEF Derives, WillScore
      <4>. QED  BY <3>3, <4>1, QueueStays
    <3>4. ASSUME NEW w \in Worker, run[w].at \in {"followUp", "enqueue"}
          PROVE  \/ Derives(m)'
                 \/ \E i \in DOMAIN jobs' : jobs'[i].state = "queued"
                 \/ \E v \in Worker : run'[v].at \in {"followUp", "enqueue"}
      <4>1. CASE QueueRebuild(w)
        <5>1. /\ DOMAIN jobs' = DOMAIN jobs \cup {Len(jobs) + 1}
              /\ jobs'[Len(jobs) + 1].state = "queued"
          BY <4>1, RowAdded DEF QueueRebuild, Manned
        <5>. QED  BY <5>1
      <4>2. CASE FollowUp(w) /\ Open = {}
        <5>1. run'[w].at = "enqueue"
          BY <4>2, ToMoves DEF FollowUp, Moved
        <5>. QED  BY <5>1
      <4>3. CASE FollowUp(w) /\ Open # {}
        BY <1>2, <2>2, <3>2, <3>3, <4>3, FollowUpLeaves
      <4>4. CASE ~FollowUp(w) /\ ~QueueRebuild(w)
        BY <3>4, <4>4, FollowUpStays
      <4>. QED  BY <4>1, <4>2, <4>3, <4>4
    <3>. QED  BY <2>2, <3>1, <3>2, <3>3, <3>4 DEF Covered
  <2>. QED  BY <2>1, <2>2
<1>. QED  BY <1>1, <1>2 DEF Covered

LEMMA FInvInit == Init => FInv
<1>. SUFFICES ASSUME Init  PROVE FInv
  OBVIOUS
<1>1. /\ run = [r \in Runner |-> IdleRun] /\ IdleRun.at = "idle" /\ IdleRun.job = 0
      /\ IdleRun.facts = {}
  BY DEF Init, IdleRun
<1>2. jobs \in Seq(JobRow) /\ DOMAIN jobs = {}
  BY EmptySeq DEF Init
<1>3. \A r \in Runner : run[r].at = "idle" /\ run[r].job = 0 /\ run[r].facts = {}
  BY <1>1
<1>4. Manned
  BY <1>2, <1>3 DEF Manned, Resting
<1>5. Covered
  <2>1. \A m \in Msg : brought[m] = "no"
    BY DEF Init
  <2>. QED  BY <1>3, <2>1 DEF Covered, HasScored, HasAbout, HasTopics, HasRead, Init
<1>. QED  BY <1>4, <1>5 DEF FInv, Init

LEMMA FInvStep == DInv /\ FInv /\ [Next]_vars => FInv'
<1>. SUFFICES ASSUME DInv, FInv, [Next]_vars  PROVE FInv'
  OBVIOUS
<1>1. CASE UNCHANGED vars
  <2>1. UNCHANGED <<mail, layer, jobs, run, brought, faults>>
    BY <1>1 DEF vars, histVars
  <2>. QED  BY <2>1 DEF FInv, Manned, Unasked, Covered, Derives, WillScore, Asked
<1>2. CASE Next
  <2>1. faults \in Nat /\ (faults' = faults \/ faults' = faults + 1)
    <3>1. CASE \E r \in Runner : Stage(r)
      BY <3>1 DEF Stage, Delete, DeleteEdges, Clear, Read, WriteTopics, WriteAbout, Score,
         ReadTagged, WriteSuggested, Weigh, Accept, Finish, StopBetweenStages, Fail, FInv
    <3>2. CASE \E w \in Worker : WorkerStep(w)
      BY <3>2 DEF WorkerStep, Claim, FollowUp, QueueRebuild, DeltaArchives, LeftBehind, FInv
    <3>3. CASE PersonStep \/ \E b \in Beside : RunFromShell(b)
      BY <3>3 DEF PersonStep, PressRebuild, PanelQueues, CancelRebuild, Promote, PickByHand,
         HandTags, DeleteTag, Untag, Purge, RunFromShell, FInv
    <3>. QED  BY <1>2, <3>1, <3>2, <3>3 DEF Next
  <2>2. faults' \in Nat /\ (faults' = 0 => faults = 0 /\ faults' = faults)
    BY <2>1
  <2>3. faults' = 0 => Manned' /\ (Unasked' => Unasked)
    BY <1>2, <2>1, <2>2, MannedStep DEF FInv
  <2>4. faults' = 0 /\ Unasked' => Covered'
    BY <1>2, <2>1, <2>2, <2>3, CoveredStep DEF FInv
  <2>. QED  BY <2>2, <2>3, <2>4 DEF FInv
<1>. QED  BY <1>1, <1>2

(* Once the queue is quiet, mail a delta brought is derived, however many    *)
(* workers, rebuilds from the command line and buttons there are (worker.py, *)
(* _rebuild_after; rebuild.py), unless something failed or was cancelled.    *)
THEOREM DeltasAreDerived == Spec => []DeltaIsDerived
<1>1. DInv /\ FInv => DeltaIsDerived
  <2>. SUFFICES ASSUME DInv, FInv, Open = {}, faults = 0,
                       \A r \in Runner : run[r].at = "idle",
                       \A i \in DOMAIN jobs : jobs[i].state # "cancelled",
                       NEW m \in mail, brought[m] = "due"
                PROVE  layer.scored[m] # {}
    BY DEF DeltaIsDerived
  <2>1. \A i \in DOMAIN jobs : jobs[i].state \notin {"queued", "running"}
    BY DEF Open
  <2>2. Manned
    BY DEF FInv
  <2>3. Unasked
    BY <2>1, <2>2 DEF Manned, Unasked
  <2>4. Covered
    BY <2>3 DEF FInv
  <2>. QED  BY <2>1, <2>4 DEF Covered, Derives, WillScore
<1>2. Spec => []FInv
  BY FInvInit, FInvStep, Holds, PTL DEF Spec
<1>. QED  BY Holds, <1>1, <1>2, PTL
=============================================================================
