----------------------------- MODULE DerivedLayer -----------------------------
(***************************************************************************)
(* The derived layer of the graph and the jobs that recompute it: the      *)
(* rebuild (mailarc_analytics, derived/rebuild.py; app/derive.py), the     *)
(* follow-up of a delta import and the derive handler (app/worker.py), the *)
(* insights panel (mailarc_ui, insights/state.py), and the tags people put *)
(* on mail meanwhile (mailarc_core, archive/tags.py).                      *)
(*                                                                         *)
(* Every statement is atomic in the store and nothing spans two of them.   *)
(* A rebuild may run beside another one: a second worker's, the command    *)
(* line's, or the thread a worker that lost its job has left behind.       *)
(*                                                                         *)
(* All mail is one conversation here, so a rebuild finds one topic, named  *)
(* by its members as Topic.id is; one tag stands for each.                 *)
(***************************************************************************)
EXTENDS Integers, Sequences, FiniteSets

CONSTANTS
    Msg,
    Archived,    \* the mail that is there at the start
    Worker,      \* processes that run imports and derive jobs
    Beside,      \* rebuilds with no job of their own: the command line, a stray thread
    AutoAccept,  \* tag_auto_accept
    MinTagged,   \* tag_suggest_min_tagged
    None,
    MaxJobs,     \* bound: derive jobs ever queued
    MaxClicks,   \* bound: what people do to tags, to mail, and to a rebuild
    MaxFaults    \* bound: rebuilds that fail or are left behind

ASSUME DerivedAssumption ==
    /\ IsFiniteSet(Msg) /\ Archived \subseteq Msg /\ None \notin Msg \cup Worker \cup Beside
    /\ Worker \cap Beside = {} /\ AutoAccept \in BOOLEAN
    /\ MinTagged \in Nat \ {0}
    /\ MaxJobs \in Nat /\ MaxClicks \in Nat /\ MaxFaults \in Nat

Runner == Worker \cup Beside

VARIABLES
    mail,      \* the messages of the archive
    tag,       \* TAGGED and the Tag: whether it is there, and who tagged what
    layer,     \* the derived layer
    jobs,      \* derive jobs by id: state and cancel flag
    panel,     \* where the rebuild button stands
    hand,      \* what the page is about to put the tag on, {} when nothing
    run,       \* each runner: where it stands, its job, what it has read
    base,      \* history: the rebuild that deleted last, and how it ended
    brought,   \* history: mail deltas brought, and whether an open rebuild missed it
    late,      \* history: mail tagged by hand between auto-accept's read and write
    clicks, faults

histVars == <<base, brought, late>>
vars     == <<mail, tag, layer, jobs, panel, hand, run, histVars, clicks, faults>>

IdleRun == [at |-> "idle", job |-> 0, facts |-> {}, offers |-> {}, alone |-> FALSE]

(* topics by their members, ABOUT, importance with the mail it was argued   *)
(* from, SUGGESTED. *)
EmptyLayer == [topics |-> {}, about |-> {}, scored |-> [m \in Msg |-> {}], suggested |-> {}]

Topics(facts) == IF Cardinality(facts) > 1 THEN {facts} ELSE {}

Full(facts) == [topics |-> Topics(facts), about |-> {<<m, t>> : m \in facts, t \in Topics(facts)},
                scored |-> [m \in Msg |-> IF m \in facts THEN facts ELSE {}], suggested |-> {}]

Init ==
    /\ mail = Archived
    /\ tag = [there |-> FALSE, on |-> [m \in Msg |-> "no"]]
    /\ layer = Full(Archived)
    /\ jobs = <<>> /\ panel = "idle" /\ hand = {}
    /\ run = [r \in Runner |-> IdleRun]
    /\ base = [by |-> None, end |-> "done", facts |-> Archived, alone |-> TRUE]
    /\ brought = [m \in Msg |-> "no"] /\ late = {}
    /\ clicks = 0 /\ faults = 0

-----------------------------------------------------------------------------
(* The queue: derive jobs only.                                            *)

Open == {i \in DOMAIN jobs : jobs[i].state \in {"queued", "running"}}

Enqueue ==
    /\ Len(jobs) < MaxJobs
    /\ jobs' = Append(jobs, [state |-> "queued", asked |-> FALSE])

Asked(r) == run[r].job # 0 /\ jobs[run[r].job].asked

(* Only its own running job is settled: a stray's has moved on. *)
Settled(r, state) ==
    IF r \in Worker /\ run[r].job # 0
    THEN [jobs EXCEPT ![run[r].job].state = state] ELSE jobs

-----------------------------------------------------------------------------
(* A rebuild, stage by stage.                                              *)

Rebuilding == {r \in Runner : run[r].at \in {"delete", "edges", "clear", "read", "topics",
                                             "about", "score", "tagged", "suggest", "weigh",
                                             "accept"}}

(* History: it deleted last. *)
Claims(r) == base' = [by |-> r, end |-> "running", facts |-> {}, alone |-> FALSE]

(* _stage_done: a cancel is asked for after each stage. *)
After(r, next) == IF Asked(r) THEN "stop" ELSE next

To(r, next) == run' = [run EXCEPT ![r].at = next]

(* alone is history: whether any other rebuild ran beside it. *)
Starts(r, job) ==
    run' = [x \in Runner |-> IF x = r THEN [IdleRun EXCEPT !.at = "delete", !.job = job,
                                                          !.alone = Rebuilding = {}]
                             ELSE [run[x] EXCEPT !.alone = FALSE]]

DeleteOnce(r) ==    \* mutant: one batch and no loop
    /\ run[r].at = "delete"
    /\ \/ layer.topics = {} /\ UNCHANGED layer
       \/ \E t \in layer.topics :
            layer' = [layer EXCEPT !.topics = @ \ {t}, !.about = {a \in @ : a[2] # t}]
    /\ To(r, "edges") /\ Claims(r)
    /\ UNCHANGED <<mail, tag, jobs, panel, hand, brought, late, clicks, faults>>

(* _drain: batch by batch until nothing is left, edges with their nodes. *)
Delete(r) ==
    /\ run[r].at = "delete"
    /\ \/ layer.topics = {} /\ To(r, "edges") /\ UNCHANGED layer
       \/ \E t \in layer.topics :
            /\ layer' = [layer EXCEPT !.topics = @ \ {t}, !.about = {a \in @ : a[2] # t}]
            /\ UNCHANGED run
    /\ Claims(r)
    /\ UNCHANGED <<mail, tag, jobs, panel, hand, brought, late, clicks, faults>>

DeleteEdges(r) ==
    /\ run[r].at = "edges"
    /\ layer' = [layer EXCEPT !.suggested = {}]
    /\ To(r, "clear") /\ Claims(r)
    /\ UNCHANGED <<mail, tag, jobs, panel, hand, brought, late, clicks, faults>>

Clear(r) ==
    /\ run[r].at = "clear"
    /\ layer' = [layer EXCEPT !.scored = [m \in Msg |-> {}]]
    /\ To(r, After(r, "read")) /\ Claims(r)
    /\ UNCHANGED <<mail, tag, jobs, panel, hand, brought, late, clicks, faults>>

(* The ground truth is read once for every stage behind it. *)
Read(r) ==
    /\ run[r].at = "read"
    /\ run' = [run EXCEPT ![r].at = After(r, "topics"), ![r].facts = mail]
    /\ base' = IF base.by = r THEN [base EXCEPT !.facts = mail] ELSE base
    /\ UNCHANGED <<mail, tag, layer, jobs, panel, hand, brought, late, clicks, faults>>

WriteTopics(r) ==
    /\ run[r].at = "topics"
    /\ layer' = [layer EXCEPT !.topics = @ \cup Topics(run[r].facts)]
    /\ To(r, "about")
    /\ UNCHANGED <<mail, tag, jobs, panel, hand, base, brought, late, clicks, faults>>

AboutByMerge(r) ==    \* mutant: endpoints that are gone are invented
    /\ run[r].at = "about"
    /\ LET t == Topics(run[r].facts)
       IN  layer' = [layer EXCEPT !.topics = @ \cup t, !.about = @ \cup (run[r].facts \X t)]
    /\ To(r, After(r, "score"))
    /\ UNCHANGED <<mail, tag, jobs, panel, hand, base, brought, late, clicks, faults>>

(* MERGE_ABOUT matches both ends: a row whose topic or message went writes nothing. *)
WriteAbout(r) ==
    /\ run[r].at = "about"
    /\ layer' = [layer EXCEPT !.about =
                   @ \cup ((run[r].facts \cap mail) \X (Topics(run[r].facts) \cap layer.topics))]
    /\ To(r, After(r, "score"))
    /\ UNCHANGED <<mail, tag, jobs, panel, hand, base, brought, late, clicks, faults>>

Score(r) ==
    /\ run[r].at = "score"
    /\ layer' = [layer EXCEPT !.scored =
                   [m \in Msg |-> IF m \in run[r].facts \cap mail THEN run[r].facts ELSE @[m]]]
    /\ To(r, After(r, "tagged"))
    /\ UNCHANGED <<mail, tag, jobs, panel, hand, base, brought, late, clicks, faults>>

Wearing == {m \in Msg : tag.on[m] # "no"}

(* read_tagged and suggest: a topic enough of which wears the tag offers the rest. *)
Offers(facts) ==
    UNION {t \ Wearing : t \in {x \in Topics(facts) : Cardinality(x \cap Wearing) >= MinTagged}}

ReadTagged(r) ==
    /\ run[r].at = "tagged"
    /\ run' = [run EXCEPT ![r].at = "suggest", ![r].offers = Offers(run[r].facts)]
    /\ UNCHANGED <<mail, tag, layer, jobs, panel, hand, base, brought, late, clicks, faults>>

(* MERGE_SUGGESTED matches both ends: a tag deleted meanwhile stays gone. *)
WriteSuggested(r) ==
    /\ run[r].at = "suggest"
    /\ layer' = [layer EXCEPT !.suggested =
                   @ \cup (IF tag.there THEN run[r].offers \cap mail ELSE {})]
    /\ To(r, After(r, IF AutoAccept /\ run[r].offers # {} THEN "weigh" ELSE "done"))
    /\ UNCHANGED <<mail, tag, jobs, panel, hand, base, brought, late, clicks, faults>>

WeighAll(r) ==    \* mutant: what wears the tag already is sent again
    /\ run[r].at = "weigh"
    /\ run' = [run EXCEPT ![r].at = "accept", ![r].offers = layer.suggested]
    /\ UNCHANGED <<mail, tag, layer, jobs, panel, hand, base, brought, late, clicks, faults>>

(* _auto_accept reads what is offered, tag_messages what is worn already. *)
Weigh(r) ==
    /\ run[r].at = "weigh"
    /\ run' = [run EXCEPT ![r].at = "accept", ![r].offers = layer.suggested \ Wearing]
    /\ UNCHANGED <<mail, tag, layer, jobs, panel, hand, base, brought, late, clicks, faults>>

(* TAG_MESSAGES sets source and date on every row whose ends are there. *)
Tagging(ids, source) ==
    [tag EXCEPT !.on = [m \in Msg |-> IF tag.there /\ m \in ids \cap mail THEN source ELSE @[m]]]

Accept(r) ==
    /\ run[r].at = "accept"
    /\ tag' = Tagging(run[r].offers, "auto")
    /\ To(r, "done")
    /\ UNCHANGED <<mail, layer, jobs, panel, hand, base, brought, late, clicks, faults>>

(* The job ends by how its rebuild did; one asked to stop ends as cancelled. *)
Ends(r, state, how) ==
    /\ jobs' = Settled(r, state)
    /\ run' = [run EXCEPT ![r] = IdleRun]
    /\ base' = IF base.by = r THEN [base EXCEPT !.end = how, !.by = None, !.alone = run[r].alone]
                ELSE base
    /\ UNCHANGED <<mail, tag, layer, panel, hand, brought, late, clicks>>

Finish(r) ==
    /\ run[r].at = "done"
    /\ Ends(r, IF Asked(r) THEN "cancelled" ELSE "succeeded", "done")
    /\ UNCHANGED faults

StopSucceeds(r) ==    \* mutant: the cancel returns instead of raising
    /\ run[r].at = "stop"
    /\ Ends(r, "succeeded", "done")
    /\ UNCHANGED faults

(* RebuildCancelled. *)
StopBetweenStages(r) ==
    /\ run[r].at = "stop"
    /\ Ends(r, "cancelled", "half")
    /\ UNCHANGED faults

(* A statement fails, or the command is interrupted. *)
Fail(r) ==
    /\ r \in Rebuilding /\ faults < MaxFaults
    /\ faults' = faults + 1
    /\ Ends(r, "failed", "half")

(* The lease lapses and the job goes back to the queue, but the thread its  *)
(* handler has left behind goes on as it is.                                *)
LeftBehind(w, b) ==
    /\ w \in Rebuilding /\ run[b].at = "idle" /\ faults < MaxFaults
    /\ faults' = faults + 1
    /\ jobs' = [jobs EXCEPT ![run[w].job].state = "queued"]
    /\ run' = [run EXCEPT ![b] = run[w], ![w] = IdleRun]
    /\ base' = IF base.by = w THEN [base EXCEPT !.by = b] ELSE base
    /\ UNCHANGED <<mail, tag, layer, panel, hand, brought, late, clicks>>

Stage(r) ==
    \/ Delete(r) \/ DeleteEdges(r) \/ Clear(r) \/ Read(r)
    \/ WriteTopics(r) \/ WriteAbout(r) \/ Score(r)
    \/ ReadTagged(r) \/ WriteSuggested(r) \/ Weigh(r) \/ Accept(r)
    \/ Finish(r) \/ StopBetweenStages(r) \/ Fail(r)

-----------------------------------------------------------------------------
(* A worker: one job at a time, a derive job or a delta.                   *)

Claim(w) ==
    /\ run[w].at = "idle"
    /\ \E i \in Open :
         /\ jobs[i].state = "queued" /\ \A j \in Open : jobs[j].state = "queued" => i <= j
         /\ jobs' = [jobs EXCEPT ![i].state = "running"]
         /\ Starts(w, i)
    /\ UNCHANGED <<mail, tag, layer, panel, hand, histVars, clicks, faults>>

(* python -m app.derive: no job, and nobody asks whether one is open. *)
RunFromShell(b) ==
    /\ run[b].at = "idle" /\ clicks < MaxClicks
    /\ clicks' = clicks + 1
    /\ Starts(b, 0)
    /\ UNCHANGED <<mail, tag, layer, jobs, panel, hand, histVars, faults>>

(* A delta archives a message, once; its follow-up is still to come. *)
DeltaArchives(w, m) ==
    /\ run[w].at = "idle" /\ m \notin Archived /\ brought[m] = "no"
    /\ mail' = mail \cup {m} /\ brought' = [brought EXCEPT ![m] = "due"]
    /\ To(w, "followUp")
    /\ UNCHANGED <<tag, layer, jobs, panel, hand, base, late, clicks, faults>>

(* What an open rebuild that has read already will not derive. *)
Missed(m) == \E w \in Worker : run[w].job # 0 /\ m \notin run[w].facts
                 /\ run[w].at \notin {"delete", "edges", "clear", "read"}

Skips == brought' = [m \in Msg |-> IF brought[m] = "due" /\ Missed(m) THEN "missed"
                                   ELSE brought[m]]

SkipIfEver(w) ==    \* mutant: a rebuild that has ended counts as queued
    /\ run[w].at = "followUp"
    /\ To(w, IF jobs = <<>> THEN "enqueue" ELSE "idle")
    /\ Skips
    /\ UNCHANGED <<mail, tag, layer, jobs, panel, hand, base, late, clicks, faults>>

(* _rebuild_after: find_open. *)
FollowUp(w) ==
    /\ run[w].at = "followUp"
    /\ To(w, IF Open = {} THEN "enqueue" ELSE "idle")
    /\ IF Open = {} THEN UNCHANGED brought ELSE Skips
    /\ UNCHANGED <<mail, tag, layer, jobs, panel, hand, base, late, clicks, faults>>

(* _rebuild_after: enqueue, another transaction. *)
QueueRebuild(w) ==
    /\ run[w].at = "enqueue"
    /\ Enqueue /\ To(w, "idle")
    /\ UNCHANGED <<mail, tag, layer, panel, hand, histVars, clicks, faults>>

-----------------------------------------------------------------------------
(* People.                                                                 *)

(* start_rebuild asks for an open one and queues in another transaction. *)
PressRebuild ==
    /\ panel = "idle" /\ Open = {} /\ clicks < MaxClicks
    /\ clicks' = clicks + 1
    /\ panel' = "enqueue"
    /\ UNCHANGED <<mail, tag, layer, hand, jobs, run, histVars, faults>>

PanelQueues ==
    /\ panel = "enqueue"
    /\ Enqueue /\ panel' = "idle"
    /\ UNCHANGED <<mail, tag, layer, hand, run, histVars, clicks, faults>>

(* request_cancel: a queued job is over, a running one has its flag set. *)
CancelRebuild(i) ==
    /\ i \in Open /\ ~jobs[i].asked /\ clicks < MaxClicks
    /\ clicks' = clicks + 1
    /\ jobs' = IF jobs[i].state = "queued" THEN [jobs EXCEPT ![i].state = "cancelled"]
               ELSE [jobs EXCEPT ![i].asked = TRUE]
    /\ UNCHANGED <<mail, tag, layer, panel, hand, run, histVars, faults>>

(* create, and promote of a cluster: the tag first, its members after it. *)
Promote(members) ==
    /\ ~tag.there /\ hand = {} /\ clicks < MaxClicks
    /\ clicks' = clicks + 1
    /\ tag' = [tag EXCEPT !.there = TRUE]
    /\ hand' = members
    /\ UNCHANGED <<mail, layer, jobs, panel, run, histVars, faults>>

(* tag_message, accept_suggestion, accept_all: tag_messages reads what is    *)
(* worn already and will send the rest.                                      *)
PickByHand(ids) ==
    /\ tag.there /\ hand = {} /\ clicks < MaxClicks
    /\ clicks' = clicks + 1
    /\ hand' = ids \ Wearing
    /\ UNCHANGED <<mail, tag, layer, jobs, panel, run, histVars, faults>>

Weighed == {r \in Runner : run[r].at = "accept"}

HandTags ==
    /\ hand # {}
    /\ tag' = Tagging(hand, "person")
    /\ hand' = {}
    /\ late' = IF Weighed = {} THEN late ELSE late \cup hand
    /\ UNCHANGED <<mail, layer, jobs, panel, run, base, brought, clicks, faults>>

Untag(m) ==
    /\ m \in Wearing /\ clicks < MaxClicks
    /\ clicks' = clicks + 1
    /\ tag' = [tag EXCEPT !.on[m] = "no"]
    /\ UNCHANGED <<mail, layer, jobs, panel, hand, run, histVars, faults>>

(* DETACH DELETE on the tag: its memberships and suggestions go with it. *)
DeleteTag ==
    /\ tag.there /\ clicks < MaxClicks
    /\ clicks' = clicks + 1
    /\ tag' = [there |-> FALSE, on |-> [m \in Msg |-> "no"]]
    /\ layer' = [layer EXCEPT !.suggested = {}]
    /\ UNCHANGED <<mail, jobs, panel, hand, run, histVars, faults>>

(* A clear-out takes a message with everything that hangs on it. *)
Purge(m) ==
    /\ m \in mail /\ clicks < MaxClicks
    /\ clicks' = clicks + 1
    /\ mail' = mail \ {m}
    /\ tag' = [tag EXCEPT !.on[m] = "no"]
    /\ layer' = [layer EXCEPT !.about = {a \in @ : a[1] # m}, !.scored[m] = {},
                              !.suggested = @ \ {m}]
    /\ UNCHANGED <<jobs, panel, hand, run, histVars, faults>>

PersonStep ==
    \/ PressRebuild \/ PanelQueues \/ \E i \in DOMAIN jobs : CancelRebuild(i)
    \/ \E t \in layer.topics \cup {{}} : Promote(t)
    \/ \E ids \in {{m} : m \in mail} \cup {layer.suggested} : PickByHand(ids)
    \/ HandTags \/ DeleteTag \/ \E m \in Msg : Untag(m) \/ Purge(m)

WorkerStep(w) ==
    \/ Claim(w) \/ FollowUp(w) \/ QueueRebuild(w)
    \/ \E m \in Msg : DeltaArchives(w, m)
    \/ \E b \in Beside : LeftBehind(w, b)

Next ==
    \/ \E r \in Runner : Stage(r)
    \/ \E w \in Worker : WorkerStep(w)
    \/ \E b \in Beside : RunFromShell(b)
    \/ PersonStep

Spec == Init /\ [][Next]_vars

-----------------------------------------------------------------------------
DerivedTypeOK ==
    /\ mail \subseteq Msg
    /\ tag \in [there : BOOLEAN, on : [Msg -> {"no", "person", "auto"}]]
    /\ layer.topics \subseteq SUBSET Msg /\ layer.about \subseteq Msg \X SUBSET Msg
    /\ layer.scored \in [Msg -> SUBSET Msg] /\ layer.suggested \subseteq Msg
    /\ \A i \in DOMAIN jobs :
         jobs[i] \in [asked : BOOLEAN,
                      state : {"queued", "running", "succeeded", "failed", "cancelled"}]
    /\ panel \in {"idle", "enqueue"} /\ hand \subseteq Msg
    /\ \A w \in Worker : w \in Rebuilding => jobs[run[w].job].state = "running"
    /\ brought \in [Msg -> {"no", "due", "missed"}] /\ late \subseteq Msg
    /\ clicks \in 0..MaxClicks /\ faults \in 0..MaxFaults

(* When the rebuild that deleted last has ended well, the layer holds all it *)
(* found, whatever ran beside it, was cancelled beside it or is still        *)
(* writing: a rebuild that ends well wrote everything after the last delete. *)
SucceededMeansWhole ==
    base.end = "done" =>
        /\ Topics(base.facts) \subseteq layer.topics
        /\ (base.facts \cap mail) \X Topics(base.facts) \subseteq layer.about
        /\ \A m \in base.facts \cap mail : layer.scored[m] # {}

(* And nothing else, when it ran alone: a rebuild leaves no topic and no     *)
(* score of the one before it, however that one ended.                       *)
NothingLeftOver ==
    base.end = "done" /\ base.alone =>
        /\ layer.topics = Topics(base.facts)
        /\ \A m \in Msg : layer.scored[m] \in {{}, base.facts}

(* Whatever was deleted while a rebuild held it in memory stays deleted: no  *)
(* membership, suggestion, topic or score brings back a tag or a message.    *)
NothingInvented ==
    /\ ~tag.there => Wearing = {} /\ layer.suggested = {}
    /\ Wearing \subseteq mail /\ layer.suggested \subseteq mail
    /\ \A a \in layer.about : a[1] \in mail /\ a[2] \in layer.topics
    /\ \A m \in Msg \ mail : layer.scored[m] = {}

(* Mail a delta brought is derived once the queue is quiet, if nothing failed *)
(* and nobody pressed cancel, whoever else queues or runs rebuilds: one that  *)
(* deletes what was derived of it has read it.  (The exception: a second      *)
(* worker's rebuild had read already when the follow-up found it open.)       *)
DeltaIsDerived ==
    (Open = {} /\ faults = 0 /\ \A r \in Runner : run[r].at = "idle") =>
        \/ \E i \in DOMAIN jobs : jobs[i].state = "cancelled"
        \/ \A m \in mail : brought[m] = "due" => layer.scored[m] # {}

(* Auto-accept only adds: what a person tagged keeps that decision, unless   *)
(* it was made between auto-accept's own read and its write.                 *)
PersonDecidesFirst ==
    [][\A m \in Msg \ late : tag.on[m] = "person" => tag'.on[m] # "auto"]_vars
=============================================================================
