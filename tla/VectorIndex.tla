------------------------------ MODULE VectorIndex ------------------------------
(***************************************************************************)
(* The vectors of the messages and the index over them                     *)
(* (mailarc_analytics/semantic/indexing.py): embed runs in the worker and  *)
(* the shell, rebuilds of the index from the settings page and the shell,  *)
(* and an administrator who changes the embedder under all of them.        *)
(*                                                                         *)
(* A setting is an embedder, [model, length].  A vector is known by the    *)
(* setting that produced it, the index by its length.  The graph stores a  *)
(* vector of any length and indexes those of the index's own.              *)
(***************************************************************************)
EXTENDS FiniteSets, FiniteSetsExt, Integers

CONSTANTS
    Msg,          \* messages, ordered by their ids
    Setting,      \* records [model, length]
    FileSetting,  \* the one in the configuration file
    Runner,       \* processes that run embed jobs
    Builder,      \* callers of rebuild_index
    None,
    PageSize, BatchSize,
    MaxStores,    \* bound: settings stored
    MaxRuns,      \* bound: embed runs and restarts of their processes
    MaxRebuilds   \* bound: rebuilds started

ASSUME VectorAssumption ==
    /\ Msg \subseteq Nat /\ IsFiniteSet(Msg)
    /\ Setting \subseteq [model : STRING, length : Nat \ {0}]
    /\ FileSetting \in Setting /\ None \notin Setting /\ None # "succeeded"
    /\ PageSize \in Nat \ {0} /\ BatchSize \in 1..PageSize
    /\ {MaxStores, MaxRuns, MaxRebuilds} \subseteq Nat

VARIABLES
    stored,    \* the settings row merged over the file
    web,       \* the configuration in force in the web process
    there,     \* the messages the archive holds
    vec,       \* message -> the setting that produced its vector, or None
    index,     \* the length of the live vector index, 0 for none
    run,       \* per runner: its configuration and the run it is in
    build,     \* per builder: the rebuild it is in
    strays,    \* history: vectors written by a run a rebuild had overtaken
    torn,      \* history: a rebuild broke off before its clear, with another under way
    stores, runs, rebuilds

graphVars == <<there, vec, index, strays, torn>>
bounds    == <<stores, runs, rebuilds>>
vars      == <<stored, web, graphVars, run, build, bounds>>

(* owed, missed, overtaken and shared are history: the messages there when *)
(* the run counted, those the embedder refused, whether a rebuild cleared  *)
(* the vectors meanwhile, and whether a run of another model was active.   *)
Idle(c, r) ==
    [pc |-> "idle", config |-> c, result |-> r, after |-> -1, page |-> {},
     owed |-> {}, missed |-> {}, overtaken |-> FALSE, shared |-> FALSE]

NoBuild == [pc |-> "idle", length |-> 0]

(* An archive an earlier run may have left half embedded.                  *)
Init ==
    /\ stored = FileSetting /\ web = FileSetting
    /\ there \in {s \in SUBSET Msg : s # {}}
    /\ \E early \in SUBSET there :
          vec = [m \in Msg |-> IF m \in early THEN FileSetting ELSE None]
    /\ index = FileSetting.length
    /\ run = [r \in Runner |-> Idle(FileSetting, None)]
    /\ build = [b \in Builder |-> NoBuild]
    /\ strays = {} /\ torn = FALSE /\ stores = 0 /\ runs = 0 /\ rebuilds = 0

Active(r) == run[r].pc # "idle"

-----------------------------------------------------------------------------
(* The settings, and the mail that goes on arriving.                       *)

(* A save, and the adoption by the web process, which may fail after it.   *)
Save(s) ==
    /\ stores < MaxStores /\ s # stored
    /\ stored' = s /\ web' \in {s, web} /\ stores' = stores + 1
    /\ UNCHANGED <<graphVars, run, build, runs, rebuilds>>

Import(m) ==
    /\ m \notin there
    /\ there' = there \cup {m}
    /\ UNCHANGED <<stored, web, vec, index, strays, torn, run, build, bounds>>

-----------------------------------------------------------------------------
(* embed_pending.                                                          *)

(* MESSAGES_NEEDING_EMBEDDING: no vector, or one by another model.         *)
Pending(c, after) ==
    {m \in there : m > after /\ (vec[m] = None \/ vec[m].model # c.model)}

(* The n lowest of a set of ids.                                           *)
First(n, S) == {m \in S : Cardinality({k \in S : k < m}) < n}

End(r, result) == run' = [run EXCEPT ![r] = Idle(run[r].config, result)]

(* A process that runs embed jobs starts, or is killed and starts again:   *)
(* it adopts the stored settings once, or the file's when it cannot.       *)
StartProcess(r) ==
    /\ runs < MaxRuns
    /\ \E c \in {stored, FileSetting} : run' = [run EXCEPT ![r] = Idle(c, None)]
    /\ runs' = runs + 1
    /\ UNCHANGED <<stored, web, graphVars, build, stores, rebuilds>>

(* verify, its first two checks: there is an index, of the right length.   *)
Verify(r) ==
    /\ run[r].pc = "idle" /\ runs < MaxRuns
    /\ runs' = runs + 1
    /\ IF index = run[r].config.length
       THEN run' = [run EXCEPT ![r].pc = "probe", ![r].result = None]
       ELSE End(r, "failed")
    /\ UNCHANGED <<stored, web, graphVars, build, stores, rebuilds>>

(* The probe of the model, then the count of what is owed.                 *)
Probe(r) ==
    /\ run[r].pc = "probe"
    /\ \/ run' = [q \in Runner |->
             IF q = r
             THEN [run[r] EXCEPT !.pc = "read", !.owed = there,
                     !.shared = \E o \in Runner \ {r} :
                        Active(o) /\ run[o].config.model # run[r].config.model]
             ELSE [run[q] EXCEPT !.shared = @ \/
                     (Active(q) /\ run[q].config.model # run[r].config.model)]]
       \/ End(r, "failed")
    /\ UNCHANGED <<stored, web, graphVars, build, bounds>>

\* mutant
ReadPageByOffset(r) ==
    /\ run[r].pc = "read"
    /\ LET open == Pending(run[r].config, -1)
           page == First(PageSize, open \ First(run[r].after + 1, open)) IN
       IF page = {} THEN End(r, "succeeded")
       ELSE run' = [run EXCEPT ![r].pc = "embed", ![r].page = page]
    /\ UNCHANGED <<stored, web, graphVars, build, bounds>>

(* read_pending: the next page behind the cursor, or the end of the run.   *)
ReadPage(r) ==
    /\ run[r].pc = "read"
    /\ LET page == First(PageSize, Pending(run[r].config, run[r].after)) IN
       IF page = {} THEN End(r, "succeeded")
       ELSE run' = [run EXCEPT ![r].pc = "embed", ![r].page = page]
    /\ UNCHANGED <<stored, web, graphVars, build, bounds>>

Batch(r) == First(BatchSize, run[r].page)

(* What is left of the run after a batch: the rest of the page, or the     *)
(* next page behind its last id.                                           *)
BatchDone(r, refused) ==
    LET rest == run[r].page \ Batch(r) IN
    [run[r] EXCEPT
        !.pc = IF rest = {} THEN "read" ELSE "embed",
        !.page = rest,
        !.after = IF rest = {} THEN Max(run[r].page) ELSE run[r].after,
        !.missed = @ \cup refused]

(* The provider answers for one batch: vectors, a permanent refusal that   *)
(* costs the batch, or an error that ends the run for the loop to retry.   *)
(* A stop may be asked for after a refused batch as after a written one.   *)
Embed(r) ==
    /\ run[r].pc = "embed"
    /\ \/ run' = [run EXCEPT ![r].pc = "write"]
       \/ run' = [run EXCEPT ![r] = BatchDone(r, Batch(r))]
       \/ \E result \in {"failed", "cancelled"} : End(r, result)
    /\ UNCHANGED <<stored, web, graphVars, build, bounds>>

(* write_batch: the vectors of the claimed length, whatever the index has  *)
(* become; then the cancel check.                                          *)
Write(r) ==
    /\ run[r].pc = "write"
    /\ \E refused \in SUBSET Batch(r) :
          LET good == Batch(r) \ refused IN
          /\ vec' = [m \in Msg |-> IF m \in good THEN run[r].config ELSE vec[m]]
          /\ strays' = IF run[r].overtaken THEN strays \cup good
                       ELSE strays \ good
          /\ \/ run' = [run EXCEPT ![r] = BatchDone(r, refused)]
             \/ End(r, "cancelled")
    /\ UNCHANGED <<stored, web, there, index, torn, build, bounds>>

-----------------------------------------------------------------------------
(* rebuild_index, at the length the caller's process has in force.         *)

BeginRebuild(b) ==
    /\ build[b].pc = "idle" /\ rebuilds < MaxRebuilds
    /\ \E c \in {web, stored, FileSetting} :
          build' = [build EXCEPT ![b] = [pc |-> "drop", length |-> c.length]]
    /\ rebuilds' = rebuilds + 1
    /\ UNCHANGED <<stored, web, graphVars, run, stores, runs>>

(* History: it has dropped the index and not cleared the vectors, and       *)
(* another rebuild has created one since or is about to.                    *)
Tears(b) ==
    build[b].pc = "clear" /\ (index > 0 \/ \E o \in Builder : build[o].pc = "create")

(* Any of the three statements may fail and leave the rest undone.         *)
RebuildFails(b) ==
    /\ build[b].pc # "idle"
    /\ build' = [build EXCEPT ![b] = NoBuild]
    /\ torn' = (torn \/ Tears(b))
    /\ UNCHANGED <<stored, web, there, vec, index, strays, run, bounds>>

Drop(b) ==
    /\ build[b].pc = "drop"
    /\ index' = 0
    /\ build' = [build EXCEPT ![b].pc = "clear"]
    /\ UNCHANGED <<stored, web, there, vec, strays, torn, run, bounds>>

\* mutant
ClearNothing(b) ==
    /\ build[b].pc = "clear"
    /\ build' = [build EXCEPT ![b].pc = "create"]
    /\ UNCHANGED <<stored, web, graphVars, run, bounds>>

Clear(b) ==
    /\ build[b].pc = "clear"
    /\ vec' = [m \in Msg |-> None] /\ strays' = {} /\ torn' = FALSE
    /\ run' = [r \in Runner |-> [run[r] EXCEPT !.overtaken = @ \/ Active(r)]]
    /\ build' = [build EXCEPT ![b].pc = "create"]
    /\ UNCHANGED <<stored, web, there, index, bounds>>

(* An index that somebody else created meanwhile is refused by the graph.  *)
Create(b) ==
    /\ build[b].pc = "create"
    /\ index' = IF index = 0 THEN build[b].length ELSE index
    /\ build' = [build EXCEPT ![b] = NoBuild]
    /\ UNCHANGED <<stored, web, there, vec, strays, torn, run, bounds>>

Next ==
    \/ \E s \in Setting : Save(s)
    \/ \E m \in Msg : Import(m)
    \/ \E r \in Runner :
          StartProcess(r) \/ Verify(r) \/ Probe(r) \/ ReadPage(r) \/ Embed(r) \/ Write(r)
    \/ \E b \in Builder :
          BeginRebuild(b) \/ RebuildFails(b) \/ Drop(b) \/ Clear(b) \/ Create(b)

Spec == Init /\ [][Next]_vars

-----------------------------------------------------------------------------
NobodyClears == \A b \in Builder : build[b].pc # "clear"

(* A vector the graph holds has the length of the index, or there is no    *)
(* index and every semantic path says so: whatever was saved, rebuilt,     *)
(* failed or restarted in between.  There are three exceptions, until the  *)
(* next rebuild: a vector of a run that was past its verification when a    *)
(* rebuild cleared the vectors (indexing.py:258), a rebuild that has        *)
(* dropped the index and not cleared the vectors yet while another created  *)
(* one, and one that broke off like that.                                  *)
StoredIsSearchable ==
    NobodyClears /\ index > 0 /\ ~torn =>
        \A m \in Msg : vec[m] # None => vec[m].length = index \/ m \in strays

Found(m, c) == vec[m] # None /\ vec[m].model = c.model /\ index = vec[m].length

(* A run that ends of itself leaves no message unsearchable that was there *)
(* when it counted: none is lost to the paging over a set that shrinks and *)
(* grows under it, to a change of model, or to a batch that was refused    *)
(* before it.  Excused are the refused ones, a run that shared the graph    *)
(* with a run of another model, one whose vectors a rebuild cleared or is   *)
(* about to clear, and a rebuild that broke off before it cleared.          *)
RunLeavesNothingBehind ==
    [][\A r \in Runner :
          run[r].pc = "read" /\ run'[r].result = "succeeded"
             /\ ~run[r].overtaken /\ ~run[r].shared /\ index = run[r].config.length
             /\ NobodyClears /\ ~torn
          => \A m \in run[r].owed \ (run[r].missed \cup strays) :
                Found(m, run[r].config)]_vars
================================================================================
