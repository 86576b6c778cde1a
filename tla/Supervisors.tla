------------------------------ MODULE Supervisors ------------------------------
(***************************************************************************)
(* The two children of the application: the graph server (mailarc_core,    *)
(* graph/server.py) with the record of who supervises it                   *)
(* (graph/ownership.py), and the sync worker (app/supervisors.py,          *)
(* app/worker.py), over any number of application processes that start,    *)
(* shut down or are killed while others run: a reload, a second window, a  *)
(* restart after a crash.                                                  *)
(*                                                                         *)
(* An application process lives once and spawns at most one server and one *)
(* worker, so both go by its name; all share one port, one data directory  *)
(* and one record.                                                         *)
(***************************************************************************)
EXTENDS FiniteSets, Integers

CONSTANTS
    App,
    Nobody,
    MaxFaults   \* bound: applications killed and servers that crash

ASSUME SupervisorAssumption ==
    /\ IsFiniteSet(App) /\ Nobody \notin App /\ MaxFaults \in Nat

VARIABLES
    app,       \* where each application stands in its lifespan
    keeps,     \* the server it owns: _pid while _owned
    asked,     \* _asked_to_stop of its server handle
    server,    \* the server each application spawned
    worker,    \* the worker each application spawned
    record,    \* falkordb.owner
    blind,     \* history: servers that could not be written down, or whose
               \* application was killed between Popen and the record
    crossed,   \* history: two applications were starting or stopping at once, or
               \* owned a server each, or one met a server that did not answer
    faults

appVars == <<app, keeps, asked>>
osVars  == <<server, worker, record>>
vars    == <<appVars, osVars, blind, crossed, faults>>

NoRecord == [server |-> Nobody, supervisor |-> Nobody]

Starting == {"adopt", "spawn", "record", "await", "undo", "unrecord", "worker"}
Stopping == {"askWorker", "askServer", "reapWorker", "reapServer", "forget"}
Ended    == {"down", "dead"}

Alive(a)   == app[a] \in {"up"} \cup Starting \cup Stopping
Running(s) == s \in App /\ server[s] \in {"starting", "serving", "stopping"}

Init ==
    /\ app = [a \in App |-> "off"] /\ keeps = [a \in App |-> Nobody]
    /\ asked = [a \in App |-> FALSE]
    /\ server = [a \in App |-> "none"] /\ worker = [a \in App |-> "none"]
    /\ record = NoRecord
    /\ blind = {} /\ crossed = FALSE /\ faults = 0

-----------------------------------------------------------------------------
(* Probes.                                                                 *)

(* is_serving: a server on its way out may still answer. *)
Answers(up) ==
    /\ (\E s \in App : server[s] = "serving") => up
    /\ up => \E s \in App : server[s] \in {"serving", "stopping"}

(* orphan_pid: the supervisor is gone and the server is not. *)
Orphan(r) ==
    IF r # NoRecord /\ ~Alive(r.supervisor) /\ Running(r.server)
    THEN r.server ELSE Nobody

Exited(a) == keeps[a] # Nobody /\ ~Running(keeps[a])

Moves(a, to) == app' = [app EXCEPT ![a] = to]

-----------------------------------------------------------------------------
(* start: adopt what listens, or spawn, record and wait.                   *)

Start(a) ==
    /\ app[a] = "off"
    /\ \E up \in BOOLEAN : Answers(up) /\ Moves(a, IF up THEN "adopt" ELSE "spawn")
    /\ UNCHANGED <<keeps, asked, osVars, blind, faults>>

(* A server whose supervisor lives is left un-owned, and so is an orphan   *)
(* that ps does not answer for (_is_a_server).                             *)
Adopt(a) ==
    /\ app[a] = "adopt"
    /\ \E s \in {Orphan(record), Nobody} :
          /\ keeps' = [keeps EXCEPT ![a] = s]
          /\ Moves(a, IF s = Nobody THEN "worker" ELSE "record")
    /\ UNCHANGED <<asked, osVars, blind, faults>>

Spawn(a) ==
    /\ app[a] = "spawn"
    /\ server' = [server EXCEPT ![a] = "starting"]
    /\ keeps' = [keeps EXCEPT ![a] = a]
    /\ Moves(a, "record")
    /\ UNCHANGED <<asked, worker, record, blind, faults>>

(* No runtime, no directory or no process: stop finds nothing to do. *)
CannotSpawn(a) ==
    /\ app[a] = "spawn" /\ Moves(a, "worker")
    /\ UNCHANGED <<keeps, asked, osVars, blind, faults>>

RecordTakenOnly(a) ==    \* mutant: a spawned server is not written down
    /\ app[a] = "record"
    /\ record' = IF keeps[a] = a THEN record ELSE [server |-> keeps[a], supervisor |-> a]
    /\ Moves(a, IF keeps[a] = a THEN "await" ELSE "worker")
    /\ UNCHANGED <<keeps, asked, server, worker, blind, faults>>

RecordSpawnedOnly(a) ==    \* mutant: a take-over is not written down
    /\ app[a] = "record"
    /\ record' = IF keeps[a] = a THEN [server |-> a, supervisor |-> a] ELSE record
    /\ Moves(a, IF keeps[a] = a THEN "await" ELSE "worker")
    /\ UNCHANGED <<keeps, asked, server, worker, blind, faults>>

(* write_text may fail, with the old record still there or truncated, and  *)
(* the start goes on.  A server taken over is up; one just spawned is      *)
(* waited for.                                                             *)
Record(a) ==
    /\ app[a] = "record"
    /\ \/ /\ record' = [server |-> keeps[a], supervisor |-> a]
          /\ blind' = blind
       \/ /\ record' \in {record, NoRecord}
          /\ blind' = blind \cup {keeps[a]}
    /\ Moves(a, IF keeps[a] = a THEN "await" ELSE "worker")
    /\ UNCHANGED <<keeps, asked, server, worker, faults>>

(* _await_ready polls its own process first; then whoever answers will do. *)
Await(a) ==
    /\ app[a] = "await"
    /\ \/ Exited(a) /\ Moves(a, "undo")
       \/ ~Exited(a) /\ Answers(TRUE) /\ Moves(a, "worker")
    /\ UNCHANGED <<keeps, asked, osVars, blind, faults>>

TimesOut(a) ==
    /\ app[a] = "await" /\ Moves(a, "undo")
    /\ UNCHANGED <<keeps, asked, osVars, blind, faults>>

(* stop, as a failed start calls it: what it spawned is told to go, reaped  *)
(* or killed, and the record dropped.                                       *)
Undo(a) ==
    /\ app[a] = "undo"
    /\ server' = [server EXCEPT ![keeps[a]] = "gone"]
    /\ Moves(a, "unrecord")
    /\ UNCHANGED <<keeps, asked, worker, record, blind, faults>>

(* ownership.forget: whatever the record says by now, if unlink lets it.   *)
Dropped == record' \in {NoRecord, record}

Unrecord(a) ==
    /\ app[a] = "unrecord"
    /\ Dropped
    /\ keeps' = [keeps EXCEPT ![a] = Nobody]
    /\ Moves(a, "worker")
    /\ UNCHANGED <<asked, server, worker, blind, faults>>

(* The failure is swallowed: the worker starts over whatever is there. *)
StartWorker(a) ==
    /\ app[a] = "worker"
    /\ \E lives \in BOOLEAN : worker' = [worker EXCEPT ![a] = IF lives THEN "running" ELSE "gone"]
    /\ Moves(a, "up")
    /\ UNCHANGED <<keeps, asked, server, record, blind, faults>>

-----------------------------------------------------------------------------
(* The shutdown: both asked, then both reaped.                             *)

Shutdown(a) ==
    /\ app[a] = "up" /\ Moves(a, "askWorker")
    /\ UNCHANGED <<keeps, asked, osVars, blind, faults>>

AskWorker(a) ==
    /\ app[a] = "askWorker"
    /\ worker' = [worker EXCEPT ![a] = IF @ = "running" THEN "asked" ELSE @]
    /\ Moves(a, "askServer")
    /\ UNCHANGED <<keeps, asked, server, record, blind, faults>>

AskLater(a) ==    \* mutant: the server is signalled once the worker is reaped
    /\ app[a] = "askServer"
    /\ Moves(a, "reapWorker")
    /\ UNCHANGED <<keeps, asked, osVars, blind, faults>>

AskRecorded(a) ==    \* mutant: the server of the record is signalled
    /\ app[a] = "askServer"
    /\ server' = IF Running(record.server) THEN [server EXCEPT ![record.server] = "stopping"]
                 ELSE server
    /\ Moves(a, "reapWorker")
    /\ UNCHANGED <<keeps, asked, worker, record, blind, faults>>

(* request_stop: SIGTERM once, to a server it owns. *)
AskServer(a) ==
    /\ app[a] = "askServer"
    /\ IF keeps[a] # Nobody /\ ~Exited(a)
       THEN /\ asked' = [asked EXCEPT ![a] = TRUE]
            /\ server' = [server EXCEPT ![keeps[a]] = "stopping"]
       ELSE UNCHANGED <<asked, server>>
    /\ Moves(a, "reapWorker")
    /\ UNCHANGED <<keeps, worker, record, blind, faults>>

(* Waited for, and killed when the grace is over. *)
ReapWorker(a) ==
    /\ app[a] = "reapWorker"
    /\ worker' = [worker EXCEPT ![a] = "gone"]
    /\ Moves(a, IF keeps[a] = Nobody THEN "down" ELSE "reapServer")
    /\ UNCHANGED <<keeps, asked, server, record, blind, faults>>

ReapNothing(a) ==    \* mutant: the wait times out and nothing is killed
    /\ app[a] = "reapServer"
    /\ Moves(a, "forget")
    /\ UNCHANGED <<keeps, asked, osVars, blind, faults>>

(* stop asks again, which signals once, and kills when the grace is over. *)
ReapServer(a) ==
    /\ app[a] = "reapServer"
    /\ server' = [server EXCEPT ![keeps[a]] = "gone"]
    /\ Moves(a, "forget")
    /\ UNCHANGED <<keeps, asked, worker, record, blind, faults>>

Forget(a) ==
    /\ app[a] = "forget"
    /\ Dropped
    /\ keeps' = [keeps EXCEPT ![a] = Nobody] /\ asked' = [asked EXCEPT ![a] = FALSE]
    /\ Moves(a, "down")
    /\ UNCHANGED <<server, worker, blind, faults>>

-----------------------------------------------------------------------------
(* The operating system and the children.                                  *)

(* One server holds the port; the other finds it taken and exits. *)
PortTaken == \E s \in App : server[s] \in {"serving", "stopping"}

Binds(s) ==
    /\ server[s] = "starting"
    /\ server' = [server EXCEPT ![s] = IF PortTaken THEN "gone" ELSE "serving"]
    /\ UNCHANGED <<appVars, worker, record, blind, faults>>

ServerExits(s) ==
    /\ server[s] = "stopping"
    /\ server' = [server EXCEPT ![s] = "gone"]
    /\ UNCHANGED <<appVars, worker, record, blind, faults>>

ServerCrashes(s) ==
    /\ server[s] \in {"starting", "serving"} /\ faults < MaxFaults
    /\ server' = [server EXCEPT ![s] = "gone"]
    /\ faults' = faults + 1
    /\ UNCHANGED <<appVars, worker, record, blind>>

WorkerExits(a) ==
    /\ worker[a] = "asked"
    /\ worker' = [worker EXCEPT ![a] = "gone"]
    /\ UNCHANGED <<appVars, server, record, blind, faults>>

(* _stop_when_orphaned: the parent is gone, the loop is asked, then made, to end. *)
OrphanStops(a) ==
    /\ worker[a] \in {"running", "asked"} /\ app[a] = "dead"
    /\ worker' = [worker EXCEPT ![a] = "gone"]
    /\ UNCHANGED <<appVars, server, record, blind, faults>>

(* SIGKILL, at any point: two seconds into a shutdown, or just so. *)
Killed(a) ==
    /\ Alive(a) /\ faults < MaxFaults
    /\ Moves(a, "dead")
    /\ blind' = IF keeps[a] = a /\ app[a] = "record" THEN blind \cup {a} ELSE blind
    /\ faults' = faults + 1
    /\ UNCHANGED <<keeps, asked, osVars>>

-----------------------------------------------------------------------------
StartStep(a) ==
    \/ Start(a) \/ Adopt(a) \/ Spawn(a) \/ CannotSpawn(a) \/ Record(a)
    \/ Await(a) \/ TimesOut(a) \/ Undo(a) \/ Unrecord(a) \/ StartWorker(a)

StopStep(a) ==
    AskWorker(a) \/ AskServer(a) \/ ReapWorker(a) \/ ReapServer(a) \/ Forget(a)

ChildStep(a) ==
    Binds(a) \/ ServerExits(a) \/ WorkerExits(a) \/ OrphanStops(a)

Moving == {a \in App : app[a] \in Starting \cup Stopping}

Kept   == {keeps[a] : a \in {x \in App : Alive(x)}} \ {Nobody}

Watch ==
    crossed' = \/ crossed
               \/ Cardinality(Moving') > 1 \/ Cardinality(Kept') > 1
               \/ \E a, s \in App : app'[a] = "spawn" /\ Running(s)

Step(a) ==
    \/ StartStep(a) \/ Shutdown(a) \/ StopStep(a)
    \/ ChildStep(a) \/ ServerCrashes(a) \/ Killed(a)

Next == (\E a \in App : Step(a)) /\ Watch

Spec == Init /\ [][Next]_vars

-----------------------------------------------------------------------------
TypeOK ==
    /\ app \in [App -> {"off", "up"} \cup Starting \cup Stopping \cup Ended]
    /\ keeps \in [App -> App \cup {Nobody}] /\ asked \in [App -> BOOLEAN]
    /\ server \in [App -> {"none", "starting", "serving", "stopping", "gone"}]
    /\ worker \in [App -> {"none", "running", "asked", "gone"}]
    /\ record \in [server : App \cup {Nobody}, supervisor : App \cup {Nobody}]
    /\ \A a \in App : app[a] \in {"record", "await", "undo", "unrecord", "reapServer", "forget"}
                        => keeps[a] # Nobody
    /\ blind \subseteq App /\ crossed \in BOOLEAN /\ faults \in 0..MaxFaults

(* An application owns the server it spawned or one whose spawner is over:   *)
(* no start, however it is interleaved with others, takes the server of an   *)
(* application that still runs.                                              *)
NobodyIsRobbed ==
    \A a \in App : keeps[a] \notin {a, Nobody} => app[keeps[a]] = "dead"

(* A server is told to go by the application that spawned it, or after that  *)
(* application's end: a second instance never stops the first one's server.  *)
StoppedByItsOwn ==
    [][\A s \in App : server[s] = "serving" /\ server'[s] # "serving" /\ faults' = faults
         => app[s] \in {"askServer", "undo", "reapServer", "dead"}]_vars

(* Two applications own one server only when they started at the same time,  *)
(* and both read the record before either wrote it, or when the take-over of *)
(* that server could not be written down: the start goes on                  *)
(* (graph/ownership.py:98), and the next one still reads of a supervisor     *)
(* that is gone.                                                             *)
OneKeeper ==
    ~crossed => \A a, b \in {x \in App : Alive(x)} :
                   a # b /\ keeps[a] \notin blind \cup {Nobody} => keeps[a] # keeps[b]

(* A server whose application was killed is one the next start recognises,   *)
(* if ps answers, whether it was spawned or taken over and however far the   *)
(* start or the shutdown had come: the record names it and a supervisor that *)
(* is gone.  The exceptions are a record that could not be written, of which *)
(* the start takes no notice, and a kill just between Popen and the record.  *)
LeakIsRecognised ==
    ~crossed => \A s \in App \ blind :
        server[s] = "serving" /\ app[s] = "dead" /\ ~(\E a \in App : Alive(a) /\ keeps[a] = s)
            => Orphan(record) = s

(* A shutdown that waits has asked both children: a kill from here on leaves *)
(* none that never heard.                                                    *)
BothAskedBeforeAnyWait ==
    \A a \in App : app[a] \in {"reapWorker", "reapServer", "forget"} =>
        /\ worker[a] # "running"
        /\ keeps[a] # Nobody => server[keeps[a]] \in {"stopping", "gone"}

(* An application that shut down left neither the worker nor the server it   *)
(* spawned, and none drops the record while the server it kept runs: in      *)
(* whatever order applications started, failed to start and stopped, and     *)
(* whatever was killed or could not be written down beside it.               *)
NothingIsLeftBehind ==
    \A a \in App :
        /\ app[a] = "down" => ~Running(a) /\ worker[a] \in {"none", "gone"}
        /\ app[a] \in {"unrecord", "forget"} => ~Running(keeps[a])
=============================================================================
