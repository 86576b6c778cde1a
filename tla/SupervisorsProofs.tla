--------------------------- MODULE SupervisorsProofs ---------------------------
(***************************************************************************)
(* What holds of any number of application processes, however many are     *)
(* killed.  The argument is about what an application keeps: a server it   *)
(* spawned, or one it met in the record of a supervisor that is dead.      *)
(***************************************************************************)
EXTENDS Supervisors, FiniteSetTheorems, TLAPS

(* The application a record names keeps that server, or the server is gone *)
(* and the record could not be dropped.                                    *)
RecordIsKept ==
    record = NoRecord \/
        /\ record.supervisor \in App /\ record.server \in App
        /\ keeps[record.supervisor] = record.server \/ server[record.server] = "gone"

Unspawned == {"off", "adopt", "spawn"}

(* An application's own server, from before it is spawned to its reaping.  *)
OwnServer ==
    \A a \in App :
        /\ app[a] \in Unspawned \cup {"down"} => keeps[a] = Nobody
        /\ app[a] \in Unspawned => server[a] = "none"
        /\ Running(a) => keeps[a] = a \/ app[a] = "dead"
        /\ keeps[a] # Nobody => server[keeps[a]] # "none"
        /\ app[a] \in {"unrecord", "forget"} => server[keeps[a]] = "gone"

Heard(a) ==
    keeps[a] # Nobody => server[keeps[a]] \in {"stopping", "gone"}

ServerHeard ==
    \A a \in App : app[a] \in {"reapWorker", "reapServer", "forget"} => Heard(a)

(* Its worker, likewise.                                                   *)
OwnWorker ==
    \A a \in App :
        /\ app[a] \in {"off"} \cup Starting => worker[a] = "none"
        /\ app[a] \in {"askServer", "reapWorker"} => worker[a] # "running"
        /\ app[a] \in {"reapServer", "forget", "down"} => worker[a] \in {"none", "gone"}

SInv ==
    /\ TypeOK
    /\ NobodyIsRobbed
    /\ RecordIsKept
    /\ OwnServer
    /\ ServerHeard
    /\ OwnWorker

USE SupervisorAssumption
    DEF Unspawned, Starting, Stopping, Ended, Alive, Running, Moves, NoRecord,
        appVars, osVars

-----------------------------------------------------------------------------
LEMMA InitHolds == Init => SInv
<1>1. Init => TypeOK
  <2> SUFFICES ASSUME Init PROVE TypeOK
    OBVIOUS
  <2>1. app \in [App -> {"off", "up"} \cup Starting \cup Stopping \cup Ended]
    BY DEF Init
  <2>2. /\ keeps \in [App -> App \cup {Nobody}] /\ asked \in [App -> BOOLEAN]
        /\ server \in [App -> {"none", "starting", "serving", "stopping", "gone"}]
        /\ worker \in [App -> {"none", "running", "asked", "gone"}]
    BY DEF Init
  <2>3. record \in [server : App \cup {Nobody}, supervisor : App \cup {Nobody}]
    BY DEF Init
  <2>4. blind \subseteq App /\ crossed \in BOOLEAN
    BY DEF Init
  <2>5. faults \in 0..MaxFaults
    BY DEF Init
  <2>6. QED  BY <2>1, <2>2, <2>3, <2>4, <2>5 DEF Init, TypeOK
<1>2. Init => NobodyIsRobbed /\ RecordIsKept
  BY DEF Init, NobodyIsRobbed, RecordIsKept
<1>3. Init => OwnServer /\ ServerHeard /\ OwnWorker
  BY DEF Init, OwnServer, ServerHeard, OwnWorker
<1>4. QED  BY <1>1, <1>2, <1>3 DEF SInv

(* Types, and the states in which an application keeps a server. *)
LEMMA TypeHolds ==
    ASSUME SInv, NEW a \in App, Step(a), Watch PROVE TypeOK'
<1>1. CASE Start(a)
  BY <1>1 DEF SInv, TypeOK, Watch, Start
<1>2. CASE Adopt(a)
  BY <1>2 DEF SInv, TypeOK, Watch, RecordIsKept, Adopt, Orphan
<1>3. CASE Await(a)
  BY <1>3 DEF SInv, TypeOK, Watch, Await
<1>4. CASE AskServer(a)
<2>1. CASE keeps[a] # Nobody /\ ~Exited(a)
  BY <1>4, <2>1 DEF SInv, TypeOK, Watch, AskServer
<2>2. CASE ~(keeps[a] # Nobody /\ ~Exited(a))
  BY <1>4, <2>2 DEF SInv, TypeOK, Watch, AskServer
<2>3. QED  BY <2>1, <2>2
<1>5. CASE ReapWorker(a)
  BY <1>5 DEF SInv, TypeOK, Watch, ReapWorker
<1>6. CASE Record(a)
  BY <1>6 DEF SInv, TypeOK, Watch, Record
<1>7. CASE Spawn(a) \/ CannotSpawn(a) \/ TimesOut(a) \/ Undo(a)
  BY <1>7 DEF SInv, TypeOK, Watch, Spawn, CannotSpawn, TimesOut, Undo
<1>8. CASE Unrecord(a)
  BY <1>8 DEF SInv, TypeOK, Watch, Dropped, Unrecord
<1>9. CASE StartWorker(a)
  BY <1>9 DEF SInv, TypeOK, Watch, StartWorker
<1>10. CASE AskWorker(a)
  BY <1>10 DEF SInv, TypeOK, Watch, AskWorker
<1>11. CASE Shutdown(a) \/ ReapServer(a) \/ Forget(a)
  <2>1. CASE Shutdown(a)
    BY <2>1 DEF SInv, TypeOK, Watch, Shutdown
  <2>2. CASE ReapServer(a)
    BY <2>2 DEF SInv, TypeOK, Watch, ReapServer
  <2>3. CASE Forget(a)
    BY <2>3 DEF SInv, TypeOK, Watch, Dropped, Forget
  <2>4. QED  BY <1>11, <2>1, <2>2, <2>3
<1>12. CASE Binds(a)
  BY <1>12 DEF SInv, TypeOK, Watch, Binds
<1>13. CASE ServerExits(a) \/ WorkerExits(a) \/ OrphanStops(a)
  BY <1>13 DEF SInv, TypeOK, Watch, ServerExits, WorkerExits, OrphanStops
<1>14. CASE ServerCrashes(a)
  BY <1>14 DEF SInv, TypeOK, Watch, ServerCrashes
<1>15. CASE Killed(a)
  BY <1>15 DEF SInv, TypeOK, Watch, Killed
<1>16. QED
  BY <1>1, <1>2, <1>3, <1>4, <1>5, <1>6, <1>7, <1>8, <1>9, <1>10, <1>11,
     <1>12, <1>13, <1>14, <1>15 DEF Step, StartStep, StopStep, ChildStep

(* A server is taken over from a supervisor that is dead, and who took it
   from somebody before that had found that one dead. *)
LEMMA KeepsHold ==
    ASSUME SInv, NEW a \in App, Step(a), Watch PROVE NobodyIsRobbed'
<1>1. CASE Adopt(a)
  BY <1>1 DEF SInv, TypeOK, NobodyIsRobbed, RecordIsKept,
         OwnServer, Adopt, Orphan
<1>2. CASE Start(a)
  BY <1>2 DEF SInv, TypeOK, NobodyIsRobbed, Start
<1>3. CASE Record(a)
  BY <1>3 DEF SInv, TypeOK, NobodyIsRobbed, Record
<1>4. CASE Await(a)
  BY <1>4, ZenonT(60) DEF SInv, TypeOK, NobodyIsRobbed, Await
<1>5. CASE Spawn(a) \/ CannotSpawn(a) \/ TimesOut(a)
  BY <1>5 DEF SInv, TypeOK, NobodyIsRobbed, Spawn, CannotSpawn, TimesOut
<1>6. CASE StartWorker(a)
  BY <1>6 DEF SInv, TypeOK, NobodyIsRobbed, StartWorker
<1>7. CASE AskWorker(a)
  BY <1>7 DEF SInv, TypeOK, NobodyIsRobbed, AskWorker
<1>8. CASE Undo(a) \/ Unrecord(a) \/ Shutdown(a)
  BY <1>8 DEF SInv, TypeOK, NobodyIsRobbed, Undo, Unrecord, Shutdown
<1>9. CASE AskServer(a)
  BY <1>9 DEF SInv, TypeOK, NobodyIsRobbed, AskServer
<1>10. CASE ReapWorker(a)
  BY <1>10 DEF SInv, TypeOK, NobodyIsRobbed, ReapWorker
<1>11. CASE Binds(a)
  BY <1>11 DEF SInv, TypeOK, NobodyIsRobbed, Binds
<1>12. CASE ReapServer(a) \/ Forget(a)
  BY <1>12 DEF SInv, TypeOK, NobodyIsRobbed, ReapServer, Forget
<1>13. CASE Killed(a)
  BY <1>13 DEF SInv, TypeOK, NobodyIsRobbed, Killed
<1>14. CASE ServerExits(a) \/ WorkerExits(a) \/ OrphanStops(a)
  BY <1>14 DEF SInv, TypeOK, NobodyIsRobbed, ServerExits, WorkerExits,
         OrphanStops
<1>15. CASE ServerCrashes(a)
  BY <1>15 DEF SInv, TypeOK, NobodyIsRobbed, ServerCrashes
<1>16. QED
  BY <1>1, <1>2, <1>3, <1>4, <1>5, <1>6, <1>7, <1>8, <1>9, <1>10, <1>11,
     <1>12, <1>13, <1>14, <1>15 DEF Step, StartStep, StopStep, ChildStep

(* Whoever gives its server up drops the record, whoever's it is by then. *)
LEMMA RecordHolds ==
    ASSUME SInv, NEW a \in App, Step(a), Watch PROVE RecordIsKept'
<1>1. CASE Adopt(a)
  BY <1>1 DEF SInv, TypeOK, RecordIsKept, OwnServer, Adopt
<1>2. CASE Spawn(a)
  BY <1>2 DEF SInv, TypeOK, RecordIsKept, OwnServer, Spawn
<1>3. CASE Start(a)
  BY <1>3 DEF SInv, TypeOK, RecordIsKept, Start
<1>4. CASE Record(a)
  BY <1>4 DEF SInv, TypeOK, RecordIsKept, Record
<1>5. CASE Await(a)
  BY <1>5 DEF SInv, TypeOK, RecordIsKept, Await
<1>6. CASE CannotSpawn(a) \/ TimesOut(a) \/ Undo(a)
  BY <1>6 DEF SInv, TypeOK, RecordIsKept, CannotSpawn, TimesOut, Undo
<1>7. CASE StartWorker(a)
  BY <1>7 DEF SInv, TypeOK, RecordIsKept, StartWorker
<1>8. CASE AskWorker(a)
  BY <1>8 DEF SInv, TypeOK, RecordIsKept, AskWorker
<1>9. CASE AskServer(a)
  BY <1>9 DEF SInv, TypeOK, RecordIsKept, AskServer, Exited
<1>10. CASE Unrecord(a) \/ Shutdown(a)
  BY <1>10 DEF SInv, TypeOK, RecordIsKept, OwnServer, Dropped, Unrecord, Shutdown
<1>11. CASE ReapWorker(a)
  BY <1>11 DEF SInv, TypeOK, RecordIsKept, ReapWorker
<1>12. CASE Binds(a)
  BY <1>12 DEF SInv, TypeOK, RecordIsKept, Binds
<1>13. CASE ReapServer(a) \/ Forget(a) \/ ServerExits(a)
  BY <1>13 DEF SInv, TypeOK, RecordIsKept, OwnServer, Dropped, ReapServer, Forget,
         ServerExits
<1>14. CASE Killed(a)
  BY <1>14 DEF SInv, TypeOK, RecordIsKept, Killed
<1>15. CASE WorkerExits(a) \/ OrphanStops(a) \/ ServerCrashes(a)
  BY <1>15 DEF SInv, TypeOK, RecordIsKept, WorkerExits, OrphanStops,
         ServerCrashes
<1>16. QED
  BY <1>1, <1>2, <1>3, <1>4, <1>5, <1>6, <1>7, <1>8, <1>9, <1>10, <1>11,
     <1>12, <1>13, <1>14, <1>15 DEF Step, StartStep, StopStep, ChildStep

(* Nobody else touches the server of an application that has not spawned it. *)
LEMMA OwnServerHolds ==
    ASSUME SInv, NEW a \in App, Step(a), Watch PROVE OwnServer'
<1>1. CASE Adopt(a)
  BY <1>1 DEF SInv, TypeOK, OwnServer, Adopt, Orphan
<1>2. CASE Undo(a)
  BY <1>2 DEF SInv, TypeOK, OwnServer, NobodyIsRobbed, Undo
<1>3. CASE ReapServer(a)
  BY <1>3 DEF SInv, TypeOK, OwnServer, NobodyIsRobbed, ReapServer
<1>4. CASE Start(a)
  BY <1>4 DEF SInv, TypeOK, OwnServer, Start
<1>5. CASE Record(a)
  BY <1>5 DEF SInv, TypeOK, OwnServer, Record
<1>6. CASE Await(a)
  <2>1. CASE Moves(a, "undo")
    BY <1>6, <2>1 DEF SInv, TypeOK, OwnServer, Await
  <2>2. CASE Moves(a, "worker")
    BY <1>6, <2>2 DEF SInv, TypeOK, OwnServer, Await
  <2>3. QED  BY <1>6, <2>1, <2>2 DEF Await
<1>7. CASE Spawn(a) \/ CannotSpawn(a) \/ TimesOut(a)
  BY <1>7 DEF SInv, TypeOK, OwnServer, Spawn, CannotSpawn, TimesOut
<1>8. CASE StartWorker(a)
  BY <1>8 DEF SInv, TypeOK, OwnServer, StartWorker
<1>9. CASE AskWorker(a)
  BY <1>9 DEF SInv, TypeOK, OwnServer, AskWorker
<1>10. CASE AskServer(a)
  <2>1. CASE keeps[a] # Nobody /\ ~Exited(a)
    BY <1>10, <2>1 DEF SInv, TypeOK, OwnServer, NobodyIsRobbed, AskServer, Exited
  <2>2. CASE ~(keeps[a] # Nobody /\ ~Exited(a))
    BY <1>10, <2>2 DEF SInv, TypeOK, OwnServer, AskServer
  <2>3. QED  BY <2>1, <2>2
<1>11. CASE Unrecord(a) \/ Shutdown(a)
  BY <1>11 DEF SInv, TypeOK, OwnServer, Unrecord, Shutdown
<1>12. CASE ReapWorker(a)
  BY <1>12 DEF SInv, TypeOK, OwnServer, ReapWorker
<1>13. CASE Binds(a)
  BY <1>13 DEF SInv, TypeOK, OwnServer, Binds
<1>14. CASE Forget(a) \/ ServerExits(a) \/ WorkerExits(a)
  BY <1>14 DEF SInv, TypeOK, OwnServer, Forget, ServerExits, WorkerExits
<1>15. CASE Killed(a)
  BY <1>15 DEF SInv, TypeOK, OwnServer, Killed
<1>16. CASE OrphanStops(a) \/ ServerCrashes(a)
  BY <1>16 DEF SInv, TypeOK, OwnServer, OrphanStops, ServerCrashes
<1>17. QED
  BY <1>1, <1>2, <1>3, <1>4, <1>5, <1>6, <1>7, <1>8, <1>9, <1>10, <1>11,
     <1>12, <1>13, <1>14, <1>15, <1>16 DEF Step, StartStep, StopStep,
     ChildStep

(* A server that is on its way out stays so: it was spawned long ago. *)
LEMMA ServerHeardHolds ==
    ASSUME SInv, NEW a \in App, Step(a), Watch PROVE ServerHeard'
<1>1. CASE Spawn(a)
  BY <1>1 DEF SInv, TypeOK, ServerHeard, Heard, OwnServer, Spawn
<1>2. CASE AskServer(a)
  BY <1>2 DEF SInv, TypeOK, ServerHeard, Heard, OwnServer, AskServer, Exited
<1>3. CASE Start(a)
  BY <1>3 DEF SInv, TypeOK, ServerHeard, Heard, Start
<1>4. CASE Record(a)
  BY <1>4 DEF SInv, TypeOK, ServerHeard, Heard, Record
<1>5. CASE Await(a)
  BY <1>5 DEF SInv, TypeOK, ServerHeard, Heard, Await
<1>6. CASE Adopt(a) \/ CannotSpawn(a) \/ TimesOut(a)
  BY <1>6 DEF SInv, TypeOK, ServerHeard, Heard, Adopt, CannotSpawn, TimesOut
<1>7. CASE StartWorker(a)
  BY <1>7 DEF SInv, TypeOK, ServerHeard, Heard, StartWorker
<1>8. CASE AskWorker(a)
  BY <1>8 DEF SInv, TypeOK, ServerHeard, Heard, AskWorker
<1>9. CASE Undo(a) \/ Unrecord(a) \/ Shutdown(a)
  BY <1>9 DEF SInv, TypeOK, ServerHeard, Heard, Undo, Unrecord, Shutdown
<1>10. CASE ReapWorker(a)
  BY <1>10 DEF SInv, TypeOK, ServerHeard, Heard, ReapWorker
<1>11. CASE Binds(a)
  BY <1>11 DEF SInv, TypeOK, ServerHeard, Heard, Binds
<1>12. CASE ReapServer(a) \/ Forget(a) \/ ServerExits(a)
  BY <1>12 DEF SInv, TypeOK, ServerHeard, Heard, ReapServer, Forget,
         ServerExits
<1>13. CASE Killed(a)
  BY <1>13 DEF SInv, TypeOK, ServerHeard, Heard, Killed
<1>14. CASE WorkerExits(a) \/ OrphanStops(a) \/ ServerCrashes(a)
  BY <1>14 DEF SInv, TypeOK, ServerHeard, Heard, WorkerExits, OrphanStops,
         ServerCrashes
<1>15. QED
  BY <1>1, <1>2, <1>3, <1>4, <1>5, <1>6, <1>7, <1>8, <1>9, <1>10, <1>11,
     <1>12, <1>13, <1>14 DEF Step, StartStep, StopStep, ChildStep

(* A worker is started once, and asked before it is waited for. *)
LEMMA OwnWorkerHolds ==
    ASSUME SInv, NEW a \in App, Step(a), Watch PROVE OwnWorker'
<1>1. CASE Start(a)
  BY <1>1 DEF SInv, TypeOK, OwnWorker, Start
<1>2. CASE Record(a)
  BY <1>2 DEF SInv, TypeOK, OwnWorker, Record
<1>3. CASE Await(a)
  BY <1>3 DEF SInv, TypeOK, OwnWorker, Await
<1>4. CASE Adopt(a) \/ Spawn(a)
  BY <1>4 DEF SInv, TypeOK, OwnWorker, Adopt, Spawn
<1>5. CASE StartWorker(a)
  BY <1>5 DEF SInv, TypeOK, OwnWorker, StartWorker
<1>6. CASE CannotSpawn(a) \/ TimesOut(a) \/ Undo(a) \/ Unrecord(a)
  BY <1>6 DEF SInv, TypeOK, OwnWorker, CannotSpawn, TimesOut, Undo, Unrecord
<1>7. CASE Shutdown(a)
  BY <1>7 DEF SInv, TypeOK, OwnWorker, Shutdown
<1>8. CASE AskWorker(a)
  BY <1>8 DEF SInv, TypeOK, OwnWorker, AskWorker
<1>9. CASE AskServer(a)
  BY <1>9 DEF SInv, TypeOK, OwnWorker, AskServer
<1>10. CASE ReapWorker(a)
  BY <1>10 DEF SInv, TypeOK, OwnWorker, ReapWorker
<1>11. CASE ReapServer(a) \/ Forget(a)
  BY <1>11 DEF SInv, TypeOK, OwnWorker, ReapServer, Forget
<1>12. CASE Binds(a)
  BY <1>12 DEF SInv, TypeOK, OwnWorker, Binds
<1>13. CASE ServerExits(a) \/ WorkerExits(a) \/ OrphanStops(a)
  BY <1>13 DEF SInv, TypeOK, OwnWorker, ServerExits, WorkerExits,
         OrphanStops
<1>14. CASE ServerCrashes(a)
  BY <1>14 DEF SInv, TypeOK, OwnWorker, ServerCrashes
<1>15. CASE Killed(a)
  BY <1>15 DEF SInv, TypeOK, OwnWorker, Killed
<1>16. QED
  BY <1>1, <1>2, <1>3, <1>4, <1>5, <1>6, <1>7, <1>8, <1>9, <1>10, <1>11,
     <1>12, <1>13, <1>14, <1>15 DEF Step, StartStep, StopStep, ChildStep

LEMMA StepHolds == SInv /\ [Next]_vars => SInv'
<1>1. ASSUME SInv, NEW a \in App, Step(a), Watch PROVE SInv'
  BY <1>1, TypeHolds, KeepsHold, RecordHolds, OwnServerHolds,
     ServerHeardHolds, OwnWorkerHolds DEF SInv
<1>2. ASSUME SInv, UNCHANGED vars PROVE SInv'
  BY <1>2 DEF SInv, vars, TypeOK, NobodyIsRobbed, RecordIsKept, OwnServer,
              ServerHeard, Heard, OwnWorker
<1>3. QED  BY <1>1, <1>2 DEF Next

LEMMA Invariance == Spec => []SInv
BY InitHolds, StepHolds, PTL DEF Spec

-----------------------------------------------------------------------------
(* The handles, the record and the lifespan keep their types, and an       *)
(* application is in a state that needs a server only while it keeps one   *)
(* (graph/server.py).                                                      *)
THEOREM SupervisorsTypeCorrect == Spec => []TypeOK
BY Invariance, PTL DEF SInv

(* No start takes the server of an application that still runs, however    *)
(* many start, stop and are killed at once (graph/ownership.py).           *)
THEOREM NobodyIsEverRobbed == Spec => []NobodyIsRobbed
BY Invariance, PTL DEF SInv

(* No shutdown and no failed start of one application stops the server     *)
(* another one runs (request_stop, stop).                                  *)
THEOREM ServersAreStoppedByTheirOwn == Spec => StoppedByItsOwn
<1>1. ASSUME SInv, NEW a \in App, Step(a), NEW s \in App,
             server[s] = "serving", server'[s] # "serving", faults' = faults
      PROVE  app[s] \in {"askServer", "undo", "reapServer", "dead"}
  <2>1. CASE Undo(a) \/ AskServer(a) \/ ReapServer(a)
    BY <1>1, <2>1 DEF SInv, TypeOK, NobodyIsRobbed, Undo, AskServer, ReapServer
  <2>2. CASE Spawn(a) \/ Binds(a) \/ ServerExits(a)
    BY <1>1, <2>2 DEF SInv, TypeOK, OwnServer, Spawn, Binds, ServerExits
  <2>3. CASE ServerCrashes(a)
    BY <1>1, <2>3 DEF SInv, TypeOK, ServerCrashes
  <2>4. CASE UNCHANGED server
    BY <1>1, <2>4
  <2>5. QED
    BY <1>1, <2>1, <2>2, <2>3, <2>4
    DEF Step, StartStep, StopStep, ChildStep, Start, Adopt, Record, Await,
        CannotSpawn, TimesOut, Unrecord, StartWorker, Shutdown, AskWorker, ReapWorker,
        Forget, WorkerExits, OrphanStops, Killed
<1>2. SInv /\ [Next]_vars =>
        [\A s \in App : server[s] = "serving" /\ server'[s] # "serving"
                          /\ faults' = faults
            => app[s] \in {"askServer", "undo", "reapServer", "dead"}]_vars
  BY <1>1 DEF Next
<1>3. QED  BY Invariance, <1>2, PTL DEF Spec, StoppedByItsOwn

(* A shutdown waits for neither child before both were asked, whether the  *)
(* server was spawned or taken over (app/supervisors.py).                  *)
THEOREM BothAreAskedBeforeAnyWait == Spec => []BothAskedBeforeAnyWait
<1>1. SInv => BothAskedBeforeAnyWait
  BY DEF SInv, TypeOK, ServerHeard, Heard, OwnWorker, BothAskedBeforeAnyWait
<1>2. QED  BY Invariance, <1>1, PTL

(* An application that shut down leaves neither the worker nor the server  *)
(* it spawned, and never drops the record of one that runs, whatever other *)
(* applications do or had done to them (app/supervisors.py, server.stop).  *)
THEOREM ShutdownsLeaveNothing == Spec => []NothingIsLeftBehind
<1>1. SInv => NothingIsLeftBehind
  BY DEF SInv, TypeOK, OwnServer, OwnWorker, NothingIsLeftBehind
<1>2. QED  BY Invariance, <1>1, PTL
-----------------------------------------------------------------------------
(* One application at a time.  While no two start or stop at once, and for   *)
(* the servers that could be written down: at most one application keeps it, *)
(* the record follows that one, and a server nobody keeps any more is the    *)
(* one of the record, unless its application was killed between Popen and    *)
(* the record.                                                               *)
Keepers == {a \in App : Alive(a) /\ keeps[a] # Nobody}

SoleMover  == \A a, b \in Moving : a = b
SoleKeeper == \A a, b \in Keepers : keeps[a] \notin blind => a = b

FreeToSpawn ==
    \A a, s \in App : app[a] = "spawn" => ~Running(s)

RecordFollows ==
    \A a \in Keepers : keeps[a] \notin blind /\ Running(keeps[a]) =>
        /\ app[a] # "record" => record = [server |-> keeps[a], supervisor |-> a]
        /\ app[a] = "record" /\ keeps[a] # a => record.server = keeps[a]

Leaked(s) == s \notin blind /\ Running(s) /\ \A a \in Keepers : keeps[a] # s

LeaksRecorded ==
    \A s \in App : Leaked(s) => record.server = s /\ Keepers = {}

Serial ==
    SoleMover /\ SoleKeeper /\ FreeToSpawn /\ RecordFollows /\ LeaksRecorded

SerialInv == ~crossed => Serial

LEMMA AtMostOne ==
    ASSUME NEW S \in SUBSET App, ~(Cardinality(S) > 1)
    PROVE  \A x, y \in S : x = y
<1> SUFFICES ASSUME NEW x \in S, NEW y \in S, x # y PROVE FALSE
  OBVIOUS
<1>1. IsFiniteSet({x}) /\ Cardinality({x}) = 1
  BY FS_Singleton
<1>2. Cardinality({x} \cup {y}) = 2
  <2> DEFINE X == {x}
  <2>1. IsFiniteSet(X) /\ Cardinality(X) = 1 /\ y \notin X
    BY <1>1
  <2> HIDE DEF X
  <2>2. Cardinality(X \cup {y}) = Cardinality(X) + 1
    BY <2>1, FS_AddElement
  <2> QED BY <2>1, <2>2 DEF X
<1>3. IsFiniteSet(S) /\ Cardinality(S) \in Nat
  BY FS_Subset, FS_CardinalityType
<1>4. Cardinality({x} \cup {y}) <= Cardinality(S)
  BY <1>3, FS_Subset
<1> QED BY <1>2, <1>3, <1>4

LEMMA InitSerial == Init => SerialInv
BY DEF Init, SerialInv, Serial, SoleMover, SoleKeeper, FreeToSpawn, RecordFollows,
       LeaksRecorded, Leaked, Keepers, Moving

(* What Watch saw nothing of.                                                *)
LEMMA Watched ==
    ASSUME SInv, SInv', Watch, ~crossed'
    PROVE  /\ ~crossed
           /\ SoleMover'
           /\ \A a, b \in Keepers' : keeps'[a] = keeps'[b]
           /\ \A a, s \in App : app'[a] = "spawn" => ~Running(s)
<1>1. /\ ~crossed /\ ~(Cardinality(Moving') > 1) /\ ~(Cardinality(Kept') > 1)
      /\ \A a, s \in App : app'[a] = "spawn" => ~Running(s)
  BY DEF Watch, SInv, TypeOK
<1>2. Moving' \in SUBSET App
  BY DEF Moving
<1>3. Kept' \in SUBSET App
  BY DEF Kept, SInv, TypeOK
<1>4. SoleMover'
  BY <1>1, <1>2, AtMostOne DEF SoleMover
<1>5. \A x, y \in Kept' : x = y
  BY <1>1, <1>3, AtMostOne
<1>6. \A a \in Keepers' : keeps'[a] \in Kept'
  BY DEF Keepers, Kept
<1> QED BY <1>1, <1>4, <1>5, <1>6

(* Who comes to keep a server, and whose server stops running.               *)
LEMMA KeepersStep ==
    ASSUME SInv, NEW a \in App, Step(a)
    PROVE  /\ \A b \in App \ {a} : app'[b] = app[b] /\ keeps'[b] = keeps[b]
           /\ \/ Spawn(a) \/ Adopt(a)
              \/ keeps'[a] \in {keeps[a], Nobody}
<1>1. CASE Unrecord(a) \/ Forget(a)
  BY <1>1 DEF SInv, TypeOK, Dropped, Unrecord, Forget
<1>2. CASE Spawn(a) \/ Adopt(a)
  BY <1>2 DEF SInv, TypeOK, Spawn, Adopt
<1>3. CASE /\ keeps' = keeps
           /\ \E l \in {"off", "up"} \cup Starting \cup Stopping \cup Ended :
                app' = [app EXCEPT ![a] = l]
  BY <1>3 DEF SInv, TypeOK
<1>4. CASE keeps' = keeps /\ app' = app
  BY <1>4
<1>5. CASE \/ Start(a) \/ CannotSpawn(a) \/ Record(a) \/ Await(a) \/ TimesOut(a)
           \/ Undo(a) \/ StartWorker(a)
  BY <1>3, <1>5 DEF Start, CannotSpawn, Record, Await, TimesOut, Undo, StartWorker
<1>6. CASE Shutdown(a) \/ AskWorker(a) \/ AskServer(a) \/ ReapWorker(a) \/ ReapServer(a)
           \/ Killed(a)
  BY <1>3, <1>6 DEF Shutdown, AskWorker, AskServer, ReapWorker, ReapServer, Killed
<1>7. CASE ChildStep(a) \/ ServerCrashes(a)
  BY <1>4, <1>7
  DEF ChildStep, Binds, ServerExits, WorkerExits, OrphanStops, ServerCrashes
<1> QED BY <1>1, <1>2, <1>5, <1>6, <1>7 DEF Step, StartStep, StopStep

(* Only applications that are off or alive move, and a server comes to run   *)
(* only by being spawned.                                                    *)
LEMMA AliveStep ==
    ASSUME SInv, NEW a \in App, Step(a)
    PROVE  app'[a] = app[a] \/ app[a] = "off" \/ Alive(a)
BY DEF Step, StartStep, Start, Adopt, Spawn, CannotSpawn, Record, Await, TimesOut, Undo,
       Unrecord, StartWorker, Shutdown, StopStep, AskWorker, AskServer, ReapWorker, ReapServer, Forget,
       ChildStep, Binds, ServerExits, WorkerExits, OrphanStops, ServerCrashes, Killed

LEMMA RunningStep ==
    ASSUME SInv, NEW a \in App, Step(a), NEW s \in App, Running(s)'
    PROVE  Running(s) \/ (Spawn(a) /\ s = a)
<1>1. CASE Spawn(a)
  BY <1>1 DEF SInv, TypeOK, Spawn
<1>2. CASE Undo(a) \/ ReapServer(a) \/ Binds(a) \/ ServerExits(a) \/ ServerCrashes(a)
  BY <1>2 DEF SInv, TypeOK, Undo, ReapServer, Binds, ServerExits, ServerCrashes
<1>3. CASE AskServer(a)
  BY <1>3 DEF SInv, TypeOK, AskServer, Exited
<1>4. CASE UNCHANGED server
  BY <1>4
<1>5. CASE \/ Start(a) \/ Adopt(a) \/ CannotSpawn(a) \/ Record(a) \/ Await(a)
           \/ TimesOut(a) \/ Unrecord(a) \/ StartWorker(a)
  BY <1>4, <1>5 DEF Start, Adopt, CannotSpawn, Record, Await, TimesOut, Unrecord, StartWorker
<1>6. CASE Shutdown(a) \/ AskWorker(a) \/ ReapWorker(a) \/ Forget(a) \/ WorkerExits(a)
           \/ OrphanStops(a) \/ Killed(a)
  BY <1>4, <1>6 DEF Shutdown, AskWorker, ReapWorker, Forget, WorkerExits, OrphanStops, Killed
<1> QED BY <1>1, <1>2, <1>3, <1>5, <1>6 DEF Step, StartStep, StopStep, ChildStep

(* A server that could not be written down stays so.                         *)
LEMMA BlindStep ==
    ASSUME SInv, NEW a \in App, Step(a)
    PROVE  blind \subseteq blind'
<1>1. CASE Killed(a) \/ Record(a)
  BY <1>1 DEF Killed, Record
<1>2. CASE ~(Killed(a) \/ Record(a))
  BY <1>2 DEF Step, StartStep, Start, Adopt, Spawn, CannotSpawn, Await, TimesOut, Undo, Unrecord,
     StartWorker, Shutdown, StopStep, AskWorker, AskServer, ReapWorker, ReapServer, Forget,
     ChildStep, Binds, ServerExits, WorkerExits, OrphanStops, ServerCrashes
<1> QED BY <1>1, <1>2

(* A second keeper of a server that was written down would be one who took   *)
(* it over from a supervisor that lives, or spawned where one ran already.   *)
LEMMA SoleKeeperStep ==
    ASSUME SInv, SInv', Serial, NEW a \in App, Step(a), Watch, ~crossed'
    PROVE  SoleKeeper'
<1> SUFFICES ASSUME NEW b \in Keepers', NEW c \in Keepers', keeps'[b] \notin blind', b # c
             PROVE  FALSE
  BY DEF SoleKeeper
<1>1. keeps'[b] = keeps'[c] /\ b \in App /\ c \in App
  BY Watched DEF Keepers
<1>2. PICK d \in {b, c} : d # a
  BY <1>1
<1>3. /\ d \in Keepers /\ d \in Keepers' /\ keeps'[d] = keeps[d]
      /\ keeps[d] \notin blind
  <2>1. d \in Keepers /\ d \in Keepers' /\ keeps'[d] = keeps[d]
    BY <1>1, <1>2, KeepersStep DEF Keepers
  <2>2. keeps[d] \notin blind'
    BY <1>1, <1>2, <2>1
  <2> QED BY <2>1, <2>2, BlindStep
<1>4. \A e \in Keepers : e = d
  BY <1>3 DEF Serial, SoleKeeper
<1>5. {b, c} = {a, d}
  <2>1. \A e \in Keepers' : e = a \/ e \in Keepers
    BY KeepersStep DEF Keepers
  <2> QED BY <1>2, <1>4, <2>1
<1>6. a \in Keepers' /\ a \notin Keepers /\ keeps'[a] = keeps[d]
  BY <1>1, <1>2, <1>3, <1>4, <1>5
<1>7. CASE Spawn(a)
  <2>1. keeps[d] = a /\ app[a] = "spawn"
    BY <1>6, <1>7 DEF Spawn, SInv, TypeOK
  <2> QED BY <1>2, <1>3, <2>1 DEF SInv, NobodyIsRobbed, Keepers
<1>8. CASE Adopt(a)
  <2>1. keeps[d] = Orphan(record) /\ app[a] = "adopt" /\ keeps[d] # Nobody
    <3>1. keeps[d] # Nobody
      BY <1>3 DEF Keepers
    <3> QED BY <1>6, <1>8, <3>1 DEF Adopt, SInv, TypeOK
  <2>2. /\ keeps[d] = record.server /\ Running(record.server)
        /\ ~Alive(record.supervisor)
    BY <2>1 DEF Orphan
  <2>3. app[d] # "record"
    BY <1>2, <1>3, <2>1 DEF Serial, SoleMover, Moving, Keepers
  <2>4. record.supervisor = d
    BY <1>3, <2>2, <2>3 DEF Serial, RecordFollows
  <2> QED BY <1>3, <2>2, <2>4 DEF Keepers
<1>9. CASE keeps'[a] = keeps[a]
  <2>1. app'[a] = app[a] \/ app[a] = "off" \/ Alive(a)
    BY AliveStep
  <2>2. app[a] # "off"
    BY <1>6, <1>9 DEF Keepers, SInv, OwnServer
  <2> QED BY <1>6, <1>9, <2>1, <2>2 DEF Keepers
<1> QED BY <1>6, <1>7, <1>8, <1>9, KeepersStep DEF Keepers

LEMMA FreeToSpawnStep ==
    ASSUME SInv, SInv', Serial, NEW a \in App, Step(a), Watch, ~crossed'
    PROVE  FreeToSpawn'
<1> SUFFICES ASSUME NEW b \in App, NEW s \in App, app'[b] = "spawn", Running(s)'
             PROVE  FALSE
  BY DEF FreeToSpawn
<1>1. ~Running(s)
  BY Watched
<1>2. Spawn(a) /\ s = a
  BY <1>1, RunningStep
<1>3. app[b] = "spawn" /\ a # b
  BY <1>2 DEF Spawn, SInv, TypeOK
<1> QED BY <1>2, <1>3 DEF Spawn, Serial, SoleMover, Moving

LEMMA NewKeeper ==
    ASSUME SInv, NEW a \in App, Step(a), NEW b \in Keepers', b \notin Keepers
    PROVE  b = a /\ (Spawn(a) \/ Adopt(a))
<1>1. b \in App /\ Alive(b)' /\ keeps'[b] # Nobody
  BY DEF Keepers
<1>2. b = a
  BY <1>1, KeepersStep DEF Keepers
<1>3. CASE keeps'[a] = keeps[a]
  <2>1. app[a] # "off"
    BY <1>1, <1>2, <1>3 DEF SInv, OwnServer
  <2> QED BY <1>1, <1>2, <1>3, <2>1, AliveStep DEF Keepers
<1> QED BY <1>1, <1>2, <1>3, KeepersStep

(* A keeper goes by being killed, or by giving up a server that is gone.     *)
LEMMA LostKeeper ==
    ASSUME SInv, NEW a \in App, Step(a), NEW b \in Keepers,
           b \notin Keepers' \/ keeps'[b] # keeps[b]
    PROVE  b = a /\ (Killed(a) \/ Unrecord(a) \/ Forget(a))
<1>1. b \in App /\ Alive(b) /\ keeps[b] # Nobody
  BY DEF Keepers
<1>2. b = a
  BY <1>1, KeepersStep DEF Keepers
<1>3. CASE Killed(a) \/ Unrecord(a) \/ Forget(a)
  BY <1>2, <1>3
<1>4. CASE Start(a) \/ Adopt(a) \/ Spawn(a)
  BY <1>1, <1>2, <1>4 DEF SInv, OwnServer, Start, Adopt, Spawn
<1>5. CASE \/ CannotSpawn(a) \/ Record(a) \/ Await(a) \/ TimesOut(a) \/ Undo(a)
           \/ StartWorker(a)
  <2>1. keeps' = keeps
    BY <1>5 DEF CannotSpawn, Record, Await, TimesOut, Undo, StartWorker
  <2>2. app'[a] \in {"await", "worker", "undo", "unrecord", "up"}
    BY <1>5 DEF SInv, TypeOK, CannotSpawn, Record, Await, TimesOut, Undo, StartWorker
  <2> QED BY <1>1, <1>2, <2>1, <2>2 DEF Keepers
<1>6. CASE Shutdown(a) \/ AskWorker(a) \/ AskServer(a) \/ ReapWorker(a) \/ ReapServer(a)
  BY <1>1, <1>2, <1>6
  DEF SInv, TypeOK, Shutdown, AskWorker, AskServer, ReapWorker, ReapServer, Keepers
<1>7. CASE ChildStep(a) \/ ServerCrashes(a)
  BY <1>1, <1>2, <1>7
  DEF ChildStep, Binds, ServerExits, WorkerExits, OrphanStops, ServerCrashes, Keepers
<1> QED BY <1>3, <1>4, <1>5, <1>6, <1>7 DEF Step, StartStep, StopStep

(* Only a keeper writes the record.                                          *)
LEMMA RecordStep ==
    ASSUME SInv, NEW a \in App, Step(a)
    PROVE  \/ record' = record
           \/ a \in Keepers /\ (Record(a) \/ Unrecord(a) \/ Forget(a))
<1>1. CASE Record(a) \/ Unrecord(a) \/ Forget(a)
  BY <1>1 DEF SInv, TypeOK, Keepers, Record, Unrecord, Forget
<1>2. CASE ~(Record(a) \/ Unrecord(a) \/ Forget(a))
  BY <1>2 DEF Step, StartStep, Start, Adopt, Spawn, CannotSpawn, Await, TimesOut, Undo, StartWorker,
     Shutdown, StopStep, AskWorker, AskServer, ReapWorker, ReapServer, ChildStep, Binds,
     ServerExits, WorkerExits, OrphanStops, ServerCrashes, Killed
<1> QED BY <1>1, <1>2

LEMMA RecordLeft ==
    ASSUME SInv, NEW a \in App, Step(a), a \in Keepers', ~Record(a), ~Spawn(a), ~Adopt(a)
    PROVE  app'[a] = "record" <=> app[a] = "record"
<1>1. ~Killed(a)
  BY DEF Killed, Keepers, SInv, TypeOK
<1>2. CASE \/ Start(a) \/ CannotSpawn(a) \/ Await(a) \/ TimesOut(a) \/ Undo(a)
           \/ Unrecord(a) \/ StartWorker(a)
  BY <1>2 DEF SInv, TypeOK, Start, CannotSpawn, Await, TimesOut, Undo, Unrecord, StartWorker
<1>3. CASE Shutdown(a) \/ StopStep(a)
  BY <1>3 DEF SInv, TypeOK, Shutdown, StopStep, AskWorker, AskServer, ReapWorker, ReapServer,
     Forget
<1>4. CASE ChildStep(a) \/ ServerCrashes(a)
  BY <1>4 DEF ChildStep, Binds, ServerExits, WorkerExits, OrphanStops, ServerCrashes
<1> QED BY <1>1, <1>2, <1>3, <1>4 DEF Step, StartStep

LEMMA RecordFollowsStep ==
    ASSUME SInv, SInv', Serial, NEW a \in App, Step(a), Watch, ~crossed'
    PROVE  RecordFollows'
<1> SUFFICES ASSUME NEW b \in Keepers', keeps'[b] \notin blind', Running(keeps[b])'
             PROVE  /\ app'[b] # "record" =>
                         record' = [server |-> keeps'[b], supervisor |-> b]
                    /\ app'[b] = "record" /\ keeps'[b] # b => record'.server = keeps'[b]
  BY DEF RecordFollows
<1>1. CASE b \notin Keepers
  <2>1. b = a /\ (Spawn(a) \/ Adopt(a))
    BY <1>1, NewKeeper
  <2>2. keeps'[a] # Nobody
    BY <2>1 DEF Keepers
  <2>3. CASE Spawn(a)
    BY <2>1, <2>3 DEF Spawn, SInv, TypeOK
  <2>4. CASE Adopt(a)
    <3>1. keeps'[a] = Orphan(record)
      BY <2>2, <2>4 DEF Adopt, SInv, TypeOK
    <3>2. keeps'[a] = record.server
      BY <2>2, <3>1 DEF Orphan
    <3> QED BY <2>1, <2>2, <2>4, <3>1, <3>2 DEF Adopt, SInv, TypeOK
  <2> QED BY <2>1, <2>3, <2>4
<1>2. CASE b \in Keepers
  <2>1. keeps'[b] = keeps[b] /\ b \in App /\ keeps[b] \in App
    <3>1. b \in App /\ keeps[b] \in App /\ keeps'[b] # Nobody
      BY <1>2 DEF Keepers, SInv, TypeOK
    <3>2. ASSUME keeps'[b] # keeps[b] PROVE FALSE
      <4>1. b = a /\ (Killed(a) \/ Unrecord(a) \/ Forget(a))
        BY <1>2, <3>2, LostKeeper
      <4> QED BY <3>1, <3>2, <4>1 DEF Killed, Unrecord, Forget, SInv, TypeOK
    <3> QED BY <3>1, <3>2
  <2>2. ~(Spawn(a) /\ keeps[b] = a)
    BY <1>2, <2>1 DEF Spawn, Keepers, SInv, OwnServer, NobodyIsRobbed
  <2>3. Running(keeps[b])
    BY <2>1, <2>2, RunningStep
  <2>4. keeps[b] \notin blind
    BY <2>1, BlindStep
  <2>5. /\ app[b] # "record" => record = [server |-> keeps[b], supervisor |-> b]
        /\ app[b] = "record" /\ keeps[b] # b => record.server = keeps[b]
    BY <1>2, <2>3, <2>4 DEF Serial, RecordFollows
  <2>6. \A c \in Keepers : c = b
    BY <1>2, <2>4 DEF Serial, SoleKeeper
  <2>7. CASE Record(a)
    <3>1. a = b
      BY <2>6, <2>7 DEF Record, SInv, TypeOK, Keepers
    <3> QED BY <2>1, <2>7, <3>1 DEF Record, SInv, TypeOK
  <2>8. CASE Unrecord(a) \/ Forget(a)
    <3>1. a = b /\ keeps'[a] = Nobody
      BY <2>6, <2>8 DEF Unrecord, Forget, SInv, TypeOK, Keepers
    <3> QED BY <3>1 DEF Keepers
  <2>9. CASE record' = record /\ ~Record(a)
    <3>1. app'[b] = "record" <=> app[b] = "record"
      <4>1. CASE b # a
        BY <2>1, <4>1, KeepersStep
      <4>2. CASE b = a
        <5>1. ~Spawn(a) /\ ~Adopt(a)
          BY <1>2, <4>2 DEF Spawn, Adopt, Keepers, SInv, OwnServer
        <5> QED
          BY <1>2, <2>9, <4>2, <5>1, RecordLeft
      <4> QED BY <4>1, <4>2
    <3> QED BY <2>1, <2>5, <2>9, <3>1
  <2> QED BY <2>7, <2>8, <2>9, RecordStep
<1> QED BY <1>1, <1>2

(* A server that somebody kept is left to the record when its keeper is      *)
(* killed: the keeper had written it there, or had taken it from there.      *)
LEMMA LeaksRecordedStep ==
    ASSUME SInv, SInv', Serial, NEW a \in App, Step(a), Watch, ~crossed'
    PROVE  LeaksRecorded'
<1> SUFFICES ASSUME NEW s \in App, Leaked(s)'
             PROVE  record'.server = s /\ Keepers' = {}
  BY DEF LeaksRecorded
<1>1. s \notin blind' /\ Running(s)' /\ \A b \in Keepers' : keeps'[b] # s
  BY DEF Leaked
<1>2. s \notin blind
  BY <1>1, BlindStep
<1>3. ~Spawn(a)
  <2>1. CASE s = a /\ Spawn(a)
    BY <1>1, <2>1 DEF Spawn, SInv, TypeOK, Keepers
  <2>2. CASE s # a /\ Spawn(a)
    <3>1. Running(s) /\ app[a] = "spawn"
      BY <1>1, <2>2, RunningStep DEF Spawn
    <3> QED BY <3>1 DEF Serial, FreeToSpawn
  <2> QED BY <2>1, <2>2
<1>4. Running(s)
  BY <1>1, <1>3, RunningStep
<1>5. CASE Leaked(s)
  <2>1. record.server = s /\ Keepers = {}
    BY <1>5 DEF Serial, LeaksRecorded
  <2>2. record' = record
    BY <2>1, RecordStep
  <2>3. ASSUME NEW b \in Keepers' PROVE FALSE
    <3>1. b = a /\ Adopt(a)
      BY <1>3, <2>1, <2>3, NewKeeper
    <3>2. keeps'[a] = s
      <4>1. keeps'[a] = Orphan(record)
        BY <2>3, <3>1 DEF Adopt, SInv, TypeOK, Keepers
      <4> QED BY <2>1, <2>3, <3>1, <4>1 DEF Orphan, Keepers
    <3> QED BY <1>1, <2>3, <3>1, <3>2
  <2> QED BY <2>1, <2>2, <2>3
<1>6. CASE ~Leaked(s)
  <2>1. PICK b \in Keepers : keeps[b] = s
    BY <1>2, <1>4, <1>6 DEF Leaked
  <2>2. b = a /\ (Killed(a) \/ Unrecord(a) \/ Forget(a))
    BY <1>1, <2>1, LostKeeper
  <2>3. Killed(a)
    BY <1>4, <2>1, <2>2 DEF Unrecord, Forget, SInv, OwnServer
  <2>4. Keepers' = {}
    <3>1. ASSUME NEW c \in Keepers' PROVE FALSE
      <4>1. c \in Keepers
        BY <2>3 DEF Killed, Keepers, SInv, TypeOK
      <4>2. c = a
        BY <1>2, <2>1, <2>2, <4>1 DEF Serial, SoleKeeper
      <4> QED BY <2>3, <4>2 DEF Killed, Keepers, SInv, TypeOK
    <3> QED BY <3>1
  <2>5. app[a] = "record" => keeps[a] # a
    BY <1>1, <2>1, <2>2, <2>3 DEF Killed
  <2>6. record.server = s
    BY <1>2, <1>4, <2>1, <2>2, <2>5 DEF Serial, RecordFollows
  <2>7. record' = record
    BY <2>3 DEF Killed
  <2> QED BY <2>4, <2>6, <2>7
<1> QED BY <1>5, <1>6

LEMMA SerialStep == SInv /\ SerialInv /\ [Next]_vars => SerialInv'
<1>1. ASSUME SInv, SerialInv, NEW a \in App, Step(a), Watch PROVE SerialInv'
  <2>1. SInv'
    BY <1>1, StepHolds DEF Next
  <2>2. SUFFICES ASSUME ~crossed' PROVE Serial'
    BY DEF SerialInv
  <2>3. SoleMover' /\ Serial
    BY <1>1, <2>1, <2>2, Watched DEF SerialInv
  <2> QED
    BY <1>1, <2>1, <2>2, <2>3, SoleKeeperStep, FreeToSpawnStep, RecordFollowsStep,
       LeaksRecordedStep
    DEF Serial
<1>2. ASSUME SerialInv, UNCHANGED vars PROVE SerialInv'
  BY <1>2 DEF vars, SerialInv, Serial, SoleMover, SoleKeeper, FreeToSpawn, RecordFollows,
              LeaksRecorded, Leaked, Keepers, Moving
<1> QED BY <1>1, <1>2 DEF Next

LEMMA SerialInvariance == Spec => [](SInv /\ SerialInv)
BY InitHolds, InitSerial, StepHolds, SerialStep, PTL DEF Spec

-----------------------------------------------------------------------------
(* One server has one keeper as long as applications start and stop one      *)
(* after the other and the record of that server could be written            *)
(* (graph/ownership.py: the record is read, then written).                   *)
THEOREM ServersHaveOneKeeper == Spec => []OneKeeper
<1>1. SInv /\ SerialInv => OneKeeper
  BY DEF SerialInv, Serial, SoleKeeper, Keepers, OneKeeper
<1> QED BY <1>1, SerialInvariance, PTL

(* Every server a killed application leaves behind is one the next start     *)
(* recognises by the record, while applications start and stop one after the *)
(* other, unless its record could not be written or its application was      *)
(* killed between Popen and the record (server.py start, ownership.py).      *)
THEOREM LeaksAreRecognised == Spec => []LeakIsRecognised
<1>1. SInv /\ SerialInv => LeakIsRecognised
  <2> SUFFICES ASSUME SInv, SerialInv, ~crossed, NEW s \in App \ blind,
                      server[s] = "serving", ~(\E a \in App : Alive(a) /\ keeps[a] = s)
               PROVE  Orphan(record) = s
    BY DEF LeakIsRecognised
  <2>1. Leaked(s)
    BY DEF Leaked, Keepers
  <2>2. record.server = s
    BY <2>1 DEF SerialInv, Serial, LeaksRecorded
  <2>3. record # NoRecord
    BY <2>2
  <2>4. record.supervisor \in App /\ keeps[record.supervisor] = s
    <3>1. Running(s)
      BY DEF SInv, TypeOK
    <3> QED BY <2>2, <2>3, <3>1 DEF SInv, RecordIsKept
  <2> QED BY <2>2, <2>3, <2>4 DEF Orphan
<1> QED BY <1>1, SerialInvariance, PTL
================================================================================
