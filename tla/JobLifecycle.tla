---------------------------- MODULE JobLifecycle ----------------------------
(***************************************************************************)
(* What the job table promises its readers: the lifecycle                  *)
(*                                                                         *)
(*     queued -> running -> succeeded | failed | cancelled                 *)
(*                                                                         *)
(* with one edge back, taken only when nobody works on the job any more,   *)
(* one edge from queued straight to cancelled, and one to failed for a     *)
(* kind the worker's build does not know.  A job has at most one runner,   *)
(* only its runner ends it, and an ended job stays as it ended.            *)
(***************************************************************************)
CONSTANTS Worker, Job

VARIABLES
    state,    \* the lifecycle state of each job
    runner    \* the processes at work on it, threads they left behind included

Ended == {"succeeded", "failed", "cancelled"}

Init ==
    /\ state = [j \in Job |-> "absent"]
    /\ runner = [j \in Job |-> {}]

Enqueue(j) ==
    /\ state[j] = "absent"
    /\ state' = [state EXCEPT ![j] = "queued"]
    /\ UNCHANGED runner

(* A poll takes at most one job; the unknown ones it met on the way fail. *)
Take(w, taken, refused) ==
    /\ taken \cap refused = {}
    /\ \A j \in taken \cup refused : state[j] = "queued" /\ runner[j] = {}
    /\ \A i, j \in taken : i = j
    /\ state' = [j \in Job |-> IF j \in taken THEN "running"
                               ELSE IF j \in refused THEN "failed" ELSE state[j]]
    /\ runner' = [j \in Job |-> IF j \in taken THEN {w} ELSE runner[j]]

(* The runner is gone, or done with the job; the job waits to be put back.  *)
Leave(w) ==
    /\ runner' = [j \in Job |-> runner[j] \ {w}]
    /\ UNCHANGED state

End(w, j, outcome) ==
    /\ state[j] = "running"
    /\ runner[j] = {w}
    /\ state' = [state EXCEPT ![j] = outcome]
    /\ runner' = [runner EXCEPT ![j] = {}]

PutBack(lost) ==
    /\ \A j \in lost : state[j] = "running" /\ runner[j] = {}
    /\ state' = [j \in Job |-> IF j \in lost THEN "queued" ELSE state[j]]
    /\ UNCHANGED runner

CancelQueued(j) ==
    /\ state[j] = "queued"
    /\ state' = [state EXCEPT ![j] = "cancelled"]
    /\ UNCHANGED runner

Next ==
    \/ \E j \in Job : Enqueue(j) \/ CancelQueued(j)
    \/ \E w \in Worker :
         \/ \E taken, refused \in SUBSET Job : Take(w, taken, refused)
         \/ \E j \in Job, outcome \in Ended : End(w, j, outcome)
         \/ Leave(w)
    \/ \E lost \in SUBSET Job : PutBack(lost)

Spec == Init /\ [][Next]_<<state, runner>>
=============================================================================
