---------------------------- MODULE TaskContract ----------------------------
(***************************************************************************)
(* What the server promises about the tasks it executes, without the task  *)
(* map, the identifiers, the queues and the waiters: a task is submitted   *)
(* once, started once and finished once, and the tasks of one storage      *)
(* service never overlap.  TaskService is shown to implement this module.  *)
(***************************************************************************)

CONSTANTS Task,        \* every task that may ever be submitted
          ServiceOf,   \* the storage service that executes a task, if any
          NoService    \* "service" of the tasks that run on their own

VARIABLE phase         \* phase[t]: how far task t has come

Phase == {"unborn", "queued", "running", "success", "error"}

Finished == {"success", "error"}

Init == phase = [t \in Task |-> "unborn"]

Submit(t) ==
  /\ phase[t] = "unborn"
  /\ phase' = [phase EXCEPT ![t] = "queued"]

Start(t) ==
  /\ phase[t] = "queued"
  /\ ServiceOf[t] # NoService =>
       \A u \in Task : ServiceOf[u] = ServiceOf[t] => phase[u] # "running"
  /\ phase' = [phase EXCEPT ![t] = "running"]

Finish(t) ==
  /\ phase[t] = "running"
  /\ \E f \in Finished : phase' = [phase EXCEPT ![t] = f]

Next == \E t \in Task : Submit(t) \/ Start(t) \/ Finish(t)

Spec == Init /\ [][Next]_phase
=============================================================================
