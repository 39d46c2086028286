---------------------------- MODULE TaskService -----------------------------
(***************************************************************************)
(* The server's task service: the map of tracked tasks and its             *)
(* identifiers, the worker of every storage service, the goroutines that   *)
(* wait for a task and later remove it, and the HTTP handlers that create  *)
(* tasks and answer once one of them is complete                           *)
(* (api/server/services/services_task.go, services_storage.go,             *)
(* api/server/httputils/httputils.go, and the batch handlers of            *)
(* api/server/router/volume and snapshot).                                 *)
(*                                                                         *)
(* Every *task object of the program is named by the request that made it  *)
(* and the service it was made for; <<r, Generic>> is the task a batch     *)
(* handler adds to wait for its own per-service tasks.                     *)
(***************************************************************************)
EXTENDS Integers, FiniteSets

CONSTANTS Request,              \* HTTP requests, one handler goroutine each
          Service,              \* the storage services of the server
          Generic,              \* stands where a generic task has no service
          None,
          Arrival,              \* what each request may be: a set of <<kind, async>>
          ResponseValidation    \* libstorage.schema.responseValidationEnabled

ASSUME TaskServiceAssumption ==
  /\ Generic \notin Service
  /\ None \notin Request \X (Service \cup {Generic})
  /\ None \notin Service
  /\ IsFiniteSet(Service)
  /\ ResponseValidation \in BOOLEAN
  /\ Arrival \in [Request -> SUBSET ((Service \cup {"list", "detachAll"}) \X BOOLEAN)]

Task == Request \X (Service \cup {Generic})
BatchKind == {"list", "detachAll"}
Finished == {"success", "error"}

VARIABLES
  tasks,      \* globalTaskService.tasks: identifier -> task object
  taskID,     \* Task.ID of every task object (0 before it is assigned)
  taskState,  \* Task.State; "unset" until execTask
  taskDone,   \* task.done: "nil" until made, then "open", then "closed"
  taskOut,    \* Task.Result and Task.Error: "none" (both nil), "ok", "err"
  sending,    \* goroutines that hold a task and have not handed it over
  worker,     \* the task each service's worker goroutine executes
  wpc,        \* the goroutine of TaskWaitC(t.ID), one per task object
  won,        \* the task object that goroutine found under t.ID
  removing,   \* waiters whose taskRemoveAfter goroutine is asleep
  hpc,        \* program counter of a request's handler
  kind,       \* what the request asks for: a service or a batch over all
  async,      \* the request's async flag
  todo,       \* services a handler has still to make a task for
  cur,        \* the task object a handler is making
  reply,      \* the answer written for a request
  evicted     \* history: task objects that lost their map entry to another

mapVars == <<tasks, taskID, evicted>>
execVars == <<taskState, taskDone, taskOut, sending, worker>>
waitVars == <<wpc, won, removing>>
handlerVars == <<hpc, kind, async, todo, cur, reply>>
vars == <<mapVars, execVars, waitVars, handlerVars>>

(* The tasks a request makes, and the one its handler answers with. *)
TasksOf(r) ==
  IF kind[r] \in BatchKind THEN {r} \X (Service \cup {Generic}) ELSE {<<r, kind[r]>>}

Main(r) == <<r, IF kind[r] \in BatchKind THEN Generic ELSE kind[r]>>

(* execTask validates a result if validation is enabled and there are a    *)
(* result and a schema, which volumeDetachAll's own tasks have not.        *)
Validated(t) ==
  ResponseValidation /\ ~(kind[t[1]] = "detachAll" /\ t[2] # Generic)

TaskInspect(id) == IF id \in DOMAIN tasks THEN tasks[id] ELSE None

Init ==
  /\ tasks = [i \in {} |-> None]
  /\ taskID = [t \in Task |-> 0]
  /\ taskState = [t \in Task |-> "unset"]
  /\ taskDone = [t \in Task |-> "nil"]
  /\ taskOut = [t \in Task |-> "none"]
  /\ sending = {}
  /\ worker = [s \in Service |-> None]
  /\ wpc = [t \in Task |-> "none"]
  /\ won = [t \in Task |-> None]
  /\ removing = {}
  /\ hpc = [r \in Request |-> "idle"]
  /\ kind = [r \in Request |-> None]
  /\ async = [r \in Request |-> FALSE]
  /\ todo = [r \in Request |-> {}]
  /\ cur = [r \in Request |-> None]
  /\ reply = [r \in Request |-> "none"]
  /\ evicted = {}

-----------------------------------------------------------------------------
(* Handlers *)

(* A request reaches its handler: a route of one service, or a batch route *)
(* (volumes, snapshots, volumeDetachAll) that makes a task per service.    *)
Receive(r, k, a) ==
  /\ hpc[r] = "idle"
  /\ hpc' = [hpc EXCEPT ![r] = "track"]
  /\ kind' = [kind EXCEPT ![r] = k]
  /\ async' = [async EXCEPT ![r] = a]
  /\ todo' = [todo EXCEPT ![r] = IF k \in BatchKind THEN Service ELSE {k}]
  /\ UNCHANGED <<mapVars, execVars, waitVars, cur, reply>>

(* taskTrack, the part under the read lock: the identifier of the new task *)
(* is the size of the map.                                                 *)
TrackRead(r, p) ==
  /\ hpc[r] = "track"
  /\ \/ p \in todo[r]
     \/ todo[r] = {} /\ p = Generic
  /\ taskID' = [taskID EXCEPT ![<<r, p>>] = Cardinality(DOMAIN tasks)]
  /\ cur' = [cur EXCEPT ![r] = <<r, p>>]
  /\ hpc' = [hpc EXCEPT ![r] = "store"]
  /\ UNCHANGED <<tasks, evicted, execVars, waitVars, kind, async, todo, reply>>

(* taskTrack, the part under the write lock. *)
TrackStore(r) ==
  LET t == cur[r] IN
  /\ hpc[r] = "store"
  /\ tasks' = [i \in DOMAIN tasks \cup {taskID[t]} |-> IF i = taskID[t] THEN t ELSE tasks[i]]
  /\ evicted' = evicted \cup {tasks[i] : i \in DOMAIN tasks \cap {taskID[t]}}
  /\ hpc' = [hpc EXCEPT ![r] = "launch"]
  /\ UNCHANGED <<taskID, execVars, waitVars, kind, async, todo, cur, reply>>

(* A mutant: the done channel is never made. *)
LaunchNilDone(r) ==
  LET t == cur[r] IN
  /\ hpc[r] = "launch"
  /\ sending' = sending \cup {t}
  /\ todo' = [todo EXCEPT ![r] = @ \ {t[2]}]
  /\ cur' = [cur EXCEPT ![r] = None]
  /\ hpc' = [hpc EXCEPT ![r] = IF t = Main(r) THEN "write" ELSE "track"]
  /\ UNCHANGED <<mapVars, taskState, taskDone, taskOut, worker, waitVars, kind, async, reply>>

(* The rest of newTask, and of either TaskExecute: the done channel is     *)
(* made, and a goroutine is started that hands the task over.              *)
Launch(r) ==
  LET t == cur[r] IN
  /\ hpc[r] = "launch"
  /\ taskDone' = [taskDone EXCEPT ![t] = "open"]
  /\ sending' = sending \cup {t}
  /\ todo' = [todo EXCEPT ![r] = @ \ {t[2]}]
  /\ cur' = [cur EXCEPT ![r] = None]
  /\ hpc' = [hpc EXCEPT ![r] = IF t = Main(r) THEN "write" ELSE "track"]
  /\ UNCHANGED <<mapVars, taskState, taskOut, worker, waitVars, kind, async, reply>>

(* WriteTask, up to the select: an asynchronous request is answered with   *)
(* the task itself; otherwise TaskWaitC starts a waiter and the execution  *)
(* timer runs.                                                             *)
WriteTask(r) ==
  /\ hpc[r] = "write"
  /\ \/ /\ async[r]
        /\ reply' = [reply EXCEPT ![r] = "accepted"]
        /\ hpc' = [hpc EXCEPT ![r] = "replied"]
        /\ UNCHANGED wpc
     \/ /\ ~async[r]
        /\ wpc' = [wpc EXCEPT ![Main(r)] = "lookup"]
        /\ hpc' = [hpc EXCEPT ![r] = "select"]
        /\ UNCHANGED reply
  /\ UNCHANGED <<mapVars, execVars, won, removing, kind, async, todo, cur>>

(* WriteTask's select: the wait channel is closed, and the task object at  *)
(* hand is answered with whatever it holds.                                *)
SelectDone(r) ==
  /\ hpc[r] = "select"
  /\ wpc[Main(r)] = "closed"
  /\ reply' = [reply EXCEPT ![r] = IF taskOut[Main(r)] = "err" THEN "error" ELSE "ok"]
  /\ hpc' = [hpc EXCEPT ![r] = "replied"]
  /\ UNCHANGED <<mapVars, execVars, waitVars, kind, async, todo, cur>>

(* A mutant: the timer is read only after the wait channel. *)
SelectTimeoutLate(r) ==
  /\ hpc[r] = "select"
  /\ wpc[Main(r)] = "closed"
  /\ reply' = [reply EXCEPT ![r] = "timeout"]
  /\ hpc' = [hpc EXCEPT ![r] = "replied"]
  /\ UNCHANGED <<mapVars, execVars, waitVars, kind, async, todo, cur>>

(* WriteTask's select: exeTimeout fires. *)
SelectTimeout(r) ==
  /\ hpc[r] = "select"
  /\ reply' = [reply EXCEPT ![r] = "timeout"]
  /\ hpc' = [hpc EXCEPT ![r] = "replied"]
  /\ UNCHANGED <<mapVars, execVars, waitVars, kind, async, todo, cur>>

-----------------------------------------------------------------------------
(* Execution *)

(* A mutant: the worker hands every task to a goroutine of its own. *)
WorkerTakeSpawns(s, t) ==
  /\ t \in sending /\ t[2] = s
  /\ worker' = [worker EXCEPT ![s] = t]
  /\ sending' = sending \ {t}
  /\ taskState' = [taskState EXCEPT ![t] = "running"]
  /\ UNCHANGED <<mapVars, taskDone, taskOut, waitVars, handlerVars>>

(* A service's worker receives from its unbuffered queue: any sender may   *)
(* be the one whose task is taken.  execTask starts.                       *)
WorkerTake(s, t) ==
  /\ worker[s] = None
  /\ t \in sending /\ t[2] = s
  /\ worker' = [worker EXCEPT ![s] = t]
  /\ sending' = sending \ {t}
  /\ taskState' = [taskState EXCEPT ![t] = "running"]
  /\ UNCHANGED <<mapVars, taskDone, taskOut, waitVars, handlerVars>>

(* The storage driver's operation returns to execTask. *)
RunReturn(s, out) ==
  LET t == worker[s] IN
  /\ t # None
  /\ taskOut[t] = "none"
  /\ taskOut' = [taskOut EXCEPT ![t] = out]
  /\ UNCHANGED <<mapVars, taskState, taskDone, sending, worker, waitVars, handlerVars>>

(* A generic task's own goroutine starts execTask and, in it, TaskWaitAll: *)
(* one waiter per task of the batch.                                       *)
GenericTake(r) ==
  LET t == <<r, Generic>> IN
  /\ t \in sending
  /\ sending' = sending \ {t}
  /\ taskState' = [taskState EXCEPT ![t] = "running"]
  /\ wpc' = [u \in Task |-> IF u \in {r} \X Service THEN "lookup" ELSE wpc[u]]
  /\ UNCHANGED <<mapVars, taskDone, taskOut, worker, won, removing, handlerVars>>

(* A mutant: the errors of the batch's tasks are not looked at. *)
GenericReturnLenient(r) ==
  LET t == <<r, Generic>>
      outs == {taskOut[<<r, s>>] : s \in Service}
      failed == kind[r] = "list" /\ "none" \in outs
  IN
  /\ taskState[t] = "running"
  /\ taskOut[t] = "none"
  /\ \A s \in Service : wpc[<<r, s>>] = "closed"
  /\ taskOut' = [taskOut EXCEPT ![t] = IF failed THEN "err" ELSE "ok"]
  /\ UNCHANGED <<mapVars, taskState, taskDone, sending, worker, waitVars, handlerVars>>

(* The rest of a batch's run function, once TaskWaitAll returns: the       *)
(* listings need a result of every task, volumeDetachAll only looks for an *)
(* error.                                                                  *)
GenericReturn(r) ==
  LET t == <<r, Generic>>
      outs == {taskOut[<<r, s>>] : s \in Service}
      failed == "err" \in outs \/ (kind[r] = "list" /\ "none" \in outs)
  IN
  /\ taskState[t] = "running"
  /\ taskOut[t] = "none"
  /\ \A s \in Service : wpc[<<r, s>>] = "closed"
  /\ taskOut' = [taskOut EXCEPT ![t] = IF failed THEN "err" ELSE "ok"]
  /\ UNCHANGED <<mapVars, taskState, taskDone, sending, worker, waitVars, handlerVars>>

(* A mutant: an error returns before the done channel is closed. *)
CompleteLeavesOpen(t, valid) ==
  LET out == IF taskOut[t] = "ok" /\ valid THEN "ok" ELSE "err" IN
  /\ taskState[t] = "running"
  /\ taskOut[t] # "none"
  /\ valid \/ Validated(t)
  /\ taskOut' = [taskOut EXCEPT ![t] = out]
  /\ taskState' = [taskState EXCEPT ![t] = IF out = "err" THEN "error" ELSE "success"]
  /\ taskDone' = [taskDone EXCEPT ![t] = IF out = "err" THEN @ ELSE "closed"]
  /\ worker' = [s \in Service |-> IF worker[s] = t THEN None ELSE worker[s]]
  /\ UNCHANGED <<mapVars, sending, waitVars, handlerVars>>

(* The rest of execTask: schema validation, which may turn a result into   *)
(* an error, and the deferred function.  A worker is then free again.      *)
Complete(t, valid) ==
  LET out == IF taskOut[t] = "ok" /\ valid THEN "ok" ELSE "err" IN
  /\ taskState[t] = "running"
  /\ taskOut[t] # "none"
  /\ valid \/ Validated(t)
  /\ taskOut' = [taskOut EXCEPT ![t] = out]
  /\ taskState' = [taskState EXCEPT ![t] = IF out = "err" THEN "error" ELSE "success"]
  /\ taskDone' = [taskDone EXCEPT ![t] = "closed"]
  /\ worker' = [s \in Service |-> IF worker[s] = t THEN None ELSE worker[s]]
  /\ UNCHANGED <<mapVars, sending, waitVars, handlerVars>>

-----------------------------------------------------------------------------
(* Waiting and removal *)

(* A mutant: the removal is scheduled without waiting (its defer is lost). *)
WaitLookupRemoves(t) ==
  /\ wpc[t] = "lookup"
  /\ taskID[t] \in DOMAIN tasks
  /\ won' = [won EXCEPT ![t] = tasks[taskID[t]]]
  /\ wpc' = [wpc EXCEPT ![t] = "blocked"]
  /\ removing' = removing \cup {t}
  /\ UNCHANGED <<mapVars, execVars, handlerVars>>

(* TaskWaitC's goroutine looks the identifier up under the read lock; an   *)
(* identifier that is not in the map closes the channel at once.  A task   *)
(* of another request may be found before newTask has made its done        *)
(* channel: a receive that reads the field while it is nil never returns.  *)
WaitLookup(t) ==
  /\ wpc[t] = "lookup"
  /\ \/ /\ taskID[t] \in DOMAIN tasks
        /\ won' = [won EXCEPT ![t] = tasks[taskID[t]]]
        /\ \/ wpc' = [wpc EXCEPT ![t] = "blocked"]
           \/ /\ taskDone[tasks[taskID[t]]] = "nil"
              /\ wpc' = [wpc EXCEPT ![t] = "stuck"]
     \/ /\ taskID[t] \notin DOMAIN tasks
        /\ wpc' = [wpc EXCEPT ![t] = "closed"]
        /\ UNCHANGED won
  /\ UNCHANGED <<mapVars, execVars, removing, handlerVars>>

(* The done channel of the task found is closed: the removal is scheduled  *)
(* and the waiter's own channel closed.                                    *)
WaitDone(t) ==
  /\ wpc[t] = "blocked"
  /\ taskDone[won[t]] = "closed"
  /\ wpc' = [wpc EXCEPT ![t] = "closed"]
  /\ removing' = removing \cup {t}
  /\ UNCHANGED <<mapVars, execVars, won, handlerVars>>

(* taskRemoveAfter wakes: whatever is stored under the identifier of the   *)
(* task waited for is deleted.                                             *)
Remove(t) ==
  LET id == taskID[won[t]] IN
  /\ t \in removing
  /\ removing' = removing \ {t}
  /\ tasks' = [i \in DOMAIN tasks \ {id} |-> tasks[i]]
  /\ evicted' = evicted \cup ({tasks[i] : i \in DOMAIN tasks \cap {id}} \ {won[t]})
  /\ UNCHANGED <<taskID, execVars, wpc, won, handlerVars>>

-----------------------------------------------------------------------------
Handler(r) ==
  \/ \E p \in Service \cup {Generic} : TrackRead(r, p)
  \/ TrackStore(r)
  \/ Launch(r)
  \/ WriteTask(r)
  \/ SelectDone(r)

Exec ==
  \/ \E s \in Service, t \in Task : WorkerTake(s, t)
  \/ \E s \in Service, out \in {"ok", "err"} : RunReturn(s, out)
  \/ \E r \in Request : GenericTake(r) \/ GenericReturn(r)
  \/ \E t \in Task, valid \in BOOLEAN : Complete(t, valid)

Waiter(t) == WaitLookup(t) \/ WaitDone(t)

Next ==
  \/ \E r \in Request : \E a \in Arrival[r] : Receive(r, a[1], a[2])
  \/ \E r \in Request : Handler(r) \/ SelectTimeout(r)
  \/ Exec
  \/ \E t \in Task : Waiter(t) \/ Remove(t)

Spec == Init /\ [][Next]_vars

(* Goroutines are scheduled fairly, blocked senders of a channel are       *)
(* served in turn, timers fire, and the storage drivers return.  Requests  *)
(* need not arrive.                                                        *)
Fairness ==
  /\ \A r \in Request : WF_vars(Handler(r)) /\ WF_vars(SelectTimeout(r))
  /\ \A r \in Request : WF_vars(GenericTake(r)) /\ WF_vars(GenericReturn(r))
  /\ \A s \in Service : WF_vars(\E t \in Task : WorkerTake(s, t))
  /\ \A s \in Service : WF_vars(\E out \in {"ok", "err"} : RunReturn(s, out))
  /\ \A t \in Task : /\ WF_vars(\E valid \in BOOLEAN : Complete(t, valid))
                     /\ WF_vars(Waiter(t))
                     /\ WF_vars(Remove(t))

FairSpec == Spec /\ Fairness

-----------------------------------------------------------------------------
(* Properties *)

(* The values the variables may take. *)
MapTypeOK ==
  /\ DOMAIN tasks \subseteq Nat /\ IsFiniteSet(DOMAIN tasks)
  /\ \A i \in DOMAIN tasks : tasks[i] \in Task
  /\ taskID \in [Task -> Nat]
  /\ evicted \subseteq Task

ExecTypeOK ==
  /\ taskState \in [Task -> {"unset", "running", "success", "error"}]
  /\ taskDone \in [Task -> {"nil", "open", "closed"}]
  /\ taskOut \in [Task -> {"none", "ok", "err"}]
  /\ sending \subseteq Task
  /\ worker \in [Service -> Task \cup {None}]

WaitTypeOK ==
  /\ wpc \in [Task -> {"none", "lookup", "blocked", "stuck", "closed"}]
  /\ won \in [Task -> Task \cup {None}]
  /\ removing \subseteq Task

HandlerTypeOK ==
  /\ hpc \in [Request -> {"idle", "track", "store", "launch", "write", "select", "replied"}]
  /\ kind \in [Request -> Service \cup BatchKind \cup {None}]
  /\ async \in [Request -> BOOLEAN]
  /\ todo \in [Request -> SUBSET Service]
  /\ cur \in [Request -> Task \cup {None}]
  /\ reply \in [Request -> {"none", "accepted", "ok", "error", "timeout"}]

TypeOK == MapTypeOK /\ ExecTypeOK /\ WaitTypeOK /\ HandlerTypeOK

(* A storage service runs its tasks one at a time (the single goroutine of *)
(* storageService.Init), whatever the number of handlers that enqueue.     *)
OneAtATime ==
  \A t, u \in Task :
    /\ t[2] = u[2] /\ t[2] # Generic
    /\ taskState[t] = "running" /\ taskState[u] = "running"
    => t = u

(* TaskWaitC closes its channel only when the task is complete, for every  *)
(* task whose map entry was never overwritten by taskTrack nor deleted by  *)
(* the taskRemoveAfter of another task.                                    *)
WaitersHonest ==
  \A t \in Task : wpc[t] = "closed" /\ t \notin evicted => taskState[t] \in Finished

(* WriteTask's answer is the outcome of the work: if none of the request's *)
(* tasks lost its identifier, then the OK status means that every task of  *)
(* the request succeeded, and an error that the answering task failed.     *)
RepliesHonest ==
  \A r \in Request :
    TasksOf(r) \cap evicted = {} =>
      /\ reply[r] = "ok" => \A t \in TasksOf(r) : taskState[t] = "success"
      /\ reply[r] = "error" => taskState[Main(r)] = "error"

(* TaskInspect, with the identifier a 202 or 408 answer carries, finds the *)
(* task for as long as it is not complete, unless its entry was lost.      *)
LiveTaskInspectable ==
  \A t \in Task :
    taskDone[t] = "open" /\ t \notin evicted => TaskInspect(taskID[t]) = t

(* A complete task keeps its state and its outcome: execTask runs once for *)
(* every task, so t.done is closed once, and nothing writes the task after *)
(* it is read for an answer.                                               *)
OutcomesAreFinal ==
  [][\A t \in Task : taskState[t] \in Finished =>
       /\ taskState'[t] = taskState[t]
       /\ taskOut'[t] = taskOut[t]]_vars

(* Every request is answered, by the outcome or by the timeout. *)
RequestsAnswered ==
  \A r \in Request : hpc[r] = "track" ~> hpc[r] = "replied"

(* Every task handed to a storage service completes, whatever happens to   *)
(* its identifier; and a batch's generic task completes if no identifier   *)
(* is ever reused while it is in use.                                      *)
TasksComplete ==
  /\ \A t \in Request \X Service : t \in sending ~> taskState[t] \in Finished
  /\ [](evicted = {}) =>
       \A r \in Request : <<r, Generic>> \in sending ~> taskState[<<r, Generic>>] \in Finished

(* TaskService implements the contract of TaskContract. *)
phaseOf ==
  [t \in Task |->
     IF taskState[t] # "unset" THEN taskState[t]
     ELSE IF taskDone[t] = "nil" THEN "unborn" ELSE "queued"]

serviceOf == [t \in Task |-> t[2]]

TC == INSTANCE TaskContract
        WITH ServiceOf <- serviceOf, NoService <- Generic, phase <- phaseOf

Refines == TC!Spec

-----------------------------------------------------------------------------
(* The inductive invariant behind the properties *)

(* A worker holds exactly the running task of its service. *)
WorkerInv ==
  /\ \A t \in Task : taskState[t] = "running" /\ t[2] # Generic => worker[t[2]] = t
  /\ \A s \in Service : worker[s] # None =>
       worker[s][2] = s /\ taskState[worker[s]] = "running"

(* The fields of one task object agree on how far it has come. *)
LifeInv ==
  \A t \in Task :
    /\ taskState[t] \in Finished <=> taskDone[t] = "closed"
    /\ taskState[t] = "running" => taskDone[t] = "open"
    /\ t \in sending => taskDone[t] = "open" /\ taskState[t] = "unset"
    /\ taskState[t] = "unset" => taskOut[t] = "none"
    /\ taskState[t] = "success" => taskOut[t] = "ok"
    /\ taskState[t] = "error" => taskOut[t] = "err"

Making == {"track", "store", "launch"}

(* What a handler has made so far: nothing of what is still to do, and the *)
(* generic task of a batch only after all the others.                      *)
HandlerOK(r) ==
  /\ hpc[r] = "idle" => \A p \in Service \cup {Generic} : taskDone[<<r, p>>] = "nil"
  /\ hpc[r] # "idle" => kind[r] \in Service \cup BatchKind
  /\ kind[r] \notin BatchKind => taskDone[<<r, Generic>>] = "nil"
  /\ hpc[r] \in Making =>
       /\ \A p \in todo[r] \cup {Generic} : taskDone[<<r, p>>] = "nil"
       /\ kind[r] \notin BatchKind => todo[r] = {kind[r]}
       /\ kind[r] \in BatchKind => \A s \in Service \ todo[r] : taskDone[<<r, s>>] # "nil"
  /\ hpc[r] \in {"store", "launch"} =>
       /\ cur[r] \in {r} \X (todo[r] \cup {Generic})
       /\ cur[r] = <<r, Generic>> => todo[r] = {}
  /\ hpc[r] \in {"write", "select", "replied"} => \A t \in TasksOf(r) : taskDone[t] # "nil"
  /\ reply[r] # "none" => hpc[r] = "replied"
  /\ hpc[r] = "select" => wpc[Main(r)] # "none"

HandlerInv == \A r \in Request : HandlerOK(r)

(* A task object is in the map from taskTrack on. *)
Placed(t) == taskDone[t] # "nil" \/ (hpc[t[1]] = "launch" /\ cur[t[1]] = t)

(* The map holds every placed task that is neither complete nor evicted.   *)
MapInv ==
  /\ \A i \in DOMAIN tasks : taskID[tasks[i]] = i /\ Placed(tasks[i])
  /\ \A t \in Task :
       Placed(t) /\ t \notin evicted =>
         \/ taskState[t] \in Finished
         \/ taskID[t] \in DOMAIN tasks /\ tasks[taskID[t]] = t

(* The code that starts the waiter of a task has run: WriteTask for the    *)
(* task it answers with, the generic task for the others of a batch.       *)
Awaited(t) ==
  IF t = Main(t[1]) THEN hpc[t[1]] \in {"select", "replied"}
                    ELSE taskState[<<t[1], Generic>>] # "unset"

(* A waiter waits for its own task, or for another's when its own is       *)
(* complete or evicted; tasks to be removed are complete.                  *)
WaiterOK(t) ==
  /\ wpc[t] # "none" => taskDone[t] # "nil" /\ Awaited(t)
  /\ wpc[t] \in {"blocked", "stuck"} =>
       /\ won[t] \in Task
       /\ t \in evicted \/ won[t] = t \/ taskState[t] \in Finished
  /\ t \in removing => wpc[t] = "closed" /\ won[t] \in Task /\ taskDone[won[t]] = "closed"

WaitInv == \A t \in Task : WaiterOK(t)

(* A batch that ends well has seen all its tasks succeed. *)
BatchInv ==
  \A r \in Request :
    taskOut[<<r, Generic>>] = "ok" /\ TasksOf(r) \cap evicted = {} =>
      \A s \in Service : taskState[<<r, s>>] = "success"

(* All of it: what the proofs show to hold initially and to be kept by     *)
(* every step of every goroutine.                                          *)
Consistent ==
  /\ WorkerInv
  /\ LifeInv
  /\ HandlerInv
  /\ MapInv
  /\ WaitInv
  /\ WaitersHonest
  /\ BatchInv

-----------------------------------------------------------------------------
(* Statements of the repository's comments and documents *)

(* services_task.go:212 says of TaskWaitC that it "returns a channel that  *)
(* is closed only when the specified task is completed".                   *)
ClosedOnlyWhenCompleted ==
  \A t \in Task : wpc[t] = "closed" => taskState[t] \in Finished

(* types_services.go:67 says of TaskWaitC that it "returns a channel that  *)
(* is closed when the specified task completes".                           *)
ClosedWhenCompleted ==
  \A t \in Task :
    wpc[t] # "none" /\ taskState[t] \in Finished ~> wpc[t] = "closed"

(* config.md:690 says of the default log timeout that "tasks are removed   *)
(* immediately upon completion".                                           *)
RemovedUponCompletion ==
  \A t \in Task :
    taskState[t] \in Finished ~> \A i \in DOMAIN tasks : tasks[i] # t
=============================================================================
