------------------------- MODULE TaskServiceProofs --------------------------
(***************************************************************************)
(* Proofs about TaskService, for any number of requests and services.      *)
(***************************************************************************)
EXTENDS TaskService, FiniteSetTheorems, TLAPS

(* Most steps are first-order and Zenon's; the others name SMT. *)
USE Zenon

(* Tasks are the pairs of a request and a service (or Generic). *)
LEMMA TaskPair ==
  \A r \in Request, p \in Service \cup {Generic} :
    <<r, p>> \in Task /\ <<r, p>>[1] = r /\ <<r, p>>[2] = p
BY DEF Task

LEMMA TaskParts ==
  \A t \in Task : t[1] \in Request /\ t[2] \in Service \cup {Generic} /\ t = <<t[1], t[2]>>
BY SMT DEF Task

LEMMA NotTask == None \notin Task /\ None \notin Service /\ Generic \notin Service
BY TaskServiceAssumption DEF Task

(* Initially nothing is tracked, queued, executed or waited for. *)
LEMMA InitInv == Init => TypeOK /\ Consistent
<1> SUFFICES ASSUME Init PROVE TypeOK /\ Consistent
  OBVIOUS
<1>1. TypeOK
  <2>1. DOMAIN tasks = {} /\ IsFiniteSet({})
    BY FS_EmptySet DEF Init
  <2>2. MapTypeOK
    BY <2>1 DEF Init, MapTypeOK
  <2>3. ExecTypeOK /\ WaitTypeOK /\ HandlerTypeOK
    BY DEF Init, ExecTypeOK, WaitTypeOK, HandlerTypeOK
  <2> QED
    BY <2>2, <2>3 DEF TypeOK
<1>2. WorkerInv /\ LifeInv
  BY DEF Init, WorkerInv, LifeInv, Finished
<1>3. HandlerInv
  BY TaskPair DEF Init, HandlerInv, HandlerOK, Making
<1>4. MapInv /\ WaitInv /\ WaitersHonest
  BY TaskParts DEF Init, MapInv, Placed, WaitInv, WaiterOK, WaitersHonest
<1>5. BatchInv
  BY TaskPair DEF Init, BatchInv
<1> QED
  BY <1>1, <1>2, <1>3, <1>4, <1>5 DEF Consistent

(* The task a handler is making is one of its own, and has no channel yet. *)
LEMMA CurIsTask ==
  ASSUME TypeOK, Consistent, NEW r \in Request, hpc[r] \in {"store", "launch"}
  PROVE  /\ cur[r] \in Task /\ cur[r][1] = r
         /\ cur[r][2] \in todo[r] \cup {Generic}
         /\ cur[r] = <<r, Generic>> => todo[r] = {}
         /\ taskDone[cur[r]] = "nil"
<1>1. cur[r] \in {r} \X (todo[r] \cup {Generic}) /\ (cur[r] = <<r, Generic>> => todo[r] = {})
  BY DEF Consistent, HandlerInv, HandlerOK
<1>2. \A p \in todo[r] \cup {Generic} : taskDone[<<r, p>>] = "nil"
  BY DEF Consistent, HandlerInv, HandlerOK, Making
<1>3. PICK p \in todo[r] \cup {Generic} : cur[r] = <<r, p>>
  BY <1>1, SMT
<1>4. todo[r] \subseteq Service
  BY DEF TypeOK, HandlerTypeOK
<1> QED
  BY <1>1, <1>2, <1>3, <1>4, TaskPair, SMT

(* A variable group that a step leaves alone keeps its type. *)
LEMMA TypeFrames ==
  /\ MapTypeOK /\ UNCHANGED mapVars => MapTypeOK'
  /\ ExecTypeOK /\ UNCHANGED execVars => ExecTypeOK'
  /\ WaitTypeOK /\ UNCHANGED waitVars => WaitTypeOK'
  /\ HandlerTypeOK /\ UNCHANGED handlerVars => HandlerTypeOK'
BY DEF MapTypeOK, ExecTypeOK, WaitTypeOK, HandlerTypeOK, mapVars, execVars, waitVars, handlerVars

(* Every step keeps the variables within their types. *)
LEMMA TypeStep == TypeOK /\ Consistent /\ [Next]_vars => TypeOK'
<1> SUFFICES ASSUME TypeOK, Consistent, [Next]_vars PROVE TypeOK'
  OBVIOUS
<1> USE DEF TypeOK
<1>1. ASSUME NEW r \in Request, NEW a \in Arrival[r], Receive(r, a[1], a[2]) PROVE TypeOK'
  <2>1. a[1] \in Service \cup BatchKind /\ a[2] \in BOOLEAN
    BY TaskServiceAssumption, SMT DEF BatchKind
  <2>2. HandlerTypeOK'
    BY <1>1, <2>1 DEF Receive, HandlerTypeOK
  <2> QED
    BY <1>1, <2>2, TypeFrames DEF Receive
<1>2. ASSUME NEW r \in Request, NEW p \in Service \cup {Generic}, TrackRead(r, p) PROVE TypeOK'
  <2>1. Cardinality(DOMAIN tasks) \in Nat
    BY FS_CardinalityType DEF MapTypeOK
  <2>2. MapTypeOK'
    BY <1>2, <2>1 DEF TrackRead, MapTypeOK
  <2>3. HandlerTypeOK'
    BY <1>2, TaskPair DEF TrackRead, HandlerTypeOK
  <2> QED
    BY <1>2, <2>2, <2>3, TypeFrames DEF TrackRead
<1>3. ASSUME NEW r \in Request, TrackStore(r) PROVE TypeOK'
  <2>1. cur[r] \in Task
    BY <1>3, CurIsTask DEF TrackStore
  <2>2. DOMAIN tasks' = DOMAIN tasks \cup {taskID[cur[r]]}
    BY <1>3 DEF TrackStore
  <2>3. IsFiniteSet(DOMAIN tasks')
    BY <2>2, FS_AddElement, SMTT(30) DEF MapTypeOK
  <2>4. MapTypeOK'
    BY <1>3, <2>1, <2>2, <2>3 DEF TrackStore, MapTypeOK
  <2>5. HandlerTypeOK'
    BY <1>3 DEF TrackStore, HandlerTypeOK
  <2> QED
    BY <1>3, <2>4, <2>5, TypeFrames DEF TrackStore
<1>4. ASSUME NEW r \in Request, Launch(r) PROVE TypeOK'
  <2>1. cur[r] \in Task
    BY <1>4, CurIsTask DEF Launch
  <2>2. ExecTypeOK'
    BY <1>4, <2>1 DEF Launch, ExecTypeOK
  <2>3. HandlerTypeOK'
    BY <1>4 DEF Launch, HandlerTypeOK
  <2> QED
    BY <1>4, <2>2, <2>3, TypeFrames DEF Launch
<1>5. ASSUME NEW r \in Request, WriteTask(r) PROVE TypeOK'
  <2>1. WaitTypeOK'
    BY <1>5 DEF WriteTask, WaitTypeOK
  <2>2. HandlerTypeOK'
    BY <1>5 DEF WriteTask, HandlerTypeOK
  <2> QED
    BY <1>5, <2>1, <2>2, TypeFrames DEF WriteTask
<1>6. ASSUME NEW r \in Request, SelectDone(r) \/ SelectTimeout(r) PROVE TypeOK'
  <2>1. HandlerTypeOK'
    BY <1>6 DEF SelectDone, SelectTimeout, HandlerTypeOK
  <2> QED
    BY <1>6, <2>1, TypeFrames DEF SelectDone, SelectTimeout
<1>7. ASSUME NEW s \in Service, NEW t \in Task, WorkerTake(s, t) PROVE TypeOK'
  <2>1. ExecTypeOK'
    BY <1>7 DEF WorkerTake, ExecTypeOK
  <2> QED
    BY <1>7, <2>1, TypeFrames DEF WorkerTake
<1>8. ASSUME NEW s \in Service, NEW out \in {"ok", "err"}, RunReturn(s, out) PROVE TypeOK'
  <2>1. ExecTypeOK'
    BY <1>8 DEF RunReturn, ExecTypeOK
  <2> QED
    BY <1>8, <2>1, TypeFrames DEF RunReturn
<1>9. ASSUME NEW r \in Request, GenericTake(r) PROVE TypeOK'
  <2>1. ExecTypeOK'
    BY <1>9 DEF GenericTake, ExecTypeOK
  <2>2. WaitTypeOK'
    BY <1>9 DEF GenericTake, WaitTypeOK
  <2> QED
    BY <1>9, <2>1, <2>2, TypeFrames DEF GenericTake
<1>10. ASSUME NEW r \in Request, GenericReturn(r) PROVE TypeOK'
  <2>1. ExecTypeOK'
    BY <1>10 DEF GenericReturn, ExecTypeOK
  <2> QED
    BY <1>10, <2>1, TypeFrames DEF GenericReturn
<1>11. ASSUME NEW t \in Task, NEW valid \in BOOLEAN, Complete(t, valid) PROVE TypeOK'
  <2>1. ExecTypeOK'
    BY <1>11 DEF Complete, ExecTypeOK
  <2> QED
    BY <1>11, <2>1, TypeFrames DEF Complete
<1>12. ASSUME NEW t \in Task, WaitLookup(t) PROVE TypeOK'
  <2>1. WaitTypeOK'
    BY <1>12 DEF WaitLookup, WaitTypeOK, MapTypeOK
  <2> QED
    BY <1>12, <2>1, TypeFrames DEF WaitLookup
<1>13. ASSUME NEW t \in Task, WaitDone(t) PROVE TypeOK'
  <2>1. WaitTypeOK'
    BY <1>13 DEF WaitDone, WaitTypeOK
  <2> QED
    BY <1>13, <2>1, TypeFrames DEF WaitDone
<1>14. ASSUME NEW t \in Task, Remove(t) PROVE TypeOK'
  <2>1. DOMAIN tasks' = DOMAIN tasks \ {taskID[won[t]]}
    BY <1>14 DEF Remove
  <2>2. IsFiniteSet(DOMAIN tasks')
    BY <2>1, FS_RemoveElement DEF MapTypeOK
  <2>3. MapTypeOK'
    BY <1>14, <2>1, <2>2 DEF Remove, MapTypeOK
  <2>4. WaitTypeOK'
    BY <1>14 DEF Remove, WaitTypeOK
  <2> QED
    BY <1>14, <2>3, <2>4, TypeFrames DEF Remove
<1>15. CASE UNCHANGED vars
  BY <1>15, TypeFrames DEF vars
<1> HIDE DEF TypeOK
<1> QED
  BY <1>1, <1>2, <1>3, <1>4, <1>5, <1>6, <1>7, <1>8, <1>9, <1>10, <1>11, <1>12, <1>13,
     <1>14, <1>15 DEF Next, Handler, Exec, Waiter

-----------------------------------------------------------------------------
(* Which steps may touch what *)

(* Only the steps of execTask and of its callers change the state of a     *)
(* task or what a worker holds.                                            *)
LEMMA StateFrame ==
  [Next]_vars =>
    \/ UNCHANGED <<taskState, worker>>
    \/ \E s \in Service, t \in Task : WorkerTake(s, t)
    \/ \E r \in Request : GenericTake(r)
    \/ \E t \in Task, valid \in BOOLEAN : Complete(t, valid)
BY DEF Next, Handler, Exec, Waiter, Receive, TrackRead, TrackStore, Launch, WriteTask,
       SelectDone, SelectTimeout, RunReturn, GenericReturn, WaitLookup, WaitDone, Remove,
       vars, execVars

(* Only Launch and the steps of execTask change the life of a task object. *)
LEMMA LifeFrame ==
  [Next]_vars =>
    \/ UNCHANGED execVars
    \/ \E r \in Request : Launch(r) \/ GenericTake(r) \/ GenericReturn(r)
    \/ \E s \in Service, t \in Task : WorkerTake(s, t)
    \/ \E s \in Service, out \in {"ok", "err"} : RunReturn(s, out)
    \/ \E t \in Task, valid \in BOOLEAN : Complete(t, valid)
BY DEF Next, Handler, Exec, Waiter, Receive, TrackRead, TrackStore, WriteTask,
       SelectDone, SelectTimeout, WaitLookup, WaitDone, Remove, vars, execVars

-----------------------------------------------------------------------------
(* Execution *)

(* A worker takes a task only when it has none, and lets go of it when the *)
(* task is complete.                                                       *)
LEMMA WorkerStep == TypeOK /\ WorkerInv /\ [Next]_vars => WorkerInv'
<1> SUFFICES ASSUME TypeOK, WorkerInv, [Next]_vars PROVE WorkerInv'
  OBVIOUS
<1>0. /\ taskState \in [Task -> {"unset", "running", "success", "error"}]
      /\ worker \in [Service -> Task \cup {None}]
  BY DEF TypeOK, ExecTypeOK
<1>1. CASE UNCHANGED <<taskState, worker>>
  BY <1>1 DEF WorkerInv
<1>2. ASSUME NEW s \in Service, NEW t \in Task, WorkerTake(s, t) PROVE WorkerInv'
  <2>0. /\ worker[s] = None /\ t[2] = s
        /\ worker' = [worker EXCEPT ![s] = t]
        /\ taskState' = [taskState EXCEPT ![t] = "running"]
    BY <1>2 DEF WorkerTake
  <2>1. ASSUME NEW u \in Task, taskState'[u] = "running", u[2] # Generic PROVE worker'[u[2]] = u
    <3>1. CASE u = t
      BY <1>0, <2>0, <3>1
    <3>2. CASE u # t
      <4>1. worker[u[2]] = u /\ u[2] \in Service
        BY <1>0, <2>0, <2>1, <3>2, TaskParts DEF WorkerInv
      <4>2. u[2] # s
        BY <2>0, <4>1, NotTask
      <4> QED
        BY <1>0, <2>0, <4>1, <4>2
    <3> QED
      BY <3>1, <3>2
  <2>2. ASSUME NEW q \in Service, worker'[q] # None
        PROVE worker'[q][2] = q /\ taskState'[worker'[q]] = "running"
    <3>1. CASE q = s
      BY <1>0, <2>0, <3>1
    <3>2. CASE q # s
      <4>1. worker'[q] = worker[q] /\ worker[q] \in Task
        BY <1>0, <2>0, <2>2, <3>2
      <4>2. worker[q][2] = q /\ taskState[worker[q]] = "running"
        BY <2>2, <4>1 DEF WorkerInv
      <4> QED
        BY <1>0, <2>0, <4>1, <4>2
    <3> QED
      BY <3>1, <3>2
  <2> QED
    BY <2>1, <2>2 DEF WorkerInv
<1>3. ASSUME NEW r \in Request, GenericTake(r) PROVE WorkerInv'
  <2>0. /\ worker' = worker
        /\ taskState' = [taskState EXCEPT ![<<r, Generic>>] = "running"]
    BY <1>3 DEF GenericTake, handlerVars
  <2>1. <<r, Generic>> \in Task /\ <<r, Generic>>[2] = Generic
    BY TaskPair
  <2>2. ASSUME NEW u \in Task, taskState'[u] = "running", u[2] # Generic PROVE worker'[u[2]] = u
    BY <1>0, <2>0, <2>1, <2>2 DEF WorkerInv
  <2>3. ASSUME NEW q \in Service, worker'[q] # None
        PROVE worker'[q][2] = q /\ taskState'[worker'[q]] = "running"
    <3>1. worker[q][2] = q /\ taskState[worker[q]] = "running" /\ worker[q] \in Task
      BY <1>0, <2>0, <2>3, SMTT(30) DEF WorkerInv
    <3> QED
      BY <1>0, <2>0, <3>1
  <2> QED
    BY <2>2, <2>3 DEF WorkerInv
<1>4. ASSUME NEW t \in Task, NEW valid \in BOOLEAN, Complete(t, valid) PROVE WorkerInv'
  <2>0. /\ worker' = [q \in Service |-> IF worker[q] = t THEN None ELSE worker[q]]
        /\ taskState'[t] # "running"
        /\ \A u \in Task : u # t => taskState'[u] = taskState[u]
    BY <1>0, <1>4 DEF Complete
  <2>1. ASSUME NEW u \in Task, taskState'[u] = "running", u[2] # Generic PROVE worker'[u[2]] = u
    <3>1. u # t /\ taskState[u] = "running"
      BY <2>0, <2>1
    <3>2. u[2] \in Service /\ worker[u[2]] = u
      BY <2>1, <3>1, TaskParts DEF WorkerInv
    <3> QED
      BY <2>0, <3>1, <3>2
  <2>2. ASSUME NEW q \in Service, worker'[q] # None
        PROVE worker'[q][2] = q /\ taskState'[worker'[q]] = "running"
    <3>1. worker'[q] = worker[q] /\ worker[q] # t /\ worker[q] \in Task
      BY <1>0, <2>0, <2>2
    <3> QED
      BY <2>0, <2>2, <3>1 DEF WorkerInv
  <2> QED
    BY <2>1, <2>2 DEF WorkerInv
<1> QED
  BY <1>1, <1>2, <1>3, <1>4, StateFrame

(* Two running tasks of one service are both what its worker holds. *)
LEMMA WorkerSerial == TypeOK /\ WorkerInv => OneAtATime
BY TaskParts DEF TypeOK, WorkerInv, OneAtATime

(* The fields of a task object move together. *)
LEMMA LifeStep == TypeOK /\ Consistent /\ [Next]_vars => LifeInv'
<1> SUFFICES ASSUME TypeOK, Consistent, [Next]_vars PROVE LifeInv'
  OBVIOUS
<1> USE DEF LifeInv, Finished
<1>0. LifeInv /\ WorkerInv /\ ExecTypeOK
  BY DEF Consistent, TypeOK
<1>1. CASE UNCHANGED execVars
  BY <1>0, <1>1 DEF execVars
<1>2. ASSUME NEW r \in Request, Launch(r) PROVE LifeInv'
  <2>1. cur[r] \in Task /\ taskDone[cur[r]] = "nil"
    BY <1>2, CurIsTask DEF Launch
  <2>2. taskState[cur[r]] = "unset"
    BY <1>0, <2>1 DEF ExecTypeOK
  <2> QED
    BY <1>0, <1>2, <2>1, <2>2 DEF Launch, ExecTypeOK
<1>3. ASSUME NEW r \in Request, GenericTake(r) PROVE LifeInv'
  <2>1. <<r, Generic>> \in Task /\ <<r, Generic>> \in sending
    BY <1>3, TaskPair DEF GenericTake
  <2>2. /\ taskState' = [taskState EXCEPT ![<<r, Generic>>] = "running"]
        /\ sending' = sending \ {<<r, Generic>>}
        /\ UNCHANGED <<taskDone, taskOut>>
    BY <1>3 DEF GenericTake
  <2> QED
    BY <1>0, <2>1, <2>2 DEF ExecTypeOK
<1>4. ASSUME NEW r \in Request, GenericReturn(r) PROVE LifeInv'
  <2>1. <<r, Generic>> \in Task /\ taskState[<<r, Generic>>] = "running"
    BY <1>4, TaskPair DEF GenericReturn
  <2>2. \A t \in Task : t # <<r, Generic>> => taskOut'[t] = taskOut[t]
    BY <1>0, <1>4 DEF GenericReturn, ExecTypeOK
  <2>3. UNCHANGED <<taskState, taskDone, sending>>
    BY <1>4 DEF GenericReturn
  <2> QED
    BY <1>0, <2>1, <2>2, <2>3
<1>5. ASSUME NEW s \in Service, NEW t \in Task, WorkerTake(s, t) PROVE LifeInv'
  BY <1>0, <1>5 DEF WorkerTake, ExecTypeOK
<1>6. ASSUME NEW s \in Service, NEW out \in {"ok", "err"}, RunReturn(s, out) PROVE LifeInv'
  <2>1. worker[s] # None /\ worker[s] \in Task
    BY <1>0, <1>6 DEF RunReturn, ExecTypeOK
  <2>2. taskState[worker[s]] = "running"
    BY <1>0, <2>1 DEF WorkerInv
  <2> QED
    BY <1>0, <1>6, <2>1, <2>2 DEF RunReturn, ExecTypeOK
<1>7. ASSUME NEW t \in Task, NEW valid \in BOOLEAN, Complete(t, valid) PROVE LifeInv'
  BY <1>0, <1>7 DEF Complete, ExecTypeOK
<1> HIDE DEF LifeInv, Finished
<1> QED
  BY <1>1, <1>2, <1>3, <1>4, <1>5, <1>6, <1>7, LifeFrame

-----------------------------------------------------------------------------
(* Handlers *)

(* A task object that has no channel gets it from its own handler's Launch *)
(* and from nothing else, and then keeps it; a waiter that was started     *)
(* stays started.                                                          *)
LEMMA DoneMonotone ==
  ASSUME TypeOK, LifeInv, [Next]_vars, NEW t \in Task
  PROVE  /\ taskDone[t] # "nil" => taskDone'[t] # "nil"
         /\ taskDone[t] = "nil" /\ taskDone'[t] # "nil" =>
              \E r \in Request : Launch(r) /\ cur[r] = t
         /\ wpc[t] # "none" => wpc'[t] # "none"
<1>0. ExecTypeOK /\ WaitTypeOK
  BY DEF TypeOK
<1>1. CASE \E r \in Request : Launch(r)
  BY <1>0, <1>1 DEF Launch, ExecTypeOK, waitVars
<1>2. CASE \E u \in Task, valid \in BOOLEAN : Complete(u, valid)
  BY <1>0, <1>2 DEF Complete, ExecTypeOK, LifeInv, waitVars
<1>3. CASE UNCHANGED taskDone /\ UNCHANGED wpc
  BY <1>3
<1>4. CASE UNCHANGED taskDone /\ \E r \in Request : WriteTask(r) \/ GenericTake(r)
  BY <1>0, <1>4 DEF WriteTask, GenericTake, WaitTypeOK
<1>5. CASE UNCHANGED taskDone /\ \E u \in Task : Waiter(u)
  BY <1>0, <1>5 DEF Waiter, WaitLookup, WaitDone, WaitTypeOK
<1> QED
  BY <1>1, <1>2, <1>3, <1>4, <1>5
  DEF Next, Handler, Exec, Waiter, Receive, TrackRead, TrackStore, WriteTask, SelectDone,
      SelectTimeout, WorkerTake, RunReturn, GenericTake, GenericReturn, WaitLookup, WaitDone,
      Remove, vars, execVars, waitVars

(* Which handler steps change the local state of a handler. *)
LEMMA HandlerFrame ==
  ASSUME [Next]_vars
  PROVE  \/ UNCHANGED <<hpc, kind, todo, cur, reply>> /\ \A r \in Request : ~Launch(r)
         \/ \E r \in Request : \E a \in Arrival[r] : Receive(r, a[1], a[2])
         \/ \E r \in Request, p \in Service \cup {Generic} : TrackRead(r, p)
         \/ \E r \in Request : TrackStore(r) \/ Launch(r) \/ WriteTask(r)
         \/ \E r \in Request : SelectDone(r) \/ SelectTimeout(r)
<1>1. CASE Exec \/ (\E t \in Task : Waiter(t) \/ Remove(t)) \/ UNCHANGED vars
  BY <1>1 DEF Exec, Waiter, WorkerTake, RunReturn, GenericTake, GenericReturn, Complete,
              WaitLookup, WaitDone, Remove, vars, handlerVars
<1> QED
  BY <1>1 DEF Next, Handler

(* The facts about one handler depend on its own variables, on which of    *)
(* its tasks have a channel, and on which waiters were started.            *)
LEMMA HandlerKeep ==
  ASSUME TypeOK, HandlerInv, NEW r \in Request,
         hpc'[r] = hpc[r], kind'[r] = kind[r], todo'[r] = todo[r],
         cur'[r] = cur[r], reply'[r] = reply[r],
         \A p \in Service \cup {Generic} :
           taskDone[<<r, p>>] = "nil" <=> taskDone'[<<r, p>>] = "nil",
         \A p \in Service \cup {Generic} : wpc[<<r, p>>] # "none" => wpc'[<<r, p>>] # "none"
  PROVE  HandlerOK(r)'
<1>1. todo[r] \subseteq Service
  BY DEF TypeOK, HandlerTypeOK
<1>2. HandlerOK(r)
  BY DEF HandlerInv
<1>3. CASE hpc[r] \in {"write", "select", "replied"}
  <2>1. kind[r] \in Service \cup BatchKind /\ \A t \in TasksOf(r) : taskDone[t] # "nil"
    BY <1>2, <1>3 DEF HandlerOK
  <2>2. \A t \in TasksOf(r)' : taskDone'[t] # "nil"
    BY <2>1, SMT DEF TasksOf
  <2>3. hpc[r] = "select" => wpc'[Main(r)'] # "none"
    BY <1>2, <2>1, SMT DEF HandlerOK, Main
  <2> QED
    BY <1>2, <1>3, <2>1, <2>2, <2>3 DEF HandlerOK, Making
<1>4. CASE hpc[r] \notin {"write", "select", "replied"}
  BY <1>1, <1>2, <1>4 DEF HandlerOK, Making
<1> QED
  BY <1>3, <1>4

(* Every step keeps the facts about every handler. *)
LEMMA HandlerStep == TypeOK /\ Consistent /\ [Next]_vars => HandlerInv'
<1> SUFFICES ASSUME TypeOK, Consistent, [Next]_vars PROVE HandlerInv'
  OBVIOUS
<1>0. HandlerInv /\ LifeInv /\ HandlerTypeOK /\ ExecTypeOK /\ WaitTypeOK
  BY DEF Consistent, TypeOK
<1>1. ASSUME NEW q \in Request, ~Launch(q), hpc'[q] = hpc[q], kind'[q] = kind[q],
             todo'[q] = todo[q], cur'[q] = cur[q], reply'[q] = reply[q]
      PROVE  HandlerOK(q)'
  <2>1. ASSUME NEW p \in Service \cup {Generic}
        PROVE  /\ taskDone[<<q, p>>] = "nil" <=> taskDone'[<<q, p>>] = "nil"
               /\ wpc[<<q, p>>] # "none" => wpc'[<<q, p>>] # "none"
    <3>1. <<q, p>> \in Task /\ <<q, p>>[1] = q
      BY TaskPair
    <3>2. ASSUME NEW r \in Request, Launch(r), cur[r] = <<q, p>> PROVE FALSE
      <4>1. cur[r][1] = r
        BY <3>2, CurIsTask DEF Launch
      <4> QED
        BY <1>1, <3>1, <3>2, <4>1
    <3> QED
      BY <1>0, <3>1, <3>2, DoneMonotone
  <2> QED
    BY <1>0, <1>1, <2>1, HandlerKeep
<1>2. CASE UNCHANGED <<hpc, kind, todo, cur, reply>> /\ \A r \in Request : ~Launch(r)
  BY <1>1, <1>2 DEF HandlerInv
<1>3. ASSUME NEW r \in Request, NEW a \in Arrival[r], Receive(r, a[1], a[2]) PROVE HandlerInv'
  <2>1. ASSUME NEW q \in Request, q # r PROVE HandlerOK(q)'
    BY <1>0, <1>1, <1>3, <2>1 DEF Receive, Launch, HandlerTypeOK
  <2>2. HandlerOK(r)'
    <3>1. a[1] \in Service \cup BatchKind
      BY TaskServiceAssumption, SMT DEF BatchKind
    <3>2. \A p \in Service \cup {Generic} : taskDone'[<<r, p>>] = "nil"
      <4>1. HandlerOK(r) /\ hpc[r] = "idle" /\ taskDone' = taskDone
        BY <1>0, <1>3 DEF Receive, HandlerInv, execVars
      <4> QED
        BY <4>1 DEF HandlerOK
    <3>3. /\ hpc'[r] = "track" /\ kind'[r] = a[1] /\ reply'[r] = reply[r]
          /\ todo'[r] = IF a[1] \in BatchKind THEN Service ELSE {a[1]}
      BY <1>0, <1>3 DEF Receive, HandlerTypeOK
    <3>4. reply'[r] = "none"
      BY <1>0, <1>3, <3>3 DEF Receive, HandlerInv, HandlerOK
    <3> QED
      BY <3>1, <3>2, <3>3, <3>4 DEF HandlerOK, Making
  <2> QED
    BY <2>1, <2>2 DEF HandlerInv
<1>4. ASSUME NEW r \in Request, NEW p \in Service \cup {Generic}, TrackRead(r, p) PROVE HandlerInv'
  <2>1. ASSUME NEW q \in Request, q # r PROVE HandlerOK(q)'
    BY <1>0, <1>1, <1>4, <2>1 DEF TrackRead, Launch, HandlerTypeOK
  <2>2. HandlerOK(r)'
    <3>1. /\ hpc[r] = "track" /\ hpc'[r] = "store" /\ cur'[r] = <<r, p>>
          /\ kind' = kind /\ todo' = todo /\ reply' = reply /\ taskDone' = taskDone
          /\ p \in todo[r] \/ (todo[r] = {} /\ p = Generic)
      BY <1>0, <1>4 DEF TrackRead, HandlerTypeOK, execVars
    <3>2. HandlerOK(r) /\ todo[r] \subseteq Service
      BY <1>0 DEF HandlerInv, HandlerTypeOK
    <3>3. cur'[r] = <<r, Generic>> => todo'[r] = {}
      BY <3>1, <3>2, NotTask, SMT
    <3> QED
      BY <3>1, <3>2, <3>3, SMT DEF HandlerOK, Making
  <2> QED
    BY <2>1, <2>2 DEF HandlerInv
<1>5. ASSUME NEW r \in Request, TrackStore(r) PROVE HandlerInv'
  <2>1. ASSUME NEW q \in Request, q # r PROVE HandlerOK(q)'
    BY <1>0, <1>1, <1>5, <2>1 DEF TrackStore, Launch, HandlerTypeOK
  <2>2. HandlerOK(r)'
    <3>1. /\ hpc[r] = "store" /\ hpc'[r] = "launch" /\ cur' = cur
          /\ kind' = kind /\ todo' = todo /\ reply' = reply /\ taskDone' = taskDone
      BY <1>0, <1>5 DEF TrackStore, HandlerTypeOK, execVars
    <3>2. HandlerOK(r)
      BY <1>0 DEF HandlerInv
    <3> QED
      BY <3>1, <3>2 DEF HandlerOK, Making
  <2> QED
    BY <2>1, <2>2 DEF HandlerInv
<1>6. ASSUME NEW r \in Request, Launch(r) PROVE HandlerInv'
  <2>1. ASSUME NEW q \in Request, q # r PROVE HandlerOK(q)'
    <3>1. ~Launch(q)
      <4>1. hpc'[r] # hpc[r]
        BY <1>0, <1>6 DEF Launch, HandlerTypeOK
      <4>2. ASSUME Launch(q) PROVE FALSE
        <5>1. hpc' = [hpc EXCEPT ![q] = hpc'[q]]
          BY <1>0, <4>2 DEF Launch, HandlerTypeOK
        <5> QED
          BY <1>0, <2>1, <4>1, <5>1 DEF HandlerTypeOK
      <4> QED
        BY <4>2
    <3> QED
      BY <1>0, <1>1, <1>6, <2>1, <3>1 DEF Launch, HandlerTypeOK
  <2>2. HandlerOK(r)'
    <3>0. HandlerOK(r) /\ todo[r] \subseteq Service
      BY <1>0 DEF HandlerInv, HandlerTypeOK
    <3>1. PICK p \in todo[r] \cup {Generic} : cur[r] = <<r, p>>
      BY <1>6, <3>0, SMT DEF Launch, HandlerOK
    <3>2. /\ hpc[r] = "launch" /\ kind' = kind /\ reply' = reply
          /\ todo'[r] = todo[r] \ {p}
          /\ hpc'[r] = IF <<r, p>> = Main(r) THEN "write" ELSE "track"
      BY <1>0, <1>6, <3>1, TaskPair, <3>0, SMT DEF Launch, HandlerTypeOK
    <3>3. /\ taskDone'[<<r, p>>] = "open"
          /\ \A x \in Service \cup {Generic} : x # p => taskDone'[<<r, x>>] = taskDone[<<r, x>>]
      <4>1. p \in Service \cup {Generic} /\ taskDone' = [taskDone EXCEPT ![<<r, p>>] = "open"]
        BY <1>6, <3>0, <3>1 DEF Launch
      <4>2. \A x \in Service \cup {Generic} : <<r, x>> \in Task /\ (x # p => <<r, x>> # <<r, p>>)
        BY <4>1, TaskPair
      <4>3. taskDone \in [Task -> {"nil", "open", "closed"}]
        BY <1>0 DEF ExecTypeOK
      <4> QED
        BY <4>1, <4>2, <4>3
    <3>4. /\ kind[r] \in Service \cup BatchKind /\ reply[r] = "none"
          /\ p = Generic => todo[r] = {}
          /\ \A x \in todo[r] \cup {Generic} : taskDone[<<r, x>>] = "nil"
          /\ kind[r] \notin BatchKind => todo[r] = {kind[r]}
          /\ kind[r] \in BatchKind => \A x \in Service \ todo[r] : taskDone[<<r, x>>] # "nil"
      BY <3>0, <3>1, <3>2 DEF HandlerOK, Making
    <3>5. CASE kind[r] \notin BatchKind
      <4>1. p = kind[r]
        BY <3>0, <3>4, <3>5
      <4>2. Main(r) = <<r, p>> /\ TasksOf(r)' = {<<r, p>>} /\ Main(r)' = <<r, p>>
        BY <3>2, <3>5, <4>1 DEF Main, TasksOf
      <4> QED
        BY <3>2, <3>3, <3>4, <4>2 DEF HandlerOK, Making
    <3>6. CASE kind[r] \in BatchKind /\ p # Generic
      <4>1. Main(r) # <<r, p>> /\ p \in todo[r]
        BY <3>1, <3>6 DEF Main
      <4> QED
        BY <3>0, <3>2, <3>3, <3>4, <3>6, <4>1, NotTask, SMT DEF HandlerOK, Making
    <3>7. CASE kind[r] \in BatchKind /\ p = Generic
      <4>1. Main(r) = <<r, p>> /\ hpc'[r] = "write"
        BY <3>2, <3>7 DEF Main
      <4>2. \A x \in Service \cup {Generic} : taskDone'[<<r, x>>] # "nil"
        BY <3>3, <3>4, <3>7
      <4>3. \A t \in TasksOf(r)' : taskDone'[t] # "nil"
        BY <3>2, <3>7, <4>2, SMT DEF TasksOf
      <4> QED
        BY <3>2, <3>4, <3>7, <4>1, <4>3 DEF HandlerOK, Making
    <3> QED
      BY <3>5, <3>6, <3>7
  <2> QED
    BY <2>1, <2>2 DEF HandlerInv
<1>7. ASSUME NEW r \in Request, WriteTask(r) PROVE HandlerInv'
  <2>1. ASSUME NEW q \in Request, q # r PROVE HandlerOK(q)'
    BY <1>0, <1>1, <1>7, <2>1 DEF WriteTask, Launch, HandlerTypeOK
  <2>2. HandlerOK(r)'
    <3>0. HandlerOK(r) /\ hpc[r] = "write"
      BY <1>0, <1>7 DEF HandlerInv, WriteTask
    <3>1. /\ kind[r] \in Service \cup BatchKind /\ Main(r) \in Task
          /\ \A t \in TasksOf(r) : taskDone[t] # "nil"
      BY <3>0, TaskPair DEF HandlerOK, Main
    <3>2. /\ kind' = kind /\ taskDone' = taskDone /\ TasksOf(r)' = TasksOf(r)
          /\ Main(r)' = Main(r)
      BY <1>7 DEF WriteTask, execVars, TasksOf, Main
    <3>3. \/ hpc'[r] = "replied"
          \/ hpc'[r] = "select" /\ reply' = reply /\ wpc'[Main(r)] # "none"
      BY <1>0, <1>7, <3>1 DEF WriteTask, HandlerTypeOK, WaitTypeOK
    <3> QED
      BY <3>0, <3>1, <3>2, <3>3, ZenonT(30) DEF HandlerOK, Making
  <2> QED
    BY <2>1, <2>2 DEF HandlerInv
<1>8. ASSUME NEW r \in Request, SelectDone(r) \/ SelectTimeout(r) PROVE HandlerInv'
  <2>1. ASSUME NEW q \in Request, q # r PROVE HandlerOK(q)'
    BY <1>0, <1>1, <1>8, <2>1 DEF SelectDone, SelectTimeout, Launch, HandlerTypeOK
  <2>2. HandlerOK(r)'
    <3>0. HandlerOK(r) /\ hpc[r] = "select"
      BY <1>0, <1>8 DEF HandlerInv, SelectDone, SelectTimeout
    <3>1. kind[r] \in Service \cup BatchKind /\ \A t \in TasksOf(r) : taskDone[t] # "nil"
      BY <3>0 DEF HandlerOK
    <3>2. kind' = kind /\ taskDone' = taskDone /\ TasksOf(r)' = TasksOf(r) /\ hpc'[r] = "replied"
      BY <1>0, <1>8 DEF SelectDone, SelectTimeout, execVars, TasksOf, HandlerTypeOK
    <3> QED
      BY <3>0, <3>1, <3>2, ZenonT(30) DEF HandlerOK, Making
  <2> QED
    BY <2>1, <2>2 DEF HandlerInv
<1> QED
  BY <1>2, <1>3, <1>4, <1>5, <1>6, <1>7, <1>8, HandlerFrame

-----------------------------------------------------------------------------
(* Outcomes and the map *)

(* No step changes the state or the outcome of a complete task: execTask   *)
(* is not entered for it again, and no other code writes these fields.     *)
LEMMA OutcomeStep ==
  ASSUME TypeOK, LifeInv, WorkerInv, [Next]_vars, NEW t \in Task, taskState[t] \in Finished
  PROVE  taskState'[t] = taskState[t] /\ taskOut'[t] = taskOut[t]
<1>0. ExecTypeOK /\ t \notin sending /\ taskState[t] # "running"
  BY DEF TypeOK, LifeInv, Finished
<1>1. CASE UNCHANGED execVars
  BY <1>1 DEF execVars
<1>2. ASSUME NEW r \in Request, Launch(r) \/ GenericTake(r) \/ GenericReturn(r)
      PROVE  taskState'[t] = taskState[t] /\ taskOut'[t] = taskOut[t]
  BY <1>0, <1>2 DEF Launch, GenericTake, GenericReturn, ExecTypeOK
<1>3. ASSUME NEW s \in Service, NEW u \in Task, WorkerTake(s, u)
      PROVE  taskState'[t] = taskState[t] /\ taskOut'[t] = taskOut[t]
  BY <1>0, <1>3 DEF WorkerTake, ExecTypeOK
<1>4. ASSUME NEW s \in Service, NEW out \in {"ok", "err"}, RunReturn(s, out)
      PROVE  taskState'[t] = taskState[t] /\ taskOut'[t] = taskOut[t]
  <2>1. worker[s] # t
    BY <1>0, <1>4 DEF RunReturn, WorkerInv
  <2> QED
    BY <1>0, <1>4, <2>1 DEF RunReturn, ExecTypeOK
<1>5. ASSUME NEW u \in Task, NEW valid \in BOOLEAN, Complete(u, valid)
      PROVE  taskState'[t] = taskState[t] /\ taskOut'[t] = taskOut[t]
  BY <1>0, <1>5 DEF Complete, ExecTypeOK
<1> QED
  BY <1>1, <1>2, <1>3, <1>4, <1>5, LifeFrame

(* A task object enters the map's care by its handler's TrackStore only. *)
LEMMA PlacedStep ==
  ASSUME TypeOK, Consistent, [Next]_vars, NEW t \in Task, Placed(t)'
  PROVE  Placed(t) \/ (TrackStore(t[1]) /\ cur[t[1]] = t)
<1>0. t[1] \in Request /\ HandlerTypeOK /\ LifeInv
  BY TaskParts DEF TypeOK, Consistent
<1>1. CASE taskDone'[t] # "nil"
  <2>1. CASE taskDone[t] # "nil"
    BY <2>1 DEF Placed
  <2>2. CASE taskDone[t] = "nil"
    <3>1. PICK r \in Request : Launch(r) /\ cur[r] = t
      BY <1>0, <1>1, <2>2, DoneMonotone
    <3>2. hpc[r] = "launch" /\ t[1] = r
      BY <3>1, CurIsTask DEF Launch
    <3> QED
      BY <3>1, <3>2 DEF Placed
  <2> QED
    BY <2>1, <2>2
<1>2. CASE hpc'[t[1]] = "launch" /\ cur'[t[1]] = t
  <2>1. CASE UNCHANGED <<hpc, kind, todo, cur, reply>>
    BY <1>2, <2>1 DEF Placed
  <2>2. ASSUME NEW r \in Request, TrackStore(r) PROVE Placed(t) \/ (TrackStore(t[1]) /\ cur[t[1]] = t)
    BY <1>0, <1>2, <2>2 DEF TrackStore, Placed, HandlerTypeOK
  <2>3. ASSUME NEW r \in Request, Launch(r) PROVE Placed(t)
    BY <1>0, <1>2, <2>3 DEF Launch, Placed, HandlerTypeOK
  <2>4. ASSUME NEW r \in Request, NEW a \in Arrival[r], Receive(r, a[1], a[2]) PROVE Placed(t)
    BY <1>0, <1>2, <2>4 DEF Receive, Placed, HandlerTypeOK
  <2>5. ASSUME NEW r \in Request, NEW p \in Service \cup {Generic}, TrackRead(r, p) PROVE Placed(t)
    BY <1>0, <1>2, <2>5 DEF TrackRead, Placed, HandlerTypeOK
  <2>6. ASSUME NEW r \in Request, WriteTask(r) \/ SelectDone(r) \/ SelectTimeout(r) PROVE Placed(t)
    BY <1>0, <1>2, <2>6 DEF WriteTask, SelectDone, SelectTimeout, Placed, HandlerTypeOK
  <2> QED
    BY <2>1, <2>2, <2>3, <2>4, <2>5, <2>6, HandlerFrame
<1> QED
  BY <1>1, <1>2 DEF Placed

(* A placed task stays placed. *)
LEMMA PlacedStays ==
  ASSUME TypeOK, Consistent, [Next]_vars, NEW t \in Task, Placed(t)
  PROVE  Placed(t)'
<1>0. t[1] \in Request /\ HandlerTypeOK /\ LifeInv /\ ExecTypeOK
  BY TaskParts DEF TypeOK, Consistent
<1>1. CASE taskDone[t] # "nil"
  BY <1>0, <1>1, DoneMonotone DEF Placed
<1>2. CASE hpc[t[1]] = "launch" /\ cur[t[1]] = t
  <2>1. CASE UNCHANGED <<hpc, kind, todo, cur, reply>>
    BY <1>2, <2>1 DEF Placed
  <2>3. ASSUME NEW r \in Request, Launch(r) PROVE Placed(t)'
    <3>1. CASE r = t[1]
      BY <1>0, <1>2, <2>3, <3>1 DEF Launch, Placed, ExecTypeOK
    <3>2. CASE r # t[1]
      BY <1>0, <1>2, <2>3, <3>2 DEF Launch, Placed, HandlerTypeOK
    <3> QED
      BY <3>1, <3>2
  <2>4. ASSUME NEW r \in Request, NEW a \in Arrival[r], Receive(r, a[1], a[2]) PROVE Placed(t)'
    BY <1>0, <1>2, <2>4 DEF Receive, Placed, HandlerTypeOK
  <2>5. ASSUME NEW r \in Request, NEW p \in Service \cup {Generic}, TrackRead(r, p) PROVE Placed(t)'
    BY <1>0, <1>2, <2>5 DEF TrackRead, Placed, HandlerTypeOK
  <2>6. ASSUME NEW r \in Request, TrackStore(r) \/ WriteTask(r) \/ SelectDone(r) \/ SelectTimeout(r)
        PROVE  Placed(t)'
    BY <1>0, <1>2, <2>6 DEF TrackStore, WriteTask, SelectDone, SelectTimeout, Placed, HandlerTypeOK
  <2> QED
    BY <2>1, <2>3, <2>4, <2>5, <2>6, HandlerFrame
<1> QED
  BY <1>1, <1>2 DEF Placed

(* Which steps change the map, an identifier or the history. *)
LEMMA MapFrame ==
  ASSUME [Next]_vars
  PROVE  \/ UNCHANGED mapVars
         \/ \E r \in Request, p \in Service \cup {Generic} : TrackRead(r, p)
         \/ \E r \in Request : TrackStore(r)
         \/ \E t \in Task : Remove(t)
BY DEF Next, Handler, Exec, Waiter, Receive, Launch, WriteTask, SelectDone, SelectTimeout,
       WorkerTake, RunReturn, GenericTake, GenericReturn, Complete, WaitLookup, WaitDone,
       vars, mapVars

(* The map keeps every task that is neither complete nor evicted. *)
LEMMA MapStep == TypeOK /\ Consistent /\ [Next]_vars => MapInv'
<1> SUFFICES ASSUME TypeOK, Consistent, [Next]_vars PROVE MapInv'
  OBVIOUS
<1>0. MapInv /\ LifeInv /\ WorkerInv /\ WaitInv /\ HandlerInv
      /\ MapTypeOK /\ HandlerTypeOK /\ ExecTypeOK /\ WaitTypeOK
  BY DEF Consistent, TypeOK
<1>1. \A t \in Task : taskState[t] \in Finished => taskState'[t] \in Finished
  BY <1>0, OutcomeStep
<1>2. CASE UNCHANGED mapVars
  <2>1. \A t \in Task : Placed(t)' => Placed(t) \/ TrackStore(t[1])
    BY PlacedStep
  <2>2. CASE \E r \in Request : TrackStore(r)
    <3>1. PICK r \in Request : TrackStore(r)
      BY <2>2
    <3>2. /\ hpc[r] = "store" /\ cur[r] \in Task
          /\ tasks' = tasks /\ evicted' = evicted /\ taskID' = taskID
      BY <1>2, <3>1, CurIsTask DEF TrackStore, mapVars
    <3>3. taskID[cur[r]] \in DOMAIN tasks' /\ tasks'[taskID[cur[r]]] = cur[r]
      BY <3>1 DEF TrackStore
    <3>4. Placed(cur[r])
      BY <1>0, <3>2, <3>3 DEF MapInv
    <3>5. cur[r][1] = r /\ taskDone[cur[r]] = "nil"
      BY <3>2, CurIsTask
    <3> QED
      BY <3>2, <3>4, <3>5 DEF Placed
  <2>3. CASE \A r \in Request : ~TrackStore(r)
    <3>1. \A t \in Task : Placed(t)' => Placed(t)
      BY <2>1, <2>3, TaskParts
    <3>2. \A t \in Task : Placed(t) => Placed(t)'
      BY PlacedStays
    <3> QED
      BY <1>0, <1>1, <1>2, <3>1, <3>2 DEF MapInv, MapTypeOK, mapVars
  <2> QED
    BY <2>2, <2>3
<1>3. ASSUME NEW r \in Request, NEW p \in Service \cup {Generic}, TrackRead(r, p) PROVE MapInv'
  <2>1. HandlerOK(r) /\ hpc[r] = "track" /\ p \in todo[r] \cup {Generic}
    BY <1>0, <1>3 DEF HandlerInv, TrackRead
  <2>2. ~Placed(<<r, p>>)
    BY <2>1, TaskPair DEF HandlerOK, Making, Placed
  <2>3. /\ tasks' = tasks /\ evicted' = evicted
        /\ \A t \in Task : t # <<r, p>> => taskID'[t] = taskID[t]
    BY <1>0, <1>3 DEF TrackRead, MapTypeOK
  <2>4. \A t \in Task : Placed(t)' => Placed(t)
    BY <1>0, <1>3, TaskParts DEF TrackRead, Placed, HandlerTypeOK, execVars
  <2>5. \A t \in Task : Placed(t) => Placed(t)'
    BY PlacedStays
  <2> QED
    BY <1>0, <1>1, <2>2, <2>3, <2>4, <2>5, ZenonT(30) DEF MapInv, MapTypeOK
<1>4. ASSUME NEW r \in Request, TrackStore(r) PROVE MapInv'
  <2>1. PICK c \in Task : c = cur[r] /\ hpc[r] = "store" /\ c[1] = r
    BY <1>4, CurIsTask DEF TrackStore
  <2>2. /\ tasks' = [i \in DOMAIN tasks \cup {taskID[c]} |-> IF i = taskID[c] THEN c ELSE tasks[i]]
        /\ evicted' = evicted \cup {tasks[i] : i \in DOMAIN tasks \cap {taskID[c]}}
        /\ taskID' = taskID
    BY <1>4, <2>1 DEF TrackStore
  <2>3. Placed(c)'
    BY <1>0, <1>4, <2>1 DEF TrackStore, Placed, HandlerTypeOK
  <2>4. \A t \in Task : Placed(t)' => Placed(t) \/ t = c
    <3>1. \A q \in Request : TrackStore(q) => q = r
      BY <1>0, <1>4 DEF TrackStore, HandlerTypeOK
    <3> QED
      BY <2>1, <3>1, PlacedStep, TaskParts
  <2>5. \A t \in Task : Placed(t) => Placed(t)'
    BY PlacedStays
  <2>6. ASSUME NEW i \in DOMAIN tasks' PROVE taskID'[tasks'[i]] = i /\ Placed(tasks[i])'
    <3>1. CASE i = taskID[c]
      BY <2>2, <2>3, <3>1
    <3>2. CASE i # taskID[c]
      <4>1. i \in DOMAIN tasks /\ tasks'[i] = tasks[i] /\ tasks[i] \in Task
        BY <1>0, <2>2, <2>6, <3>2 DEF MapTypeOK
      <4>2. taskID[tasks[i]] = i /\ Placed(tasks[i])
        BY <1>0, <4>1 DEF MapInv
      <4>3. Placed(tasks[i])'
        <5>1. PICK u \in Task : u = tasks[i] /\ u = tasks'[i]
          BY <4>1
        <5>2. Placed(u)
          BY <4>2, <5>1
        <5>3. Placed(u)'
          BY <2>5, <5>2
        <5> QED
          BY <5>1, <5>3
      <4> QED
        BY <2>2, <4>1, <4>2, <4>3
    <3> QED
      BY <3>1, <3>2
  <2>7. ASSUME NEW t \in Task, Placed(t)', t \notin evicted', taskState'[t] \notin Finished
        PROVE  taskID'[t] \in DOMAIN tasks' /\ tasks'[taskID'[t]] = t
    <3>1. CASE t = c
      BY <2>2, <3>1
    <3>2. CASE t # c
      <4>1. taskID[t] \in DOMAIN tasks /\ tasks[taskID[t]] = t
        BY <1>0, <1>1, <2>2, <2>4, <2>7, <3>2 DEF MapInv
      <4>2. taskID[t] # taskID[c]
        BY <2>2, <2>7, <4>1
      <4> QED
        BY <2>2, <4>1, <4>2
    <3> QED
      BY <3>1, <3>2
  <2> QED
    BY <2>6, <2>7 DEF MapInv
<1>5. ASSUME NEW t \in Task, Remove(t) PROVE MapInv'
  <2>1. PICK w \in Task : w = won[t] /\ taskState[w] \in Finished
    BY <1>0, <1>5 DEF Remove, WaitInv, WaiterOK, LifeInv
  <2>2. /\ tasks' = [i \in DOMAIN tasks \ {taskID[w]} |-> tasks[i]]
        /\ evicted' = evicted \cup ({tasks[i] : i \in DOMAIN tasks \cap {taskID[w]}} \ {w})
        /\ taskID' = taskID /\ taskDone' = taskDone /\ hpc' = hpc /\ cur' = cur
        /\ taskState' = taskState
    BY <1>5, <2>1 DEF Remove, execVars, handlerVars
  <2>3. \A u \in Task : Placed(u)' <=> Placed(u)
    BY <2>2 DEF Placed
  <2>4. ASSUME NEW i \in DOMAIN tasks' PROVE taskID'[tasks'[i]] = i /\ Placed(tasks[i])'
    BY <1>0, <2>2, <2>4 DEF MapInv, Placed
  <2>5. ASSUME NEW u \in Task, Placed(u)', u \notin evicted', taskState'[u] \notin Finished
        PROVE  taskID'[u] \in DOMAIN tasks' /\ tasks'[taskID'[u]] = u
    <3>1. taskID[u] \in DOMAIN tasks /\ tasks[taskID[u]] = u
      BY <1>0, <2>2, <2>3, <2>5 DEF MapInv
    <3>2. taskID[u] # taskID[w]
      BY <2>1, <2>2, <2>5, <3>1
    <3> QED
      BY <2>2, <3>1, <3>2
  <2> QED
    BY <2>4, <2>5 DEF MapInv
<1> QED
  BY <1>2, <1>3, <1>4, <1>5, MapFrame

-----------------------------------------------------------------------------
(* Waiters *)

(* Which steps change a waiter. *)
LEMMA WaitFrame ==
  ASSUME [Next]_vars
  PROVE  \/ UNCHANGED waitVars
         \/ \E r \in Request : WriteTask(r) \/ GenericTake(r)
         \/ \E t \in Task : WaitLookup(t) \/ WaitDone(t) \/ Remove(t)
BY DEF Next, Handler, Exec, Waiter, Receive, TrackRead, TrackStore, Launch, SelectDone,
       SelectTimeout, WorkerTake, RunReturn, GenericReturn, Complete, vars, waitVars

(* A task object once evicted stays so, one once complete stays so, and a  *)
(* task that execTask has begun is never again in its first state.         *)
LEMMA Monotone ==
  ASSUME TypeOK, Consistent, [Next]_vars, NEW t \in Task
  PROVE  /\ t \in evicted => t \in evicted'
         /\ taskState[t] \in Finished => taskState'[t] \in Finished
         /\ taskDone[t] = "closed" => taskDone'[t] = "closed"
         /\ taskState[t] # "unset" => taskState'[t] # "unset"
<1>0. LifeInv /\ WorkerInv /\ ExecTypeOK
  BY DEF Consistent, TypeOK
<1>1. t \in evicted => t \in evicted'
  BY MapFrame DEF TrackRead, TrackStore, Remove, mapVars
<1>2. taskState[t] \in Finished => taskState'[t] \in Finished
  BY <1>0, OutcomeStep
<1>3. taskDone[t] = "closed" => taskDone'[t] = "closed"
  <2>1. LifeInv'
    BY LifeStep
  <2> QED
    BY <1>0, <1>2, <2>1 DEF LifeInv
<1>4. taskState[t] # "unset" => taskState'[t] # "unset"
  BY <1>0, StateFrame DEF WorkerTake, GenericTake, Complete, ExecTypeOK
<1> QED
  BY <1>1, <1>2, <1>3, <1>4

(* The request of a generic task that exists is a batch, and all its tasks *)
(* have been made.                                                         *)
LEMMA BatchMade ==
  ASSUME TypeOK, Consistent, NEW r \in Request, taskDone[<<r, Generic>>] # "nil"
  PROVE  /\ kind[r] \in BatchKind
         /\ \A s \in Service : taskDone[<<r, s>>] # "nil"
<1>0. HandlerOK(r) /\ HandlerTypeOK
  BY DEF Consistent, HandlerInv, TypeOK
<1>1. kind[r] \in BatchKind /\ hpc[r] \notin Making /\ hpc[r] # "idle"
  BY <1>0 DEF HandlerOK
<1>2. hpc[r] \in {"write", "select", "replied"}
  BY <1>0, <1>1 DEF HandlerTypeOK, Making
<1> QED
  BY <1>0, <1>1, <1>2 DEF HandlerOK, TasksOf

(* A request's kind is fixed once it has been received, and a handler that *)
(* has begun to answer does not make tasks again.                          *)
LEMMA KindFixed ==
  ASSUME TypeOK, [Next]_vars, NEW r \in Request, hpc[r] # "idle"
  PROVE  /\ kind'[r] = kind[r] /\ hpc'[r] # "idle"
         /\ hpc[r] \in {"select", "replied"} => hpc'[r] \in {"select", "replied"}
<1>0. HandlerTypeOK
  BY DEF TypeOK
<1>1. ASSUME NEW q \in Request, NEW a \in Arrival[q], Receive(q, a[1], a[2])
      PROVE  kind'[r] = kind[r] /\ hpc'[r] = hpc[r]
  BY <1>0, <1>1 DEF Receive, HandlerTypeOK
<1>2. ASSUME NEW q \in Request, NEW p \in Service \cup {Generic}, TrackRead(q, p)
      PROVE  kind'[r] = kind[r] /\ (hpc'[r] = hpc[r] \/ (hpc[r] = "track" /\ hpc'[r] = "store"))
  BY <1>0, <1>2 DEF TrackRead, HandlerTypeOK
<1>3. ASSUME NEW q \in Request, TrackStore(q) \/ Launch(q)
      PROVE  /\ kind'[r] = kind[r]
             /\ \/ hpc'[r] = hpc[r]
                \/ hpc[r] \in {"store", "launch"} /\ hpc'[r] \in {"launch", "write", "track"}
  BY <1>0, <1>3 DEF TrackStore, Launch, HandlerTypeOK
<1>4. ASSUME NEW q \in Request, WriteTask(q) \/ SelectDone(q) \/ SelectTimeout(q)
      PROVE  kind'[r] = kind[r] /\ (hpc'[r] = hpc[r] \/ hpc'[r] \in {"select", "replied"})
  BY <1>0, <1>4 DEF WriteTask, SelectDone, SelectTimeout, HandlerTypeOK
<1> QED
  BY <1>1, <1>2, <1>3, <1>4, HandlerFrame, SMT

(* A waiter, once started, was started by the code that does so. *)
LEMMA AwaitedStays ==
  ASSUME TypeOK, Consistent, [Next]_vars, NEW t \in Task, taskDone[t] # "nil", Awaited(t)
  PROVE  Awaited(t)'
<1>0. t[1] \in Request /\ t = <<t[1], t[2]>> /\ t[2] \in Service \cup {Generic}
      /\ <<t[1], Generic>> \in Task
  BY TaskParts, TaskPair
<1>1. HandlerOK(t[1])
  BY <1>0 DEF Consistent, HandlerInv
<1>2. hpc[t[1]] = "idle" => taskDone[<<t[1], t[2]>>] = "nil"
  BY <1>0, <1>1 DEF HandlerOK
<1>3. /\ kind'[t[1]] = kind[t[1]]
      /\ hpc[t[1]] \in {"select", "replied"} => hpc'[t[1]] \in {"select", "replied"}
  BY <1>0, <1>2, KindFixed
<1>4. taskState[<<t[1], Generic>>] # "unset" => taskState'[<<t[1], Generic>>] # "unset"
  BY <1>0, Monotone
<1>5. Main(t[1])' = Main(t[1])
  BY <1>3 DEF Main
<1> QED
  BY <1>3, <1>4, <1>5 DEF Awaited

(* The facts about a waiter hold again if it and what it found are left    *)
(* alone.                                                                  *)
LEMMA WaitKeep ==
  ASSUME TypeOK, Consistent, [Next]_vars, NEW t \in Task,
         wpc'[t] = wpc[t], won'[t] = won[t], t \in removing' => t \in removing
  PROVE  WaiterOK(t)'
<1>0. WaiterOK(t) /\ LifeInv
  BY DEF Consistent, WaitInv
<1>1. wpc'[t] # "none" => taskDone'[t] # "nil"
  BY <1>0, DoneMonotone DEF WaiterOK
<1>2. wpc'[t] # "none" => Awaited(t)'
  BY <1>0, AwaitedStays DEF WaiterOK
<1>3. wpc'[t] \in {"blocked", "stuck"} =>
         won'[t] \in Task /\ (t \in evicted' \/ won'[t] = t \/ taskState'[t] \in Finished)
  BY <1>0, Monotone DEF WaiterOK
<1>4. ASSUME t \in removing'
      PROVE  wpc'[t] = "closed" /\ won'[t] \in Task /\ taskDone'[won'[t]] = "closed"
  <2>1. wpc[t] = "closed" /\ won[t] \in Task /\ taskDone[won[t]] = "closed"
    BY <1>0, <1>4 DEF WaiterOK
  <2>2. taskDone'[won[t]] = "closed"
    BY <2>1, Monotone
  <2> QED
    BY <2>1, <2>2
<1> QED
  BY <1>1, <1>2, <1>3, <1>4 DEF WaiterOK

(* A waiter waits for its own task, for another's only once its own is     *)
(* complete or evicted.                                                    *)
LEMMA WaitStep == TypeOK /\ Consistent /\ [Next]_vars => WaitInv'
<1> SUFFICES ASSUME TypeOK, Consistent, [Next]_vars, NEW t \in Task PROVE WaiterOK(t)'
  BY DEF WaitInv
<1>0. /\ LifeInv /\ HandlerInv /\ MapInv /\ WaiterOK(t)
      /\ MapTypeOK /\ WaitTypeOK /\ HandlerTypeOK /\ ExecTypeOK
  BY DEF Consistent, TypeOK, WaitInv
<1>1. CASE UNCHANGED waitVars
  BY <1>1, WaitKeep DEF waitVars
<1>2. ASSUME NEW r \in Request, WriteTask(r) PROVE WaiterOK(t)'
  <2>1. CASE wpc'[t] = wpc[t]
    BY <1>2, <2>1, WaitKeep DEF WriteTask
  <2>2. CASE wpc'[t] # wpc[t]
    <3>1. t = Main(r) /\ wpc'[t] = "lookup" /\ hpc'[r] = "select" /\ hpc[r] = "write"
      BY <1>0, <1>2, <2>2 DEF WriteTask, WaitTypeOK, HandlerTypeOK
    <3>2. HandlerOK(r) /\ kind[r] \in Service \cup BatchKind
      BY <1>0, <3>1 DEF HandlerInv, HandlerOK
    <3>3. t[1] = r /\ t \in TasksOf(r)
      BY <3>1, <3>2, TaskPair DEF Main, TasksOf
    <3>4. taskDone'[t] # "nil"
      BY <1>2, <3>1, <3>2, <3>3 DEF WriteTask, execVars, HandlerOK
    <3>5. Awaited(t)'
      BY <1>2, <3>1, <3>3 DEF Awaited, Main, WriteTask
    <3>6. t \notin removing'
      <4>1. ~Awaited(t)
        BY <3>1, <3>3 DEF Awaited
      <4> QED
        BY <1>0, <1>2, <4>1 DEF WaiterOK, WriteTask
    <3> QED
      BY <3>1, <3>4, <3>5, <3>6 DEF WaiterOK
  <2> QED
    BY <2>1, <2>2
<1>3. ASSUME NEW r \in Request, GenericTake(r) PROVE WaiterOK(t)'
  <2>1. CASE t \notin {r} \X Service
    BY <1>3, <2>1, WaitKeep DEF GenericTake
  <2>2. CASE t \in {r} \X Service
    <3>1. <<r, Generic>> \in Task /\ <<r, Generic>> \in sending
      BY <1>3, TaskPair DEF GenericTake
    <3>2. taskDone[<<r, Generic>>] # "nil" /\ taskState[<<r, Generic>>] = "unset"
      BY <1>0, <3>1 DEF LifeInv
    <3>3. kind[r] \in BatchKind /\ taskDone[t] # "nil"
      <4>1. kind[r] \in BatchKind /\ \A s \in Service : taskDone[<<r, s>>] # "nil"
        BY <3>2, BatchMade
      <4> QED
        BY <2>2, <4>1, SMT
    <3>4. t[1] = r /\ t # Main(r) /\ kind' = kind
      BY <1>3, <2>2, <3>3, NotTask, SMT DEF Main, GenericTake, handlerVars
    <3>5. taskDone'[t] # "nil" /\ wpc'[t] = "lookup"
      BY <1>3, <2>2, <3>3 DEF GenericTake
    <3>6. Awaited(t)'
      BY <1>0, <1>3, <3>1, <3>4 DEF Awaited, Main, GenericTake, ExecTypeOK
    <3>7. t \notin removing'
      <4>1. ~Awaited(t)
        BY <3>2, <3>4 DEF Awaited
      <4> QED
        BY <1>0, <1>3, <4>1 DEF WaiterOK, GenericTake
    <3> QED
      BY <3>5, <3>6, <3>7 DEF WaiterOK
  <2> QED
    BY <2>1, <2>2
<1>4. ASSUME NEW u \in Task, WaitLookup(u) PROVE WaiterOK(t)'
  <2>1. CASE t # u
    BY <1>0, <1>4, <2>1, WaitKeep DEF WaitLookup, WaitTypeOK
  <2>2. CASE t = u
    <3>1. /\ wpc[t] = "lookup" /\ removing' = removing
          /\ wpc'[t] \in {"blocked", "stuck"} =>
               taskID[t] \in DOMAIN tasks /\ won'[t] = tasks[taskID[t]]
      BY <1>0, <1>4, <2>2 DEF WaitLookup, WaitTypeOK
    <3>2. taskDone[t] # "nil" /\ Awaited(t) /\ t \notin removing'
      BY <1>0, <3>1 DEF WaiterOK
    <3>3. taskDone'[t] # "nil" /\ Awaited(t)'
      BY <1>0, <3>2, DoneMonotone, AwaitedStays
    <3>4. t \in evicted \/ taskState[t] \in Finished \/ tasks[taskID[t]] = t
      BY <1>0, <3>2 DEF MapInv, Placed
    <3>5. wpc'[t] \in {"blocked", "stuck"} =>
            won'[t] \in Task /\ (t \in evicted' \/ won'[t] = t \/ taskState'[t] \in Finished)
      BY <1>0, <3>1, <3>4, Monotone DEF MapTypeOK
    <3> QED
      BY <3>2, <3>3, <3>5 DEF WaiterOK
  <2> QED
    BY <2>1, <2>2
<1>5. ASSUME NEW u \in Task, WaitDone(u) PROVE WaiterOK(t)'
  <2>1. CASE t # u
    BY <1>0, <1>5, <2>1, WaitKeep DEF WaitDone, WaitTypeOK
  <2>2. CASE t = u
    <3>1. wpc[t] = "blocked" /\ wpc'[t] = "closed" /\ won' = won /\ taskDone' = taskDone
          /\ taskDone[won[t]] = "closed"
      BY <1>0, <1>5, <2>2 DEF WaitDone, WaitTypeOK, execVars
    <3>2. taskDone[t] # "nil" /\ Awaited(t) /\ won[t] \in Task
      BY <1>0, <3>1 DEF WaiterOK
    <3>3. Awaited(t)'
      BY <3>2, AwaitedStays
    <3> QED
      BY <3>1, <3>2, <3>3 DEF WaiterOK
  <2> QED
    BY <2>1, <2>2
<1>6. ASSUME NEW u \in Task, Remove(u) PROVE WaiterOK(t)'
  BY <1>6, WaitKeep DEF Remove
<1> QED
  BY <1>1, <1>2, <1>3, <1>4, <1>5, <1>6, WaitFrame

(* A waiter's channel is closed by its lookup or after its receive, and    *)
(* either shows that the task is complete or evicted.                      *)
LEMMA HonestStep == TypeOK /\ Consistent /\ [Next]_vars => WaitersHonest'
<1> SUFFICES ASSUME TypeOK, Consistent, [Next]_vars, NEW t \in Task,
                    wpc'[t] = "closed", t \notin evicted'
             PROVE  taskState'[t] \in Finished
  BY DEF WaitersHonest
<1>0. /\ WaitersHonest /\ LifeInv /\ MapInv /\ WaiterOK(t) /\ WaitTypeOK
      /\ t \notin evicted
  BY Monotone DEF Consistent, TypeOK, WaitInv
<1> SUFFICES taskState[t] \in Finished
  BY Monotone
<1>1. CASE wpc[t] = "closed"
  BY <1>0, <1>1 DEF WaitersHonest
<1>2. CASE wpc[t] # "closed"
  <2>1. ASSUME NEW r \in Request, WriteTask(r) \/ GenericTake(r) PROVE FALSE
    BY <1>0, <1>2, <2>1 DEF WriteTask, GenericTake, WaitTypeOK
  <2>2. ASSUME NEW u \in Task, WaitLookup(u) PROVE taskState[t] \in Finished
    <3>1. wpc[t] = "lookup" /\ taskID[t] \notin DOMAIN tasks
      BY <1>0, <1>2, <2>2 DEF WaitLookup, WaitTypeOK
    <3>2. taskDone[t] # "nil"
      BY <1>0, <3>1 DEF WaiterOK
    <3> QED
      BY <1>0, <3>1, <3>2 DEF MapInv, Placed
  <2>3. ASSUME NEW u \in Task, WaitDone(u) PROVE taskState[t] \in Finished
    <3>1. wpc[t] = "blocked" /\ taskDone[won[t]] = "closed"
      BY <1>0, <1>2, <2>3 DEF WaitDone, WaitTypeOK
    <3>2. won[t] = t \/ taskState[t] \in Finished
      BY <1>0, <3>1 DEF WaiterOK
    <3> QED
      BY <1>0, <3>1, <3>2 DEF LifeInv
  <2>4. ASSUME NEW u \in Task, Remove(u) PROVE FALSE
    BY <1>2, <2>4 DEF Remove
  <2>5. CASE UNCHANGED waitVars
    BY <1>2, <2>5 DEF waitVars
  <2> QED
    BY <2>1, <2>2, <2>3, <2>4, <2>5, WaitFrame
<1> QED
  BY <1>1, <1>2

-----------------------------------------------------------------------------
(* Batches and replies *)

(* The tasks of a request, once it has any, are always the same ones, and  *)
(* those that are not evicted afterwards were not evicted before.          *)
LEMMA TasksOfFixed ==
  ASSUME TypeOK, Consistent, [Next]_vars, NEW r \in Request, hpc[r] # "idle"
  PROVE  /\ TasksOf(r)' = TasksOf(r) /\ Main(r)' = Main(r)
         /\ TasksOf(r) \subseteq Task /\ Main(r) \in TasksOf(r)
         /\ TasksOf(r) \cap evicted' = {} => TasksOf(r) \cap evicted = {}
<1>1. kind'[r] = kind[r]
  BY KindFixed
<1>2. kind[r] \in Service \cup BatchKind
  BY DEF Consistent, HandlerInv, HandlerOK
<1>3. TasksOf(r)' = TasksOf(r) /\ Main(r)' = Main(r)
  BY <1>1 DEF TasksOf, Main
<1>4. TasksOf(r) \subseteq Task
  BY <1>2, TaskPair, SMT DEF TasksOf
<1>5. Main(r) \in TasksOf(r)
  BY <1>2 DEF TasksOf, Main
<1> QED
  BY <1>3, <1>4, <1>5, Monotone

(* The task of a batch has an outcome only if its handler is past idle. *)
LEMMA OutcomeBusy ==
  ASSUME TypeOK, Consistent, NEW r \in Request, NEW p \in Service \cup {Generic},
         taskState[<<r, p>>] # "unset"
  PROVE  hpc[r] # "idle" /\ taskDone[<<r, p>>] # "nil"
<1>1. <<r, p>> \in Task
  BY TaskPair
<1>2. taskDone[<<r, p>>] # "nil"
  BY <1>1 DEF Consistent, LifeInv, TypeOK, ExecTypeOK, Finished
<1>3. HandlerOK(r)
  BY DEF Consistent, HandlerInv
<1> QED
  BY <1>2, <1>3 DEF HandlerOK

(* A batch ends well only when every waiter of TaskWaitAll is done and no  *)
(* task of the batch has failed.                                           *)
LEMMA BatchStep == TypeOK /\ Consistent /\ [Next]_vars => BatchInv'
<1> SUFFICES ASSUME TypeOK, Consistent, [Next]_vars, NEW r \in Request,
                    taskOut'[<<r, Generic>>] = "ok", TasksOf(r)' \cap evicted' = {},
                    NEW s \in Service
             PROVE  taskState'[<<r, s>>] = "success"
  BY DEF BatchInv
<1> DEFINE g == <<r, Generic>>
<1>0. /\ LifeInv /\ WorkerInv /\ BatchInv /\ WaitersHonest /\ ExecTypeOK
      /\ g \in Task /\ <<r, s>> \in Task
  BY TaskPair DEF Consistent, TypeOK
<1> SUFFICES taskState[<<r, s>>] = "success"
  BY <1>0, OutcomeStep DEF Finished
<1>1. CASE taskOut[g] = "ok"
  <2>1. hpc[r] # "idle"
    BY <1>0, <1>1, OutcomeBusy DEF LifeInv
  <2>2. TasksOf(r) \cap evicted = {}
    BY <2>1, TasksOfFixed
  <2> QED
    BY <1>0, <1>1, <2>2 DEF BatchInv
<1>2. CASE taskOut[g] # "ok"
  <2>1. GenericReturn(r)
    <3>1. ASSUME NEW q \in Request, GenericReturn(q) PROVE q = r
      BY <1>0, <1>2, <3>1 DEF GenericReturn, ExecTypeOK
    <3>2. ASSUME NEW x \in Service, NEW out \in {"ok", "err"}, RunReturn(x, out) PROVE FALSE
      <4>1. worker[x] \in Task /\ worker[x][2] = x
        <5>1. worker[x] # None
          BY <3>2 DEF RunReturn
        <5>2. worker[x] \in Task \cup {None}
          BY <1>0 DEF ExecTypeOK
        <5> QED
          BY <1>0, <5>1, <5>2 DEF WorkerInv
      <4>2. worker[x] # g
        BY <4>1, NotTask, SMT
      <4> QED
        BY <1>0, <1>2, <3>2, <4>2 DEF RunReturn, ExecTypeOK
    <3>3. ASSUME NEW t \in Task, NEW valid \in BOOLEAN, Complete(t, valid) PROVE FALSE
      BY <1>0, <1>2, <3>3 DEF Complete, ExecTypeOK
    <3>4. ASSUME NEW q \in Request, Launch(q) \/ GenericTake(q) PROVE FALSE
      BY <1>2, <3>4 DEF Launch, GenericTake
    <3>5. ASSUME NEW x \in Service, NEW t \in Task, WorkerTake(x, t) PROVE FALSE
      BY <1>2, <3>5 DEF WorkerTake
    <3>6. CASE UNCHANGED execVars
      BY <1>2, <3>6 DEF execVars
    <3> QED
      BY <3>1, <3>2, <3>3, <3>4, <3>5, <3>6, LifeFrame
  <2>2. /\ taskState[g] = "running" /\ wpc[<<r, s>>] = "closed"
        /\ taskOut[<<r, s>>] # "err"
    BY <1>0, <2>1 DEF GenericReturn, ExecTypeOK
  <2>3. taskDone[g] # "nil" /\ hpc[r] # "idle"
    BY <2>2, OutcomeBusy
  <2>4. <<r, s>> \in TasksOf(r)
    BY <2>3, BatchMade DEF TasksOf
  <2>5. <<r, s>> \notin evicted
    BY <2>3, <2>4, TasksOfFixed
  <2>6. taskState[<<r, s>>] \in Finished
    BY <1>0, <2>2, <2>5 DEF WaitersHonest
  <2> QED
    BY <1>0, <2>2, <2>6 DEF LifeInv, Finished
<1> QED
  BY <1>1, <1>2

(* An answer is written once, from the outcome of the task it is about. *)
LEMMA RepliesStep == TypeOK /\ Consistent /\ RepliesHonest /\ [Next]_vars => RepliesHonest'
<1> SUFFICES ASSUME TypeOK, Consistent, RepliesHonest, [Next]_vars, NEW r \in Request,
                    TasksOf(r)' \cap evicted' = {}
             PROVE  /\ reply'[r] = "ok" => \A t \in TasksOf(r)' : taskState'[t] = "success"
                    /\ reply'[r] = "error" => taskState'[Main(r)'] = "error"
  BY DEF RepliesHonest
<1>0. /\ LifeInv /\ WorkerInv /\ BatchInv /\ WaitersHonest /\ HandlerOK(r)
      /\ HandlerTypeOK /\ ExecTypeOK
  BY DEF Consistent, TypeOK, HandlerInv
<1>1. CASE reply'[r] = reply[r]
  <2>1. CASE reply[r] = "none"
    BY <1>1, <2>1
  <2>2. CASE reply[r] # "none"
    <3>1. hpc[r] # "idle"
      BY <1>0, <2>2 DEF HandlerOK
    <3>2. /\ TasksOf(r)' = TasksOf(r) /\ Main(r)' = Main(r) /\ TasksOf(r) \subseteq Task
          /\ Main(r) \in TasksOf(r) /\ TasksOf(r) \cap evicted = {}
      BY <3>1, TasksOfFixed
    <3>3. \A t \in TasksOf(r) : taskState[t] \in Finished => taskState'[t] = taskState[t]
      BY <1>0, <3>2, OutcomeStep
    <3> QED
      BY <1>1, <3>2, <3>3 DEF RepliesHonest, Finished
  <2> QED
    BY <2>1, <2>2
<1>2. CASE reply'[r] # reply[r] /\ reply'[r] \in {"ok", "error"}
  <2>1. SelectDone(r)
    <3>1. ASSUME NEW q \in Request, SelectDone(q) PROVE q = r
      BY <1>0, <1>2, <3>1 DEF SelectDone, HandlerTypeOK
    <3>2. ASSUME NEW q \in Request, SelectTimeout(q) \/ WriteTask(q) PROVE FALSE
      BY <1>0, <1>2, <3>2 DEF SelectTimeout, WriteTask, HandlerTypeOK
    <3>3. ASSUME NEW q \in Request, TrackStore(q) \/ Launch(q) PROVE FALSE
      BY <1>2, <3>3 DEF TrackStore, Launch
    <3>4. ASSUME NEW q \in Request, NEW p \in Service \cup {Generic}, TrackRead(q, p) PROVE FALSE
      BY <1>2, <3>4 DEF TrackRead
    <3>5. ASSUME NEW q \in Request, NEW a \in Arrival[q], Receive(q, a[1], a[2]) PROVE FALSE
      BY <1>2, <3>5 DEF Receive
    <3>6. CASE UNCHANGED <<hpc, kind, todo, cur, reply>>
      BY <1>2, <3>6
    <3> QED
      BY <3>1, <3>2, <3>3, <3>4, <3>5, <3>6, HandlerFrame
  <2>2. /\ hpc[r] = "select" /\ wpc[Main(r)] = "closed" /\ taskState' = taskState
        /\ reply'[r] = IF taskOut[Main(r)] = "err" THEN "error" ELSE "ok"
    BY <1>0, <2>1 DEF SelectDone, HandlerTypeOK, execVars
  <2>3. /\ TasksOf(r)' = TasksOf(r) /\ Main(r)' = Main(r) /\ TasksOf(r) \subseteq Task
        /\ Main(r) \in TasksOf(r) /\ TasksOf(r) \cap evicted = {}
    BY <2>2, TasksOfFixed
  <2>4. taskState[Main(r)] \in Finished
    BY <1>0, <2>2, <2>3 DEF WaitersHonest
  <2>5. CASE taskOut[Main(r)] = "err"
    BY <1>0, <2>2, <2>3, <2>4, <2>5 DEF LifeInv, Finished
  <2>6. CASE taskOut[Main(r)] # "err"
    <3>1. taskState[Main(r)] = "success" /\ taskOut[Main(r)] = "ok" /\ reply'[r] = "ok"
      BY <1>0, <2>2, <2>3, <2>4, <2>6 DEF LifeInv, Finished
    <3>2. CASE kind[r] \notin BatchKind
      BY <2>2, <2>3, <3>1, <3>2 DEF TasksOf, Main
    <3>3. CASE kind[r] \in BatchKind
      <4>1. Main(r) = <<r, Generic>>
        BY <3>3 DEF Main
      <4>2. \A s \in Service : taskState[<<r, s>>] = "success"
        BY <1>0, <2>3, <3>1, <4>1 DEF BatchInv
      <4>3. \A t \in TasksOf(r) : taskState[t] = "success"
        BY <3>1, <3>3, <4>1, <4>2, SMT DEF TasksOf
      <4> QED
        BY <2>2, <2>3, <3>1, <4>3
    <3> QED
      BY <3>2, <3>3
  <2> QED
    BY <2>5, <2>6
<1> QED
  BY <1>1, <1>2

-----------------------------------------------------------------------------
(* The theorems *)

(* Every reachable state is consistent: the inductive invariant. *)
THEOREM AlwaysConsistent == Spec => [](TypeOK /\ Consistent)
<1>1. TypeOK /\ Consistent /\ [Next]_vars => TypeOK' /\ Consistent'
  <2> SUFFICES ASSUME TypeOK, Consistent, [Next]_vars PROVE TypeOK' /\ Consistent'
    OBVIOUS
  <2>1. TypeOK' /\ LifeInv' /\ HandlerInv' /\ MapInv' /\ WaitInv' /\ WaitersHonest' /\ BatchInv'
    BY TypeStep, LifeStep, HandlerStep, MapStep, WaitStep, HonestStep, BatchStep
  <2>2. WorkerInv'
    BY WorkerStep DEF Consistent
  <2> QED
    BY <2>1, <2>2 DEF Consistent
<1> QED
  BY InitInv, <1>1, PTL DEF Spec

(* The variables keep their types. *)
THEOREM TypeCorrect == Spec => []TypeOK
BY AlwaysConsistent, PTL

(* A storage service never executes two tasks at once: the goroutine that  *)
(* storageService.Init starts is the only one to receive from its queue.   *)
THEOREM ServiceIsSerial == Spec => []OneAtATime
<1>1. TypeOK /\ Consistent => OneAtATime
  BY WorkerSerial DEF Consistent
<1> QED
  BY AlwaysConsistent, <1>1, PTL

(* TaskWaitC's channel is closed only when the task is complete, for every *)
(* task that kept its own map entry.                                       *)
THEOREM WaitIsHonest == Spec => []WaitersHonest
<1>1. TypeOK /\ Consistent => WaitersHonest
  BY DEF Consistent
<1> QED
  BY AlwaysConsistent, <1>1, PTL

(* TaskInspect finds every task that is still to complete, under the       *)
(* identifier its creator was given, if the task kept its map entry.       *)
THEOREM TasksAreInspectable == Spec => []LiveTaskInspectable
<1>1. TypeOK /\ Consistent => LiveTaskInspectable
  <2> SUFFICES ASSUME TypeOK, Consistent, NEW t \in Task, taskDone[t] = "open", t \notin evicted
               PROVE  TaskInspect(taskID[t]) = t
    BY DEF LiveTaskInspectable
  <2>1. taskState[t] \notin Finished
    BY DEF Consistent, LifeInv
  <2> QED
    BY <2>1 DEF Consistent, MapInv, Placed, TaskInspect
<1> QED
  BY AlwaysConsistent, <1>1, PTL

(* What WriteTask answers is the outcome of the work, for every request    *)
(* whose tasks kept their map entries.                                     *)
THEOREM AnswersAreHonest == Spec => []RepliesHonest
<1>1. Init => RepliesHonest
  BY DEF Init, RepliesHonest
<1> QED
  BY AlwaysConsistent, RepliesStep, <1>1, PTL DEF Spec

(* A complete task keeps its state and its outcome. *)
THEOREM OutcomesStay == Spec => OutcomesAreFinal
<1>1. TypeOK /\ Consistent /\ [Next]_vars =>
        [\A t \in Task : taskState[t] \in Finished =>
           /\ taskState'[t] = taskState[t]
           /\ taskOut'[t] = taskOut[t]]_vars
  <2> SUFFICES ASSUME TypeOK, Consistent, [Next]_vars, NEW t \in Task, taskState[t] \in Finished
               PROVE  taskState'[t] = taskState[t] /\ taskOut'[t] = taskOut[t]
    OBVIOUS
  <2> QED
    BY OutcomeStep DEF Consistent
<1> QED
  BY AlwaysConsistent, <1>1, PTL DEF Spec, OutcomesAreFinal

-----------------------------------------------------------------------------
(* Refinement *)

(* The phase of a task, from the fields of its object. *)
LEMMA PhaseStep ==
  ASSUME TypeOK, Consistent, [Next]_vars
  PROVE  [TC!Next]_phaseOf
<1>0. LifeInv /\ WorkerInv /\ ExecTypeOK
  BY DEF Consistent, TypeOK
<1>1. CASE UNCHANGED execVars
  BY <1>1 DEF execVars, phaseOf
<1>2. ASSUME NEW r \in Request, Launch(r) PROVE TC!Next
  <2>1. PICK c \in Task : c = cur[r] /\ taskDone[c] = "nil"
    BY <1>2, CurIsTask DEF Launch
  <2>2. taskState[c] = "unset"
    BY <1>0, <2>1 DEF LifeInv, ExecTypeOK, Finished
  <2>3. taskDone' = [taskDone EXCEPT ![c] = "open"] /\ taskState' = taskState
    BY <1>2, <2>1 DEF Launch
  <2>4. TC!Submit(c)
    BY <1>0, <2>1, <2>2, <2>3 DEF TC!Submit, phaseOf, ExecTypeOK
  <2> QED
    BY <2>4 DEF TC!Next
<1>3. ASSUME NEW r \in Request, GenericTake(r) PROVE TC!Next
  <2>1. PICK g \in Task : g = <<r, Generic>> /\ g[2] = Generic /\ g \in sending
    BY <1>3, TaskPair DEF GenericTake
  <2>2. taskState[g] = "unset" /\ taskDone[g] = "open"
    BY <1>0, <2>1 DEF LifeInv
  <2>3. taskDone' = taskDone /\ taskState' = [taskState EXCEPT ![g] = "running"]
    BY <1>3, <2>1 DEF GenericTake
  <2>4. TC!Start(g)
    BY <1>0, <2>1, <2>2, <2>3 DEF TC!Start, phaseOf, serviceOf, ExecTypeOK
  <2> QED
    BY <2>4 DEF TC!Next
<1>4. ASSUME NEW r \in Request, GenericReturn(r) PROVE UNCHANGED phaseOf
  BY <1>4 DEF GenericReturn, phaseOf
<1>5. ASSUME NEW s \in Service, NEW t \in Task, WorkerTake(s, t) PROVE TC!Next
  <2>1. taskState[t] = "unset" /\ taskDone[t] = "open" /\ t[2] = s /\ worker[s] = None
    BY <1>0, <1>5 DEF LifeInv, WorkerTake
  <2>2. taskDone' = taskDone /\ taskState' = [taskState EXCEPT ![t] = "running"]
    BY <1>5 DEF WorkerTake
  <2>3. \A u \in Task : u[2] = s => taskState[u] # "running"
    BY <1>0, <2>1, NotTask, ZenonT(30) DEF WorkerInv
  <2>4. phaseOf[t] = "queued" /\ \A u \in Task : serviceOf[u] = serviceOf[t] => phaseOf[u] # "running"
    BY <2>1, <2>3 DEF phaseOf, serviceOf
  <2>5. phaseOf' = [phaseOf EXCEPT ![t] = "running"]
    BY <1>0, <2>2 DEF phaseOf, ExecTypeOK
  <2>6. TC!Start(t)
    BY <2>4, <2>5 DEF TC!Start
  <2> QED
    BY <2>6 DEF TC!Next
<1>6. ASSUME NEW s \in Service, NEW out \in {"ok", "err"}, RunReturn(s, out) PROVE UNCHANGED phaseOf
  BY <1>6 DEF RunReturn, phaseOf
<1>7. ASSUME NEW t \in Task, NEW valid \in BOOLEAN, Complete(t, valid) PROVE TC!Next
  <2>1. PICK f \in Finished : taskState' = [taskState EXCEPT ![t] = f]
    BY <1>7 DEF Complete, Finished
  <2>2. taskState[t] = "running" /\ taskDone' = [taskDone EXCEPT ![t] = "closed"]
    BY <1>7 DEF Complete
  <2>3. phaseOf[t] = "running" /\ phaseOf' = [phaseOf EXCEPT ![t] = f]
    BY <1>0, <2>1, <2>2 DEF phaseOf, ExecTypeOK, Finished
  <2>4. TC!Finish(t)
    BY <2>1, <2>3 DEF TC!Finish, Finished, TC!Finished
  <2> QED
    BY <2>4 DEF TC!Next
<1> QED
  BY <1>1, <1>2, <1>3, <1>4, <1>5, <1>6, <1>7, LifeFrame

(* The task service implements its contract: every task is submitted,      *)
(* started and finished at most once and in this order, and no two tasks   *)
(* of one service overlap.                                                 *)
THEOREM ImplementsContract == Spec => Refines
<1>1. Init => TC!Init
  <2> SUFFICES ASSUME Init PROVE phaseOf = [t \in Task |-> "unborn"]
    BY DEF TC!Init
  <2>1. \A t \in Task : taskState[t] = "unset" /\ taskDone[t] = "nil"
    BY DEF Init
  <2> QED
    BY <2>1 DEF phaseOf
<1>2. TypeOK /\ Consistent /\ [Next]_vars => [TC!Next]_phaseOf
  BY PhaseStep
<1> QED
  BY AlwaysConsistent, <1>1, <1>2, PTL DEF Spec, Refines, TC!Spec
=============================================================================
