------------------------- MODULE VolumeRoutesProofs -------------------------
(***************************************************************************)
(* Proofs about VolumeRoutes, for any services, volumes, handlers and      *)
(* arrivals: an OK listing has what its mask asks for and the volumes      *)
(* whose state the driver cannot tell, an OK answer of the detach-all      *)
(* routes means that every volume listed was detached, and the attachment  *)
(* state in an answer is the volume's.                                     *)
(*                                                                         *)
(* Inv speaks of the functions in the queues: whatever has not failed has  *)
(* dealt with all it has listed, but for what it still has to do, and the  *)
(* functions of a request that is not a batch are at most one.  States     *)
(* speaks of the volumes: one that does not exist is attached to nobody,   *)
(* and whoever attaches or detaches one has said who they are.             *)
(***************************************************************************)
EXTENDS VolumeRoutes, TLAPS

\* Most leaves are first-order reasoning about sets, functions and records; the
\* others cite SMT.
USE Zenon

Listing == {"volumes", "snapshots", "volumesForService", "snapshotsForService"}
Detaching == {"volumeDetachAll", "volumeDetachAllForService"}

Request == [kind : Kinds \cup {"none"}, svc : Service \cup {NoService},
            vol : Vol \cup {NoOne}, mask : SUBSET Bits, host : Instance \cup {NoOne},
            known : SUBSET Service, pc : {"idle", "loop", "gather", "wait"},
            todo : SUBSET Service]

Function == [st : {"none", "queued", "detaching", "done"}, err : BOOLEAN,
             seen : SUBSET Vol, todo : SUBSET Vol, gone : SUBSET Vol,
             map : SUBSET Vol, truth : SUBSET Vol, blind : SUBSET Vol]

\* A function t of a request of kind k.
Fine(k, t) ==
    /\ t.st = "detaching" => k \in Detaching
    /\ t.st # "detaching" => t.todo = {}
    /\ t.st = "queued" => t.gone = {} /\ t.blind = {}
    /\ t.err \/ t.seen = t.gone \cup t.todo
    /\ k \in Listing => t.err \/ t.map = t.truth \cup t.blind

Sound(r) ==
    /\ \A s \in Service : Fine(req[r].kind, task[r][s])
    /\ req[r].pc = "idle" => task[r] = NoTasks
    /\ req[r].kind \notin Batch =>
         \A s \in Service : s # req[r].svc => task[r][s] = NoTask
    /\ \A s \in req[r].todo : task[r][s] = NoTask
    /\ req[r].pc \in {"loop", "gather"} => req[r].kind \in Batch

Types ==
    /\ req \in [Handler -> Request]
    /\ task \in [Handler -> [Service -> Function]]

Inv == Types /\ \A r \in Handler : Sound(r)

-----------------------------------------------------------------------------

\* A mask keeps the state of a volume exactly when it asks for the volume.
LEMMA StateIsMask ==
    ASSUME NEW to, NEW i, NEW m
    PROVE  Keeps(StateOf(to, i), m) <=> MaskAsksFor(to, i, m)
  BY DEF Keeps, MaskAsksFor, StateOf, Attached, Unattached, Mine

\* handleVolAttachments keeps a volume exactly when the mask asks for it or the
\* driver cannot tell its state, whatever the mask, whoever asks and whoever has the
\* volume.
LEMMA FilterIsMask ==
    ASSUME NEW s, NEW to, NEW i, NEW m, NEW v, NEW blind
    PROVE  handleVolAttachments(s, to, i, m, v \in blind) <=>
             \/ MaskAsksFor(to, i, m)
             \/ v \in blind /\ DriverState(s, to, i, m, TRUE) = "unknown"
  <1>1. StateOf(to, i) \notin {"unset", "unknown"}
    BY DEF StateOf
  <1>2. m = {} => MaskAsksFor(to, i, m) /\ ~Requested(m)
    BY DEF MaskAsksFor, Attached, Unattached, Requested
  <1>3. Keeps("unknown", m)
    BY DEF Keeps
  <1>4. CASE s \in Watched /\ Requested(m) /\ i \notin to /\ v \in blind
    <2>1. /\ AttachmentState(s, to, i, m, v \in blind) = "unknown"
          /\ DriverState(s, to, i, m, TRUE) = "unknown"
      BY <1>4 DEF AttachmentState, OrElse, DriverState
    <2> QED
      BY <1>3, <1>4, <2>1 DEF handleVolAttachments
  <1>5. CASE ~(s \in Watched /\ Requested(m) /\ i \notin to /\ v \in blind)
    <2>1. AttachmentState(s, to, i, m, v \in blind) = StateOf(to, i)
      BY <1>5 DEF AttachmentState, OrElse, DriverState
    <2>2. ~(v \in blind /\ DriverState(s, to, i, m, TRUE) = "unknown")
      BY <1>1, <1>5 DEF DriverState
    <2> QED
      BY <1>2, <2>1, <2>2, StateIsMask DEF handleVolAttachments
  <1> QED
    BY <1>4, <1>5

LEMMA NoTaskFine == NoTask \in Function /\ \A k : Fine(k, NoTask)
  BY DEF NoTask, Function, Fine

LEMMA NoReqTyped == NoReq \in Request
  BY DEF NoReq, Request

-----------------------------------------------------------------------------
(* The ways in which a step changes the requests and their functions *)

LEMMA DoneKeepsInv ==
    ASSUME Inv, NEW r \in Handler, NEW t, NEW a, Done(r, t, a)
    PROVE  Inv'
  <1>1. req' = [req EXCEPT ![r] = NoReq] /\ task' = [task EXCEPT ![r] = NoTasks]
    BY DEF Done
  <1>2. NoTasks \in [Service -> Function] /\ \A s \in Service : NoTasks[s] = NoTask
    BY NoTaskFine DEF NoTasks
  <1>3. Types'
    BY <1>1, <1>2, NoReqTyped DEF Inv, Types
  <1>4. ASSUME NEW h \in Handler PROVE Sound(h)'
    <2>1. CASE h = r
      <3>1. req'[h] = NoReq /\ task'[h] = NoTasks
        BY <1>1, <2>1 DEF Inv, Types
      <3> QED
        BY <1>2, <3>1, NoTaskFine, SMT DEF Sound, NoReq
    <2>2. CASE h # r
      <3>1. req'[h] = req[h] /\ task'[h] = task[h] /\ Sound(h)
        BY <1>1, <2>2 DEF Inv, Types
      <3> QED
        BY <3>1 DEF Sound
    <2> QED
      BY <2>1, <2>2
  <1> QED
    BY <1>3, <1>4 DEF Inv

LEMMA SetTaskKeepsInv ==
    ASSUME Inv, NEW r \in Handler, NEW s \in Service, NEW t \in Function,
           SetTask(r, s, t), req' = req, task[r][s].st # "none", Fine(req[r].kind, t)
    PROVE  Inv'
  <1>1. task' = [task EXCEPT ![r] = [task[r] EXCEPT ![s] = t]]
    BY DEF SetTask
  <1>2. /\ task[r] \in [Service -> Function] /\ Sound(r)
        /\ req[r].todo \subseteq Service
    BY DEF Inv, Types, Request
  <1>3. [task[r] EXCEPT ![s] = t] \in [Service -> Function]
    BY <1>2
  <1>4. Types'
    BY <1>1, <1>3 DEF Inv, Types
  <1>5. task[r][s] # NoTask /\ task[r] # NoTasks
    BY <1>2, SMT DEF NoTask, NoTasks
  <1>6. ASSUME NEW h \in Handler PROVE Sound(h)'
    <2>1. CASE h = r
      <3>1. /\ task'[h][s] = t
            /\ \A x \in Service : x # s => task'[h][x] = task[r][x]
        BY <1>1, <1>2, <2>1 DEF Inv, Types
      <3> QED
        BY <1>2, <1>5, <2>1, <3>1 DEF Sound
    <2>2. CASE h # r
      <3>1. task'[h] = task[h] /\ Sound(h)
        BY <1>1, <2>2 DEF Inv, Types
      <3> QED
        BY <3>1 DEF Sound
    <2> QED
      BY <2>1, <2>2
  <1> QED
    BY <1>4, <1>6 DEF Inv

LEMMA UnchangedKeepsInv ==
    ASSUME Inv, req' = req, task' = task
    PROVE  Inv'
  BY DEF Inv, Types, Sound

\* A function of r ends as t.
LEMMA EndKeepsInv ==
    ASSUME Inv, NEW r \in Handler, NEW s \in Service, NEW t \in Function, NEW a,
           End(r, s, t, a), task[r][s].st # "none", Fine(req[r].kind, t)
    PROVE  Inv'
  <1>1. CASE req[r].kind \in Batch
    <2>1. SetTask(r, s, t) /\ req' = req
      BY <1>1 DEF End
    <2> QED
      BY <2>1, SetTaskKeepsInv
  <1>2. CASE req[r].kind \notin Batch
    <2>1. Done(r, [task[r] EXCEPT ![s] = t], a)
      BY <1>2 DEF End
    <2> QED
      BY <2>1, DoneKeepsInv
  <1> QED
    BY <1>1, <1>2

-----------------------------------------------------------------------------
(* Every step keeps the invariant *)

LEMMA ReceiveBatchKeepsInv ==
    ASSUME Inv, NEW r \in Handler, NEW k \in Batch, NEW m \in SUBSET Bits,
           NEW known \in SUBSET Service, ReceiveBatch(r, k, m, known)
    PROVE  Inv'
  <1> DEFINE q == [kind |-> k, svc |-> NoService, vol |-> NoOne, mask |-> m,
                   host |-> HostOf[r], known |-> known, pc |-> "loop", todo |-> Service]
  <1>1. req[r].pc = "idle" /\ req' = [req EXCEPT ![r] = q] /\ task' = task
    BY DEF ReceiveBatch
  <1>2. q \in Request
    BY RoutesAssumption DEF Request, Batch, Kinds
  <1>3. q.kind = k /\ q.pc = "loop" /\ q.todo = Service
    OBVIOUS
  <1> HIDE DEF q
  <1>4. Types'
    BY <1>1, <1>2 DEF Inv, Types
  <1>5. ASSUME NEW h \in Handler PROVE Sound(h)'
    <2>1. Sound(h)
      BY DEF Inv
    <2>2. CASE h = r
      <3>1. req'[h] = q /\ task'[h] = NoTasks
        BY <1>1, <2>1, <2>2 DEF Inv, Types, Sound
      <3>2. \A s \in Service : task'[h][s] = NoTask
        BY <3>1 DEF NoTasks
      <3> QED
        BY <1>3, <3>1, <3>2, NoTaskFine DEF Sound
    <2>3. CASE h # r
      <3>1. req'[h] = req[h] /\ task'[h] = task[h]
        BY <1>1, <2>3 DEF Inv, Types
      <3> QED
        BY <2>1, <3>1 DEF Sound
    <2> QED
      BY <2>2, <2>3
  <1> QED
    BY <1>4, <1>5 DEF Inv

LEMMA ReceiveKeepsInv ==
    ASSUME Inv, NEW r \in Handler, NEW k \in Kinds \ Batch,
           NEW s \in Service \cup {NoService}, NEW v \in Vol \cup {NoOne},
           NEW m \in SUBSET Bits, NEW known \in SUBSET Service, NEW login,
           Receive(r, k, s, v, m, known, login)
    PROVE  Inv'
  <1> DEFINE q == [kind |-> k, svc |-> s, vol |-> v, mask |-> m, host |-> HostOf[r],
                   known |-> known, pc |-> "wait", todo |-> {}]
             t == [task[r] EXCEPT ![s].st = "queued"]
  <1>1. CASE req' = req /\ task' = task
    BY <1>1, UnchangedKeepsInv
  <1>2. CASE ~(req' = req /\ task' = task)
    <2>1. /\ req[r].pc = "idle" /\ req' = [req EXCEPT ![r] = q]
          /\ task' = [task EXCEPT ![r] = t] /\ s \in Service
      BY <1>2 DEF Receive
    <2>2. q \in Request /\ q.kind = k /\ q.svc = s /\ q.pc = "wait" /\ q.todo = {}
      BY RoutesAssumption DEF Request
    <2>3. Sound(r) /\ task[r] = NoTasks
      BY <2>1 DEF Inv, Sound
    <2>4. /\ t \in [Service -> Function]
          /\ \A x \in Service : Fine(k, t[x]) /\ (x # s => t[x] = NoTask)
      <3>1. t = [NoTasks EXCEPT ![s] = [NoTask EXCEPT !.st = "queued"]]
        BY <2>1, <2>3 DEF NoTasks
      <3>2. [NoTask EXCEPT !.st = "queued"] \in Function
            /\ Fine(k, [NoTask EXCEPT !.st = "queued"])
        BY DEF NoTask, Function, Fine
      <3> QED
        BY <2>1, <3>1, <3>2, NoTaskFine DEF NoTasks
    <2> HIDE DEF q, t
    <2>5. Types'
      BY <2>1, <2>2, <2>4 DEF Inv, Types
    <2>6. ASSUME NEW h \in Handler PROVE Sound(h)'
      <3>1. CASE h = r
        <4>1. req'[h] = q /\ task'[h] = t
          BY <2>1, <3>1 DEF Inv, Types
        <4> QED
          BY <2>2, <2>4, <4>1 DEF Sound
      <3>2. CASE h # r
        <4>1. req'[h] = req[h] /\ task'[h] = task[h] /\ Sound(h)
          BY <2>1, <3>2 DEF Inv, Types
        <4> QED
          BY <4>1 DEF Sound
      <3> QED
        BY <3>1, <3>2
    <2> QED
      BY <2>5, <2>6 DEF Inv
  <1> QED
    BY <1>1, <1>2

LEMMA ArriveKeepsInv ==
    ASSUME Inv, NEW r \in Handler, Arrive(r)
    PROVE  Inv'
  <1>k. PICK k \in Arrival[r] : \E m \in MasksOf(k) : \E known \in KnownTo(k, m) :
          Dispatch(r, k, m, known)
    BY DEF Arrive
  <1>m. PICK m \in MasksOf(k) : \E known \in KnownTo(k, m) : Dispatch(r, k, m, known)
    BY <1>k
  <1>1. PICK known \in KnownTo(k, m) : Dispatch(r, k, m, known)
    BY <1>m
  <1>2. k \in Kinds /\ m \in SUBSET Bits
    BY RoutesAssumption DEF MasksOf
  <1>3. known \in SUBSET Service
    <2>1. \A S, D : instanceIDs(S, D) \in SUBSET Service
      BY DEF instanceIDs
    <2> QED
      BY <2>1, SMT DEF KnownTo
  <1>4. CASE k \in Batch /\ ReceiveBatch(r, k, m, known)
    BY <1>2, <1>3, <1>4, ReceiveBatchKeepsInv
  <1>5. ASSUME k \in OnVolumeID, NEW v \in Vol, NEW login \in BOOLEAN,
               Receive(r, k, Home[v], v, m, known \cap {Home[v]}, login)
        PROVE  Inv'
    <2>1. k \in Kinds \ Batch
      BY <1>2, <1>5 DEF OnVolumeID, Batch
    <2>2. Home[v] \in Service /\ known \cap {Home[v]} \in SUBSET Service
      BY <1>3, RoutesAssumption
    <2> QED
      BY <1>2, <1>5, <2>1, <2>2, ReceiveKeepsInv
  <1>6. ASSUME k \notin Batch \cup OnVolumeID,
               NEW s \in Service \cup {NoService}, NEW login \in BOOLEAN,
               Receive(r, k, s, NoOne, m, known \cap {s}, login)
        PROVE  Inv'
    <2>1. k \in Kinds \ Batch /\ known \cap {s} \in SUBSET Service
      BY <1>2, <1>3, <1>6
    <2> QED
      BY <1>2, <1>6, <2>1, ReceiveKeepsInv
  <1> QED
    BY <1>1, <1>4, <1>5, <1>6 DEF Dispatch

LEMMA LoopKeepsInv ==
    ASSUME Inv, NEW r \in Handler, NEW s \in Service, Loop(r, s)
    PROVE  Inv'
  <1> DEFINE pc == IF req[r].todo = {s} THEN "gather" ELSE "loop"
             q == [req[r] EXCEPT !.todo = @ \ {s}, !.pc = pc]
             u == [task[r][s] EXCEPT !.st = "queued"]
             t == [task[r] EXCEPT ![s] = u]
  <1>1. /\ req[r].pc = "loop" /\ s \in req[r].todo
        /\ req' = [req EXCEPT ![r].todo = @ \ {s}, ![r].pc = pc]
    BY DEF Loop
  <1>t. task' = [task EXCEPT ![r] = t]
    BY DEF Loop
  <1>2. req[r] \in Request /\ task[r] \in [Service -> Function] /\ Sound(r)
    BY DEF Inv, Types
  <1>3. u \in Function /\ Fine(req[r].kind, u) /\ task[r][s] = NoTask
    <2>1. task[r][s] = NoTask
      BY <1>1, <1>2 DEF Sound
    <2>2. u = [NoTask EXCEPT !.st = "queued"]
      BY <2>1
    <2> QED
      BY <2>1, <2>2 DEF NoTask, Function, Fine
  <1>4. /\ q \in Request /\ q.kind = req[r].kind /\ q.svc = req[r].svc
        /\ q.todo = req[r].todo \ {s} /\ q.pc = pc
    BY <1>2 DEF Request
  <1>5. req' = [req EXCEPT ![r] = q]
    BY <1>1, <1>2 DEF Inv, Types, Request
  <1>6. pc \in {"loop", "gather"}
    OBVIOUS
  <1>7. /\ t \in [Service -> Function] /\ t[s] = u
        /\ \A x \in Service : x # s => t[x] = task[r][x]
    BY <1>2, <1>3
  <1> HIDE DEF q, t, u, pc
  <1>8. Types'
    BY <1>t, <1>4, <1>5, <1>7 DEF Inv, Types
  <1>9. ASSUME NEW h \in Handler PROVE Sound(h)'
    <2>1. CASE h = r
      <3>1. req'[h] = q /\ task'[h] = t
        BY <1>t, <1>5, <2>1 DEF Inv, Types
      <3>2. q.kind \in Batch /\ q.pc # "idle" /\ q.todo \subseteq Service
        BY <1>1, <1>2, <1>4, <1>6 DEF Sound, Request
      <3>3. \A x \in Service : Fine(q.kind, t[x])
        BY <1>2, <1>3, <1>4, <1>7 DEF Sound
      <3>4. \A x \in q.todo : t[x] = NoTask
        BY <1>2, <1>4, <1>7, <3>2 DEF Sound
      <3> QED
        BY <3>1, <3>2, <3>3, <3>4 DEF Sound
    <2>2. CASE h # r
      <3>1. req'[h] = req[h] /\ task'[h] = task[h] /\ Sound(h)
        BY <1>t, <1>5, <2>2 DEF Inv, Types
      <3> QED
        BY <3>1 DEF Sound
    <2> QED
      BY <2>1, <2>2
  <1> QED
    BY <1>8, <1>9 DEF Inv

\* A function that fails has nothing left to do.
LEMMA FailsFine ==
    ASSUME NEW k, NEW t \in Function, Fine(k, t), t.st = "queued"
    PROVE  Fails(t) \in Function /\ Fine(k, Fails(t))
  BY DEF Fails, Function, Fine

LEMMA RunKeepsInv ==
    ASSUME Inv, NEW r \in Handler, NEW s \in Service, Run(r, s)
    PROVE  Inv'
  <1> DEFINE t == task[r][s]
             k == req[r].kind
  <1>1. t \in Function /\ Fine(k, t)
    BY DEF Inv, Types, Sound
  <1>3. Made(s) \in SUBSET Vol
    BY DEF Made, Of
  <1>4. CASE DriverFails(r, s)
    <2>1. t.st = "queued" /\ End(r, s, Fails(t), Failed)
      BY <1>4 DEF DriverFails, CanRun
    <2> QED
      BY <1>1, <2>1, FailsFine, EndKeepsInv
  <1>5. ASSUME NEW blind, List(r, s, blind) PROVE Inv'
    <2> DEFINE S == getFilteredVolumes(r, s, blind)
               truth == {v \in Made(s) : MaskAsksFor(vol[v].to, IID(r, s), req[r].mask)}
               u == [t EXCEPT !.st = "done", !.map = S, !.truth = truth, !.blind = blind]
    <2>1. t.st = "queued" /\ (End(r, s, Fails(t), Failed) \/ End(r, s, u, OK(s, S)))
      BY <1>5 DEF List, CanRun
    <2>2. S = truth \cup blind /\ {S, truth, blind} \subseteq SUBSET Vol
      <3>1. blind \subseteq Unsure(r, s)
        BY <1>5 DEF List
      <3> QED
        BY <1>3, <3>1, FilterIsMask DEF getFilteredVolumes, Unsure
    <2> HIDE DEF S, truth
    <2>3. u \in Function /\ Fine(k, u)
      BY <1>1, <2>1, <2>2 DEF Function, Fine
    <2> QED
      BY <1>1, <2>1, <2>3, FailsFine, EndKeepsInv
  <1>6. CASE ListSnapshots(r, s)
    <2> DEFINE S == SnapshotsOf(s)
               u == [t EXCEPT !.st = "done", !.map = S, !.truth = S]
    <2>1. t.st = "queued" /\ End(r, s, u, OK(s, S))
      BY <1>6 DEF ListSnapshots, CanRun
    <2>2. S \in SUBSET Vol
      BY DEF SnapshotsOf, Of
    <2> HIDE DEF S
    <2>3. u \in Function /\ Fine(k, u)
      BY <1>1, <2>1, <2>2 DEF Function, Fine
    <2> QED
      BY <2>1, <2>3, EndKeepsInv
  <1>7. CASE ListToDetach(r, s)
    <2> DEFINE u == [t EXCEPT !.st = "detaching", !.seen = Made(s), !.todo = Made(s)]
    <2>1. /\ t.st = "queued" /\ k \in Detaching /\ req' = req
          /\ SetTask(r, s, Fails(t)) \/ SetTask(r, s, u)
      BY <1>7 DEF ListToDetach, CanRun, Detaching
    <2>2. u \in Function /\ Fine(k, u)
      BY <1>1, <1>3, <2>1 DEF Function, Fine, Listing, Detaching
    <2> QED
      BY <1>1, <2>1, <2>2, FailsFine, SetTaskKeepsInv
  <1>8. ASSUME NEW v \in Vol, NEW to, DetachOne(r, s, v, to)
        PROVE  Inv'
    <2>d. PICK d \in Described(s, v) :
            SetTask(r, s, [t EXCEPT !.todo = @ \ {v}, !.gone = @ \cup {v},
                                    !.map = @ \cup d])
      BY <1>8 DEF DetachOne
    <2> DEFINE m == t.map \cup d
               u == [t EXCEPT !.todo = t.todo \ {v}, !.gone = t.gone \cup {v}, !.map = m]
    <2>1. t.st = "detaching" /\ v \in t.todo /\ req' = req /\ SetTask(r, s, u)
      BY <1>8, <2>d DEF DetachOne
    <2>2. m \in SUBSET Vol
      BY <1>1 DEF Function, Described
    <2> HIDE DEF m
    <2>3. /\ u \in Function /\ u.st = t.st /\ u.err = t.err /\ u.seen = t.seen
          /\ u.todo = t.todo \ {v} /\ u.gone = t.gone \cup {v}
      BY <1>1, <2>2 DEF Function
    <2> HIDE DEF u
    <2>4. Fine(k, u)
      BY <1>1, <2>1, <2>3 DEF Fine, Listing, Detaching
    <2> QED
      BY <2>1, <2>3, <2>4, SetTaskKeepsInv
  <1>9. ASSUME NEW v \in Vol, DetachOneFails(r, s, v)
        PROVE  Inv'
    <2> DEFINE u == [t EXCEPT !.todo = {}, !.err = TRUE]
    <2>1. t.st = "detaching" /\ req' = req /\ SetTask(r, s, u)
      BY <1>9 DEF DetachOneFails
    <2>2. u \in Function /\ Fine(k, u)
      BY <1>1, <2>1 DEF Function, Fine, Listing, Detaching
    <2> QED
      BY <2>1, <2>2, SetTaskKeepsInv
  <1>10. CASE DetachEnd(r, s)
    BY <1>10, DoneKeepsInv DEF DetachEnd
  <1>11. CASE DetachFile(r, s)
    <2> DEFINE u == [t EXCEPT !.st = "done"]
    <2>1. t.st = "detaching" /\ t.todo = {} /\ req' = req /\ SetTask(r, s, u)
      BY <1>11 DEF DetachFile
    <2>2. u \in Function /\ Fine(k, u)
      BY <1>1, <2>1 DEF Function, Fine, Listing, Detaching
    <2> QED
      BY <2>1, <2>2, SetTaskKeepsInv
  <1> QED
    BY <1>4, <1>5, <1>6, <1>7, <1>8, <1>9, <1>10, <1>11 DEF Run

\* A record with the fields of an answer.
Shaped(a) == \E res, map, state : a = Reply(res, map, state)

\* The routes of one volume answer, or the server panics.
LEMMA SingleAnswers ==
    ASSUME NEW r \in Handler, Single(r)
    PROVE  \/ req' = req /\ task' = task /\ answer' = NoAnswer
           \/ /\ req[r].kind \notin Listing \cup Detaching
              /\ \E a : Shaped(a) /\ Done(r, task[r], a)
  BY DEF Shaped, Failed, OK, Found, Inspected,
         Single, VolumeInspect, VolumeInspectByName, VolumeCreate, VolumeCopy,
         VolumeSnapshot, VolumeAttach, VolumeDetach, VolumeRemove, SnapshotCreate,
         SnapshotInspect, SnapshotCopy, SnapshotRemove, Creates, Finish, Panic, Ready,
         work, Listing, Detaching, Silent

LEMMA InvInit == Init => Inv
  <1> SUFFICES ASSUME Init PROVE Inv
    OBVIOUS
  <1>1. req = [r \in Handler |-> NoReq] /\ task = [r \in Handler |-> NoTasks]
    BY DEF Init
  <1>2. NoTasks \in [Service -> Function] /\ \A s \in Service : NoTasks[s] = NoTask
    BY NoTaskFine DEF NoTasks
  <1>3. NoReq.pc = "idle" /\ NoReq.todo = {}
    BY DEF NoReq
  <1> QED
    BY <1>1, <1>2, <1>3, NoTaskFine, NoReqTyped DEF Inv, Types, Sound

LEMMA InvNext == Inv /\ [Next]_vars => Inv'
  <1> SUFFICES ASSUME Inv, [Next]_vars PROVE Inv'
    OBVIOUS
  <1>1. CASE UNCHANGED vars
    BY <1>1, UnchangedKeepsInv DEF vars, work
  <1>2. ASSUME NEW r \in Handler, Arrive(r) PROVE Inv'
    BY <1>2, ArriveKeepsInv
  <1>3. ASSUME NEW r \in Handler, NEW s \in Service, Loop(r, s) \/ Run(r, s) PROVE Inv'
    BY <1>3, LoopKeepsInv, RunKeepsInv
  <1>4. ASSUME NEW r \in Handler, Single(r) PROVE Inv'
    BY <1>4, SingleAnswers, DoneKeepsInv, UnchangedKeepsInv
  <1>5. ASSUME NEW r \in Handler, GatherLists(r) \/ GatherDetached(r) PROVE Inv'
    <2>1. \E a : Done(r, task[r], a)
      BY <1>5 DEF GatherLists, GatherDetached
    <2> QED
      BY <2>1, DoneKeepsInv
  <1> QED
    BY <1>1, <1>2, <1>3, <1>4, <1>5 DEF Next

\* The functions that handlers queue never lose track of what they listed, and a
\* request for one service has one function at most.
THEOREM FunctionsAreSound == Spec => []Inv
  BY InvInit, InvNext, PTL DEF Spec

-----------------------------------------------------------------------------
(* The answers *)

Honest == ListingsComplete /\ DetachAllHonest

LEMMA DoneAnswers ==
    ASSUME NEW r, NEW t, NEW a, Shaped(a), Done(r, t, a)
    PROVE  \/ answer' = Failed
           \/ /\ answer'.req = req[r] /\ answer'.task = t
              /\ answer'.res = a.res /\ answer'.map = a.map
  BY DEF Shaped, Done, Reply

LEMMA ReplyAnswers ==
    ASSUME NEW r, NEW t, NEW res, NEW map, NEW state,
           Done(r, t, Reply(res, map, state))
    PROVE  \/ answer' = Failed
           \/ /\ answer'.req = req[r] /\ answer'.task = t
              /\ answer'.res = res /\ answer'.map = map
  <1>1. Shaped(Reply(res, map, state))
    BY DEF Shaped
  <1>2. Reply(res, map, state).res = res /\ Reply(res, map, state).map = map
    BY DEF Reply
  <1> QED
    BY <1>1, <1>2, DoneAnswers, ZenonT(60)

\* An error or no answer at all promises nothing.
LEMMA SilentIsHonest ==
    ASSUME answer' = NoAnswer \/ answer' = Failed
    PROVE  Honest'
  BY SMT DEF NoAnswer, Failed, Reply, Honest, ListingsComplete, DetachAllHonest, Answers

\* Neither do the other routes promise anything here.
LEMMA OthersAreHonest ==
    ASSUME NEW r, NEW t, NEW a, Shaped(a), Done(r, t, a),
           req[r].kind \notin Listing \cup Detaching
    PROVE  Honest'
  <1>1. answer' = Failed \/ answer'.req = req[r]
    BY DoneAnswers
  <1> QED
    BY <1>1, SilentIsHonest
    DEF Honest, ListingsComplete, DetachAllHonest, Answers, Listing, Detaching

\* The function of a request for one service is that service's.
LEMMA OwnService ==
    ASSUME Inv, NEW r \in Handler, NEW s \in Service, req[r].kind \notin Batch,
           task[r][s].st # "none"
    PROVE  s = req[r].svc /\ \A x \in Service : x # s => task[r][x] = NoTask
  <1>1. task[r][s] # NoTask
    BY SMT DEF NoTask
  <1> QED
    BY <1>1 DEF Inv, Sound

\* A listing ends, or a function fails.
LEMMA EndIsHonest ==
    ASSUME Inv, NEW r \in Handler, NEW s \in Service, NEW t, NEW a, End(r, s, t, a),
           task[r][s].st # "none",
           a = Failed \/ (a = OK(s, t.map) /\ t.map = t.truth \cup t.blind
                          /\ req[r].kind \in Listing)
    PROVE  Honest'
  <1>1. CASE req[r].kind \in Batch
    BY <1>1, SilentIsHonest DEF End, Silent
  <1>2. CASE req[r].kind \notin Batch
    <2> DEFINE u == [task[r] EXCEPT ![s] = t]
    <2>1. Done(r, u, a)
      BY <1>2 DEF End
    <2>2. CASE a = Failed
      BY <2>1, <2>2, SilentIsHonest DEF Done
    <2>3. CASE a # Failed
      <3>1. s = req[r].svc /\ u[s] = t
        BY <1>2, OwnService DEF Inv, Types
      <3> HIDE DEF u
      <3>2. \/ answer' = Failed
            \/ /\ answer'.req = req[r] /\ answer'.task = u
               /\ answer'.map = Entry(s, t.map)
        <4>1. Done(r, u, Reply("ok", Entry(s, t.map), "unset"))
          BY <2>1, <2>3 DEF OK
        <4> QED
          BY <4>1, ReplyAnswers, SMT
      <3>3. Entry(s, t.map) = [x \in {s} |-> u[x].truth \cup u[x].blind]
        BY <2>3, <3>1 DEF Entry
      <3>4. req[r].kind \in {"volumesForService", "snapshotsForService"}
        BY <1>2, <2>3 DEF Listing, Batch
      <3>5. CASE answer' = Failed
        BY <3>5, SilentIsHonest
      <3>6. CASE answer' # Failed
        BY <3>1, <3>2, <3>3, <3>4, <3>6
        DEF Honest, ListingsComplete, DetachAllHonest, Answers
      <3> QED
        BY <3>5, <3>6
    <2> QED
      BY <2>2, <2>3
  <1> QED
    BY <1>1, <1>2

LEMMA RunIsHonest ==
    ASSUME Inv, NEW r \in Handler, NEW s \in Service, Run(r, s)
    PROVE  Honest'
  <1> DEFINE v == task[r][s]
  <1>1. v \in Function
    BY DEF Inv, Types
  <1>2. CASE DriverFails(r, s)
    BY <1>2, EndIsHonest, SMT DEF DriverFails, CanRun
  <1>3. ASSUME NEW blind, List(r, s, blind) PROVE Honest'
    <2> DEFINE S == getFilteredVolumes(r, s, blind)
               truth == {x \in Made(s) : MaskAsksFor(vol[x].to, IID(r, s), req[r].mask)}
               u == [v EXCEPT !.st = "done", !.map = S, !.truth = truth, !.blind = blind]
    <2>1. /\ v.st = "queued" /\ req[r].kind \in Listing
          /\ End(r, s, Fails(v), Failed) \/ End(r, s, u, OK(s, S))
      BY <1>3 DEF List, CanRun, Listing
    <2>2. S = truth \cup blind
      <3>1. blind \subseteq Unsure(r, s)
        BY <1>3 DEF List
      <3> QED
        BY <3>1, FilterIsMask DEF getFilteredVolumes, Unsure
    <2> HIDE DEF S, truth
    <2>3. u.map = S /\ u.truth = truth /\ u.blind = blind
      BY <1>1 DEF Function
    <2> HIDE DEF u
    <2>4. v.st # "none"
      BY <2>1
    <2> QED
      BY <2>1, <2>2, <2>3, <2>4, EndIsHonest
  <1>4. CASE ListSnapshots(r, s)
    <2> DEFINE S == SnapshotsOf(s)
               u == [v EXCEPT !.st = "done", !.map = S, !.truth = S]
    <2>1. v.st = "queued" /\ req[r].kind \in Listing /\ End(r, s, u, OK(s, S))
      BY <1>4 DEF ListSnapshots, CanRun, Listing
    <2>2. v.blind = {}
      BY <2>1 DEF Inv, Sound, Fine
    <2> HIDE DEF S
    <2>3. u.map = S /\ u.truth = S /\ u.blind = {}
      BY <1>1, <2>2 DEF Function
    <2> HIDE DEF u
    <2>4. v.st # "none" /\ S = S \cup {}
      BY <2>1
    <2> QED
      BY <2>1, <2>3, <2>4, EndIsHonest
  <1>5. CASE answer' = NoAnswer
    BY <1>5, SilentIsHonest
  <1>6. CASE DetachEnd(r, s)
    <2> DEFINE t == [task[r][s] EXCEPT !.st = "done"]
               res == IF t.err THEN "batch" ELSE "ok"
    <2>1. /\ req[r].kind = "volumeDetachAllForService"
          /\ task[r][s].st = "detaching" /\ t.todo = {}
          /\ Done(r, [task[r] EXCEPT ![s] = t], Reply(res, Entry(s, t.map), "unset"))
      BY <1>6 DEF DetachEnd
    <2>2. task[r] \in [Service -> Function] /\ Sound(r)
      BY DEF Inv, Types
    <2>3. s = req[r].svc /\ \A x \in Service : x # s => task[r][x] = NoTask
      <3>1. task[r][s].st # "none" /\ req[r].kind \notin Batch
        BY <2>1 DEF Batch
      <3> QED
        BY <3>1, OwnService
    <2>4. /\ t.err = task[r][s].err /\ t.seen = task[r][s].seen
          /\ t.gone = task[r][s].gone /\ t.todo = task[r][s].todo
      BY <2>2 DEF Function
    <2>5. task[r][s].err \/ t.gone = t.seen
      BY <2>1, <2>2, <2>4 DEF Sound, Fine
    <2> DEFINE u == [task[r] EXCEPT ![s] = t]
    <2>6. u[s] = t /\ \A x \in Service : x # s => u[x] = NoTask
      BY <2>2, <2>3
    <2>7. Entry(s, t.map)[s] = t.map
      BY DEF Entry
    <2>8. \/ answer' = Failed
          \/ /\ answer'.req = req[r] /\ answer'.task = u
             /\ answer'.res = res /\ answer'.map = Entry(s, t.map)
      BY <2>1, ReplyAnswers, SMT
    <2>9. NoTask.gone = NoTask.seen /\ (res = "ok" => ~t.err)
      BY DEF NoTask
    <2> HIDE DEF t, u, res
    <2>10. CASE answer' = Failed
      BY <2>10, SilentIsHonest
    <2>11. CASE answer' # Failed
      <3>1. ListingsComplete'
        BY <2>1, <2>8, <2>11 DEF ListingsComplete, Answers
      <3>2. res = "ok" => \A x \in Service : u[x].gone = u[x].seen
        BY <2>4, <2>5, <2>6, <2>9
      <3>3. Entry(s, t.map)[req[r].svc] = u[req[r].svc].map
        BY <2>3, <2>6, <2>7
      <3>4. DetachAllHonest'
        BY <2>1, <2>8, <2>11, <3>2, <3>3 DEF DetachAllHonest, Answers
      <3> QED
        BY <3>1, <3>4 DEF Honest
    <2> QED
      BY <2>10, <2>11
  <1> QED
    BY <1>2, <1>3, <1>4, <1>5, <1>6
    DEF Run, ListToDetach, DetachOne, DetachOneFails, DetachFile, Silent

LEMMA GatherIsHonest ==
    ASSUME Inv, NEW r \in Handler, GatherLists(r) \/ GatherDetached(r)
    PROVE  Honest'
  <1>1. task[r] \in [Service -> Function] /\ Sound(r)
    BY DEF Inv, Types
  <1>2. CASE GatherLists(r)
    <2>1. req[r].kind \in {"volumes", "snapshots"} /\ req[r].kind \in Listing
      BY <1>2 DEF GatherLists, Listing
    <2>2. PICK res, S : /\ Done(r, task[r], Reply(res, Results(r, S), "unset"))
                        /\ res = "ok" => Errors(r) = {} /\ S = Service
      <3>1. CASE Errors(r) = {}
        <4>1. Done(r, task[r], Reply("ok", Results(r, Service), "unset"))
          BY <1>2, <3>1 DEF GatherLists
        <4> QED
          BY <3>1, <4>1
      <3>2. CASE Errors(r) # {}
        <4>1. PICK S : Done(r, task[r], Reply("batch", Results(r, S), "unset"))
          BY <1>2, <3>2 DEF GatherLists
        <4>2. "batch" # "ok"
          OBVIOUS
        <4> QED
          BY <4>1, <4>2
      <3> QED
        BY <3>1, <3>2
    <2>3. \/ answer' = Failed
          \/ /\ answer'.req = req[r] /\ answer'.task = task[r]
             /\ answer'.res = res /\ answer'.map = Results(r, S)
      BY <2>2, ReplyAnswers
    <2>4. res = "ok" =>
            Results(r, S) = [s \in Service |-> task[r][s].truth \cup task[r][s].blind]
      BY <1>1, <2>1, <2>2 DEF Results, Errors, Sound, Fine
    <2>5. CASE answer' = Failed
      BY <2>5, SilentIsHonest
    <2>6. CASE answer' # Failed
      BY <2>1, <2>3, <2>4, <2>6
      DEF Honest, ListingsComplete, DetachAllHonest, Answers
    <2> QED
      BY <2>5, <2>6
  <1>3. CASE GatherDetached(r)
    <2> DEFINE res == IF Errors(r) = {} THEN "ok" ELSE "batch"
    <2>1. /\ req[r].kind = "volumeDetachAll" /\ \A s \in Service : task[r][s].st = "done"
          /\ Done(r, task[r], Reply(res, filed[r], "unset"))
      BY <1>3 DEF GatherDetached, Gathering
    <2>2. res = "ok" => \A s \in Service : task[r][s].gone = task[r][s].seen
      BY <1>1, <2>1 DEF Errors, Sound, Fine
    <2> HIDE DEF res
    <2>3. \/ answer' = Failed
          \/ /\ answer'.req = req[r] /\ answer'.task = task[r]
             /\ answer'.res = res /\ answer'.map = filed[r]
      BY <2>1, ReplyAnswers, ZenonT(60)
    <2>4. CASE answer' = Failed
      BY <2>4, SilentIsHonest
    <2>5. CASE answer' # Failed
      BY <2>1, <2>2, <2>3, <2>5
      DEF Honest, ListingsComplete, DetachAllHonest, Answers
    <2> QED
      BY <2>4, <2>5
  <1> QED
    BY <1>2, <1>3

LEMMA HonestNext == Inv /\ Honest /\ [Next]_vars => Honest'
  <1> SUFFICES ASSUME Inv, Honest, [Next]_vars PROVE Honest'
    OBVIOUS
  <1>1. CASE UNCHANGED vars
    BY <1>1 DEF vars, Honest, ListingsComplete, DetachAllHonest, Answers
  <1>2. ASSUME NEW r \in Handler, Arrive(r) PROVE Honest'
    <2>1. PICK k, m, known : Dispatch(r, k, m, known)
      BY <1>2 DEF Arrive
    <2>2. answer' = NoAnswer \/ answer' = Failed
      BY <2>1 DEF Dispatch, ReceiveBatch, Receive, Silent
    <2> QED
      BY <2>2, SilentIsHonest
  <1>3. ASSUME NEW r \in Handler, NEW s \in Service, Loop(r, s) PROVE Honest'
    BY <1>3, SilentIsHonest DEF Loop, Silent
  <1>4. ASSUME NEW r \in Handler, NEW s \in Service, Run(r, s) PROVE Honest'
    BY <1>4, RunIsHonest
  <1>5. ASSUME NEW r \in Handler, Single(r) PROVE Honest'
    BY <1>5, SingleAnswers, OthersAreHonest, SilentIsHonest
  <1>6. ASSUME NEW r \in Handler, GatherLists(r) \/ GatherDetached(r) PROVE Honest'
    BY <1>6, GatherIsHonest
  <1> QED
    BY <1>1, <1>2, <1>3, <1>4, <1>5, <1>6 DEF Next

LEMMA HonestAlways == Spec => []Honest
  <1>1. Init => Honest
    BY SMT DEF Init, NoAnswer, Reply, Honest, ListingsComplete, DetachAllHonest, Answers
  <1> QED
    BY <1>1, HonestNext, FunctionsAreSound, PTL DEF Spec

\* For any services, volumes and masks, and whichever states the drivers set, an OK
\* listing has an entry for every service it is about, with exactly the objects asked
\* for and the volumes whose state the driver could not tell.
THEOREM ListingsAreComplete == Spec => []ListingsComplete
  <1>1. Honest => ListingsComplete
    BY DEF Honest
  <1> QED
    BY <1>1, HonestAlways, PTL

\* For any services and volumes, and however the functions of several requests and
\* the failures of the drivers interleave, an OK answer of volumeDetachAll or
\* volumeDetachAllForService means that every volume listed was detached, and the
\* error of the latter names every volume that was.
THEOREM DetachAllIsHonest == Spec => []DetachAllHonest
  <1>1. Honest => DetachAllHonest
    BY DEF Honest
  <1> QED
    BY <1>1, HonestAlways, PTL

-----------------------------------------------------------------------------
(* Attachment states *)

Volume == [made : BOOLEAN, to : SUBSET (Instance \cup {NoOne})]

\* A volume that does not exist is attached to nobody.
Stored ==
    /\ vol \in [Vol -> Volume]
    /\ \A v \in Vol : ~vol[v].made => vol[v].to = {}

\* A request for a volume names one, and one that attaches or detaches it has
\* brought the ID of its instance.
Named(q) ==
    /\ q.kind \in OnVolumeID => q.vol \in Vol
    /\ q.kind \in {"volumeAttach", "volumeDetach"} => q.svc \in q.known

States ==
    /\ Stored
    /\ \A r \in Handler : Named(req[r])

\* The requests after a step: nothing but an arrival makes a new one.
LEMMA RequestsNamed ==
    ASSUME Inv, States, NEW r \in Handler, NEW q, Named(q), req' = [req EXCEPT ![r] = q]
    PROVE  \A h \in Handler : Named(req'[h])
  BY DEF Inv, Types, States

LEMMA NoReqNamed == Named(NoReq)
  BY DEF Named, NoReq, OnVolumeID

LEMMA DoneNamed ==
    ASSUME Inv, States, NEW r \in Handler, NEW t, NEW a, Done(r, t, a)
    PROVE  \A h \in Handler : Named(req'[h])
  BY RequestsNamed, NoReqNamed DEF Done

LEMMA ReceiveNamed ==
    ASSUME Inv, States, NEW r \in Handler, NEW k \in Kinds \ Batch, NEW s, NEW v, NEW m,
           NEW known \in SUBSET {s}, NEW login, Receive(r, k, s, v, m, known, login),
           k \in OnVolumeID => v \in Vol
    PROVE  \A h \in Handler : Named(req'[h])
  <1> DEFINE q == [kind |-> k, svc |-> s, vol |-> v, mask |-> m, host |-> HostOf[r],
                   known |-> known, pc |-> "wait", todo |-> {}]
  <1>1. CASE req' = req
    BY <1>1 DEF States
  <1>2. CASE req' # req
    <2>1. req' = [req EXCEPT ![r] = q] /\ ~(NeedsInstance(k, m) /\ known = {})
      BY <1>2 DEF Receive
    <2>2. k \in {"volumeAttach", "volumeDetach"} => s \in known
      BY <2>1 DEF NeedsInstance
    <2>3. q.kind = k /\ q.svc = s /\ q.vol = v /\ q.known = known
      OBVIOUS
    <2> HIDE DEF q
    <2>4. Named(q)
      BY <2>2, <2>3 DEF Named
    <2> QED
      BY <2>1, <2>4, RequestsNamed
  <1> QED
    BY <1>1, <1>2

LEMMA ArriveNamed ==
    ASSUME Inv, States, NEW r \in Handler, Arrive(r)
    PROVE  \A h \in Handler : Named(req'[h])
  <1>k. PICK k \in Arrival[r] : \E m \in MasksOf(k) : \E known \in KnownTo(k, m) :
          Dispatch(r, k, m, known)
    BY DEF Arrive
  <1>m. PICK m \in MasksOf(k) : \E known \in KnownTo(k, m) : Dispatch(r, k, m, known)
    BY <1>k
  <1>1. PICK known \in KnownTo(k, m) : Dispatch(r, k, m, known)
    BY <1>m
  <1>2. k \in Kinds
    BY RoutesAssumption
  <1>3. CASE k \in Batch /\ ReceiveBatch(r, k, m, known)
    <2> DEFINE q == [kind |-> k, svc |-> NoService, vol |-> NoOne, mask |-> m,
                     host |-> HostOf[r], known |-> known, pc |-> "loop", todo |-> Service]
    <2>1. req' = [req EXCEPT ![r] = q]
      BY <1>3 DEF ReceiveBatch
    <2>2. q.kind = k
      OBVIOUS
    <2> HIDE DEF q
    <2>3. Named(q)
      BY <1>3, <2>2 DEF Named, Batch, OnVolumeID
    <2> QED
      BY <2>1, <2>3, RequestsNamed
  <1>4. ASSUME k \in OnVolumeID, NEW v \in Vol, NEW login \in BOOLEAN,
               Receive(r, k, Home[v], v, m, known \cap {Home[v]}, login)
        PROVE  \A h \in Handler : Named(req'[h])
    <2>1. k \in Kinds \ Batch /\ known \cap {Home[v]} \in SUBSET {Home[v]}
      BY <1>2, <1>4 DEF OnVolumeID, Batch
    <2> QED
      BY <1>4, <2>1, ReceiveNamed
  <1>5. ASSUME k \notin Batch \cup OnVolumeID,
               NEW s \in Service \cup {NoService}, NEW login \in BOOLEAN,
               Receive(r, k, s, NoOne, m, known \cap {s}, login)
        PROVE  \A h \in Handler : Named(req'[h])
    <2>1. k \in Kinds \ Batch /\ known \cap {s} \in SUBSET {s}
      BY <1>2, <1>5
    <2> QED
      BY <1>5, <2>1, ReceiveNamed
  <1> QED
    BY <1>1, <1>3, <1>4, <1>5 DEF Dispatch

LEMMA LoopNamed ==
    ASSUME Inv, States, NEW r \in Handler, NEW s \in Service, Loop(r, s)
    PROVE  \A h \in Handler : Named(req'[h])
  <1> DEFINE pc == IF req[r].todo = {s} THEN "gather" ELSE "loop"
             q == [req[r] EXCEPT !.todo = @ \ {s}, !.pc = pc]
  <1>1. req' = [req EXCEPT ![r].todo = @ \ {s}, ![r].pc = pc]
    BY DEF Loop
  <1>2. req[r] \in Request /\ Named(req[r])
    BY DEF Inv, Types, States
  <1>3. /\ q.kind = req[r].kind /\ q.svc = req[r].svc
        /\ q.vol = req[r].vol /\ q.known = req[r].known
    BY <1>2 DEF Request
  <1>4. req' = [req EXCEPT ![r] = q]
    BY <1>1, <1>2 DEF Inv, Types, Request
  <1> HIDE DEF q
  <1>5. Named(q)
    BY <1>2, <1>3 DEF Named
  <1> QED
    BY <1>4, <1>5, RequestsNamed

-----------------------------------------------------------------------------
(* What a step does to the volumes, and the state it answers with *)

LEMMA SameStored ==
    ASSUME Stored, vol' = vol
    PROVE  Stored'
  BY DEF Stored

LEMMA PutStored ==
    ASSUME Stored, NEW v \in Vol, NEW x \in Volume, ~x.made => x.to = {},
           vol' = [vol EXCEPT ![v] = x]
    PROVE  Stored' /\ vol'[v].to = x.to
  BY DEF Stored

LEMMA ToStored ==
    ASSUME Stored, NEW v \in Vol, vol[v].made,
           NEW to \in SUBSET (Instance \cup {NoOne}), vol' = [vol EXCEPT ![v].to = to]
    PROVE  Stored' /\ vol'[v].to = to
  <1> DEFINE x == [vol[v] EXCEPT !.to = to]
  <1>1. vol[v] \in Volume
    BY DEF Stored
  <1>2. x \in Volume /\ x.made = vol[v].made /\ x.to = to
    BY <1>1 DEF Volume
  <1>3. vol' = [vol EXCEPT ![v] = x]
    OBVIOUS
  <1> HIDE DEF x
  <1> QED
    BY <1>2, <1>3, PutStored

LEMMA MadeStored ==
    ASSUME Stored, NEW w \in Vol, ~vol[w].made, vol' = [vol EXCEPT ![w].made = TRUE]
    PROVE  Stored' /\ vol'[w].to = {}
  <1> DEFINE x == [vol[w] EXCEPT !.made = TRUE]
  <1>1. vol[w] \in Volume /\ vol[w].to = {}
    BY DEF Stored
  <1>2. x \in Volume /\ x.made = TRUE /\ x.to = vol[w].to
    BY <1>1 DEF Volume
  <1>3. vol' = [vol EXCEPT ![w] = x]
    OBVIOUS
  <1> HIDE DEF x
  <1> QED
    BY <1>1, <1>2, <1>3, PutStored

\* Whoever does not mention a state cannot be wrong about it.
LEMMA UnsetIsHonest ==
    ASSUME answer'.state = "unset"
    PROVE  StatesHonest'
  BY DEF StatesHonest

LEMMA SilentUnset ==
    ASSUME answer' = NoAnswer \/ answer' = Failed
    PROVE  StatesHonest'
  <1>1. answer'.state = "unset"
    BY SMT DEF NoAnswer, Failed, Reply
  <1> QED
    BY <1>1, UnsetIsHonest

\* The answer of a request, or an error.
LEMMA DoneStates ==
    ASSUME NEW r, NEW t, NEW res, NEW map, NEW state,
           Done(r, t, Reply(res, map, state))
    PROVE  \/ answer' = Failed
           \/ /\ answer'.req = req[r] /\ answer'.map = map
              /\ answer'.state = state
  BY DEF Done, Reply

LEMMA UnsetReply ==
    ASSUME NEW r, NEW t, NEW res, NEW map, Done(r, t, Reply(res, map, "unset"))
    PROVE  StatesHonest'
  BY DoneStates, SilentUnset, UnsetIsHonest, ZenonT(60)

\* A state that a request of kind k may give for a volume of s that to have, if its
\* caller is i.
Apt(k, state, s, to, i) ==
    \/ state = StateOf(to, i)
    \/ state = "unknown" /\ s \in Watched /\ i \notin to
    \/ state = "available" /\ k = "volumeDetach" /\ s \notin Watched /\ i \notin to

\* What a driver says is apt, and so is what the handlers make of a volume it says
\* nothing about.
LEMMA SaidIsApt ==
    ASSUME NEW k, NEW s, NEW to, NEW i, NEW m, NEW blind, NEW state,
           (s \in Watched /\ Requested(m)) \/ Apt(k, state, s, to, i)
    PROVE  Apt(k, OrElse(DriverState(s, to, i, m, blind), state), s, to, i)
  <1>1. StateOf(to, i) # "unset"
    BY DEF StateOf
  <1> QED
    BY <1>1 DEF Apt, OrElse, DriverState

\* An answer about one volume v, whose state it gives.
LEMMA FoundStates ==
    ASSUME NEW r, NEW t, NEW res, NEW s, NEW v, NEW state,
           Done(r, t, Reply(res, Entry(s, {v}), state)),
           Apt(req[r].kind, state, s, vol'[v].to, IID(r, req[r].svc))
    PROVE  StatesHonest'
  <1>1. CASE answer' = Failed
    BY <1>1, SilentUnset
  <1>2. CASE answer' # Failed
    <2>1. /\ answer'.req = req[r] /\ answer'.map = Entry(s, {v})
          /\ answer'.state = state
      BY <1>2, DoneStates
    <2>2. Caller' = IID(r, req[r].svc)
      BY <2>1 DEF Caller, IID
    <2>3. DOMAIN Entry(s, {v}) = {s} /\ Entry(s, {v})[s] = {v}
      BY DEF Entry
    <2> QED
      BY <2>1, <2>2, <2>3 DEF StatesHonest, Apt
  <1> QED
    BY <1>1, <1>2

Kept == States' /\ StatesHonest'

LEMMA FailedKeeps ==
    ASSUME Inv, States, NEW r \in Handler, NEW t, vol' = vol, Done(r, t, Failed)
    PROVE  Kept
  <1>1. StatesHonest'
    BY UnsetReply DEF Failed
  <1> QED
    BY <1>1, DoneNamed, SameStored DEF States, Kept

LEMMA OKKeeps ==
    ASSUME Inv, States, NEW r \in Handler, NEW t, NEW s, NEW S, vol' = vol,
           Done(r, t, OK(s, S))
    PROVE  Kept
  <1>1. StatesHonest'
    BY UnsetReply DEF OK
  <1> QED
    BY <1>1, DoneNamed, SameStored DEF States, Kept

LEMMA PanicKeeps ==
    ASSUME States, NEW r, Panic(r)
    PROVE  Kept
  <1>1. answer' = NoAnswer /\ vol' = vol /\ req' = req
    BY DEF Panic, Silent, work
  <1>2. StatesHonest'
    BY <1>1, SilentUnset
  <1> QED
    BY <1>1, <1>2, SameStored DEF States, Kept

\* A function that tells nothing of an attachment ends.
LEMMA EndKeeps ==
    ASSUME Inv, States, NEW r \in Handler, NEW s, NEW t, NEW a, End(r, s, t, a), vol' = vol,
           a = Failed \/ \E S : a = OK(s, S)
    PROVE  Kept
  <1>1. CASE req[r].kind \in Batch
    <2>1. answer' = NoAnswer /\ req' = req
      BY <1>1 DEF End, Silent
    <2> QED
      BY <2>1, SilentUnset, SameStored DEF States, Kept
  <1>2. CASE req[r].kind \notin Batch
    <2>1. Done(r, [task[r] EXCEPT ![s] = t], a)
      BY <1>2 DEF End
    <2> QED
      BY <2>1, FailedKeeps, OKKeeps
  <1> QED
    BY <1>1, <1>2

LEMMA RunKeepsStates ==
    ASSUME Inv, States, NEW r \in Handler, NEW s \in Service, Run(r, s)
    PROVE  Kept
  <1>1. CASE DriverFails(r, s)
    BY <1>1, EndKeeps DEF DriverFails
  <1>2. ASSUME NEW blind, List(r, s, blind) PROVE Kept
    BY <1>2, EndKeeps DEF List
  <1>3. CASE ListSnapshots(r, s)
    BY <1>3, EndKeeps DEF ListSnapshots
  <1>4. ASSUME answer' = NoAnswer, vol' = vol, req' = req PROVE Kept
    BY <1>4, SilentUnset, SameStored DEF States, Kept
  <1>5. CASE ListToDetach(r, s) \/ DetachFile(r, s)
    BY <1>4, <1>5 DEF ListToDetach, DetachFile, Silent
  <1>6. ASSUME NEW v \in Vol, DetachOneFails(r, s, v) PROVE Kept
    BY <1>4, <1>6 DEF DetachOneFails, Silent
  <1>7. ASSUME NEW v \in Vol, NEW to \in SUBSET Instance, DetachOne(r, s, v, to)
        PROVE  Kept
    <2>1. /\ vol[v].made /\ vol' = [vol EXCEPT ![v].to = to]
          /\ answer' = NoAnswer /\ req' = req
      BY <1>7 DEF DetachOne, Silent
    <2>2. to \in SUBSET (Instance \cup {NoOne})
      OBVIOUS
    <2>3. Stored'
      BY <2>1, <2>2, ToStored DEF States
    <2> QED
      BY <2>1, <2>3, SilentUnset DEF States, Kept
  <1>8. CASE DetachEnd(r, s)
    <2>1. PICK t, res, map : vol' = vol /\ Done(r, t, Reply(res, map, "unset"))
      BY <1>8 DEF DetachEnd
    <2> QED
      BY <2>1, UnsetReply, DoneNamed, SameStored DEF States, Kept
  <1> QED
    BY <1>1, <1>2, <1>3, <1>5, <1>6, <1>7, <1>8 DEF Run

\* An inspection computes the state it answers with.
LEMMA InspectKeepsStates ==
    ASSUME Inv, States, NEW r \in Handler, VolumeInspect(r) \/ VolumeInspectByName(r)
    PROVE  Kept
  <1> DEFINE v == req[r].vol
             s == req[r].svc
             iid == IID(r, s)
             m == req[r].mask
  <1>1. \/ Panic(r)
        \/ vol' = vol /\ Done(r, task[r], Failed)
        \/ \E blind \in BOOLEAN : vol' = vol /\ Done(r, task[r], Inspected(r, blind))
    BY DEF VolumeInspect, VolumeInspectByName, Finish
  <1>2. ASSUME NEW blind \in BOOLEAN, vol' = vol, Done(r, task[r], Inspected(r, blind))
        PROVE  Kept
    <2> DEFINE state == AttachmentState(s, vol[v].to, iid, m, blind)
    <2>1. \/ Done(r, task[r], Failed)
          \/ Done(r, task[r], Reply("ok", Entry(s, {v}), "unset"))
          \/ Done(r, task[r], Reply("ok", Entry(s, {v}), state))
      BY <1>2 DEF Inspected, Found
    <2>2. Apt(req[r].kind, state, s, vol'[v].to, iid)
      <3>1. Apt(req[r].kind, StateOf(vol[v].to, iid), s, vol[v].to, iid)
        BY DEF Apt
      <3> QED
        BY <1>2, <3>1, SaidIsApt DEF AttachmentState
    <2> HIDE DEF state, v
    <2>3. StatesHonest'
      BY <2>1, <2>2, UnsetReply, FoundStates DEF Failed
    <2> QED
      BY <1>2, <2>3, DoneNamed, SameStored DEF States, Kept
  <1> QED
    BY <1>1, <1>2, PanicKeeps, FailedKeeps

\* A volume just made is attached to nobody.
LEMMA CreateKeepsStates ==
    ASSUME Inv, States, NEW r \in Handler, NEW source, Creates(r, source)
    PROVE  Kept
  <1> DEFINE s == req[r].svc
             said == DriverState(s, {}, IID(r, s), VolAttNone, FALSE)
             state == IF req[r].kind = "snapshotCreate" THEN said
                      ELSE OrElse(said, "available")
  <1>s. state \in {"unset", "available"}
    <2>1. said = "unset"
      BY DEF DriverState, Requested, VolAttNone
    <2> QED
      BY <2>1 DEF OrElse
  <1>1. CASE vol' = vol /\ Done(r, task[r], Failed)
    BY <1>1, FailedKeeps
  <1>2. ASSUME NEW w \in New(s), vol' = [vol EXCEPT ![w].made = TRUE],
               Done(r, task[r], Reply("ok", Entry(s, {w}), state))
        PROVE  Kept
    <2>1. w \in Vol /\ ~vol[w].made
      BY <1>2 DEF New, Of
    <2>2. Stored' /\ vol'[w].to = {}
      BY <1>2, <2>1, MadeStored DEF States
    <2>3. Apt(req[r].kind, "available", s, vol'[w].to, IID(r, s))
      BY <2>2 DEF Apt, StateOf
    <2>4. StatesHonest'
      <3>1. CASE state = "unset"
        BY <1>2, <3>1, UnsetReply
      <3>2. CASE state = "available"
        BY <1>2, <2>3, <3>2, FoundStates
      <3> QED
        BY <1>s, <3>1, <3>2
    <2> QED
      BY <1>2, <2>2, <2>4, DoneNamed DEF States, Kept
  <1> QED
    BY <1>1, <1>2 DEF Creates, Finish

\* The instance that attaches or detaches is the caller's.
LEMMA CallerKnown ==
    ASSUME Inv, States, NEW r \in Handler, req[r].kind \in {"volumeAttach", "volumeDetach"}
    PROVE  /\ IID(r, req[r].svc) = req[r].host
           /\ req[r].vol \in Vol /\ req[r].host \in Instance \cup {NoOne}
  <1>1. Named(req[r]) /\ req[r] \in Request
    BY DEF States, Inv, Types
  <1> QED
    BY <1>1 DEF Named, IID, Request, OnVolumeID

LEMMA AttachKeepsStates ==
    ASSUME Inv, States, NEW r \in Handler, VolumeAttach(r)
    PROVE  Kept
  <1> DEFINE v == req[r].vol
             s == req[r].svc
             to == vol[v].to \cup {req[r].host}
             host == req[r].host
             state(b) == OrElse(DriverState(s, to, host, VolAttReqTrue, b), "attached")
  <1>1. /\ IID(r, s) = req[r].host
        /\ v \in Vol /\ req[r].host \in Instance \cup {NoOne}
    BY CallerKnown DEF VolumeAttach, Ready
  <1>2. \/ Panic(r)
        \/ vol' = vol /\ Done(r, task[r], Failed)
        \/ /\ vol[v].made /\ vol' = [vol EXCEPT ![v].to = to]
           /\ \E blind \in BOOLEAN : Done(r, task[r], Found(r, state(blind)))
    BY <1>1 DEF VolumeAttach, Finish
  <1>3. ASSUME vol[v].made, vol' = [vol EXCEPT ![v].to = to], NEW blind \in BOOLEAN,
               Done(r, task[r], Found(r, state(blind)))
        PROVE  Kept
    <2>1. to \in SUBSET (Instance \cup {NoOne})
      BY <1>1 DEF States, Stored, Volume
    <2>t. req[r].host \in to
      OBVIOUS
    <2>a. Apt(req[r].kind, state(blind), s, to, req[r].host)
      <3>1. Apt(req[r].kind, "attached", s, to, req[r].host)
        BY <2>t DEF Apt, StateOf
      <3> QED
        BY <3>1, SaidIsApt
    <2> HIDE DEF to, state
    <2>2. Stored' /\ vol'[v].to = to
      BY <1>1, <1>3, <2>1, ToStored DEF States
    <2>4. StatesHonest'
      BY <1>1, <1>3, <2>a, <2>2, FoundStates DEF Found
    <2> QED
      BY <1>3, <2>2, <2>4, DoneNamed DEF States, Kept
  <1> QED
    BY <1>2, <1>3, PanicKeeps, FailedKeeps

\* Once the caller has left the volume, it does not have it: what the handler says
\* of a driver that says nothing is available.
LEMMA DetachKeepsStates ==
    ASSUME Inv, States, NEW r \in Handler, VolumeDetach(r)
    PROVE  Kept
  <1> DEFINE v == req[r].vol
             s == req[r].svc
             host == req[r].host
             state(to, b) == OrElse(DriverState(s, to, host, VolAttReqTrue, b), "available")
             Left(to) == \/ Done(r, task[r], OK(s, {}))
                         \/ \E b \in BOOLEAN : Done(r, task[r], Found(r, state(to, b)))
  <1>1. IID(r, s) = host /\ v \in Vol /\ req[r].kind = "volumeDetach"
    BY CallerKnown DEF VolumeDetach, Ready
  <1>2. \/ vol' = vol /\ Done(r, task[r], Failed)
        \/ \E to \in Leaves(v, host) :
             vol[v].made /\ vol' = [vol EXCEPT ![v].to = to] /\ Left(to)
    BY <1>1 DEF VolumeDetach, Finish
  <1>3. ASSUME NEW to \in Leaves(v, host), vol[v].made, vol' = [vol EXCEPT ![v].to = to],
               Left(to)
        PROVE  Kept
    <2>1. to \in SUBSET (Instance \cup {NoOne}) /\ host \notin to
      BY <1>1 DEF States, Stored, Volume, Leaves
    <2>2. Stored' /\ vol'[v].to = to
      BY <1>1, <1>3, <2>1, ToStored DEF States
    <2>4. CASE Done(r, task[r], OK(s, {}))
      BY <2>2, <2>4, UnsetReply, DoneNamed DEF OK, States, Kept
    <2>5. ASSUME NEW b \in BOOLEAN, Done(r, task[r], Found(r, state(to, b))) PROVE Kept
      <3>1. Apt(req[r].kind, state(to, b), s, to, host)
        <4>1. \/ s \in Watched /\ Requested(VolAttReqTrue)
              \/ Apt(req[r].kind, "available", s, to, host)
          BY <1>1, <2>1 DEF Apt, Requested, VolAttReqTrue
        <4> QED
          BY <4>1, SaidIsApt
      <3> HIDE DEF state
      <3>2. StatesHonest'
        BY <1>1, <2>2, <2>5, <3>1, FoundStates DEF Found
      <3> QED
        BY <2>2, <2>5, <3>2, DoneNamed DEF States, Kept
    <2> QED
      BY <1>3, <2>4, <2>5
  <1> QED
    BY <1>2, <1>3, FailedKeeps

LEMMA RemoveKeepsStates ==
    ASSUME Inv, States, NEW r \in Handler, VolumeRemove(r)
    PROVE  Kept
  <1> DEFINE v == req[r].vol
             x == [made |-> FALSE, to |-> {}]
  <1>1. /\ v \in Vol /\ vol' = [vol EXCEPT ![v] = x]
        /\ Done(r, task[r], Failed) \/ Done(r, task[r], OK(req[r].svc, {}))
    BY DEF VolumeRemove, Ready, Finish, States, Named, OnVolumeID
  <1>2. x \in Volume /\ x.to = {}
    BY DEF Volume
  <1> HIDE DEF x
  <1>3. Stored'
    BY <1>1, <1>2, PutStored DEF States
  <1>4. StatesHonest'
    BY <1>1, UnsetReply DEF Failed, OK
  <1> QED
    BY <1>1, <1>3, <1>4, DoneNamed DEF States, Kept

LEMMA SingleKeepsStates ==
    ASSUME Inv, States, NEW r \in Handler, Single(r)
    PROVE  Kept
  <1>1. CASE VolumeCreate(r) \/ VolumeCopy(r) \/ SnapshotCreate(r)
    BY <1>1, CreateKeepsStates DEF VolumeCreate, VolumeCopy, SnapshotCreate
  <1>2. CASE \/ VolumeSnapshot(r) \/ SnapshotInspect(r)
             \/ SnapshotCopy(r) \/ SnapshotRemove(r)
    <2>1. vol' = vol /\ \E s, S : Done(r, task[r], Failed) \/ Done(r, task[r], OK(s, S))
      BY <1>2 DEF VolumeSnapshot, SnapshotInspect, SnapshotCopy, SnapshotRemove, Finish
    <2> QED
      BY <2>1, FailedKeeps, OKKeeps
  <1> QED
    BY <1>1, <1>2, InspectKeepsStates, AttachKeepsStates, DetachKeepsStates,
       RemoveKeepsStates DEF Single

LEMMA StatesNext == Inv /\ States /\ StatesHonest /\ [Next]_vars => States' /\ StatesHonest'
  <1> SUFFICES ASSUME Inv, States, StatesHonest, [Next]_vars PROVE Kept
    BY DEF Kept
  <1>1. CASE UNCHANGED vars
    BY <1>1 DEF vars, work, States, Stored, StatesHonest, Caller, Kept
  <1>2. ASSUME NEW r \in Handler, Arrive(r) PROVE Kept
    <2>1. PICK k, m, known : Dispatch(r, k, m, known)
      BY <1>2 DEF Arrive
    <2>2. vol' = vol /\ (answer' = NoAnswer \/ answer' = Failed)
      BY <2>1 DEF Dispatch, ReceiveBatch, Receive, Silent
    <2> QED
      BY <1>2, <2>2, ArriveNamed, SilentUnset, SameStored DEF States, Kept
  <1>3. ASSUME NEW r \in Handler, NEW s \in Service, Loop(r, s) PROVE Kept
    <2>1. vol' = vol /\ answer' = NoAnswer
      BY <1>3 DEF Loop, Silent
    <2> QED
      BY <1>3, <2>1, LoopNamed, SilentUnset, SameStored DEF States, Kept
  <1>4. ASSUME NEW r \in Handler, NEW s \in Service, Run(r, s) PROVE Kept
    BY <1>4, RunKeepsStates
  <1>5. ASSUME NEW r \in Handler, Single(r) PROVE Kept
    BY <1>5, SingleKeepsStates
  <1>6. ASSUME NEW r \in Handler, GatherLists(r) \/ GatherDetached(r) PROVE Kept
    <2>1. vol' = vol /\ \E res, map : Done(r, task[r], Reply(res, map, "unset"))
      BY <1>6 DEF GatherLists, GatherDetached
    <2> QED
      BY <2>1, UnsetReply, DoneNamed, SameStored DEF States, Kept
  <1> QED
    BY <1>1, <1>2, <1>3, <1>4, <1>5, <1>6 DEF Next

LEMMA StatesInit == Init => States /\ StatesHonest
  <1> SUFFICES ASSUME Init PROVE States /\ StatesHonest
    OBVIOUS
  <1>1. vol \in [Vol -> [made : BOOLEAN, to : SUBSET Instance]]
        /\ \A v \in Vol : ~vol[v].made => vol[v].to = {}
    BY DEF Init
  <1>2. [made : BOOLEAN, to : SUBSET Instance] \subseteq Volume
    BY DEF Volume
  <1>3. Stored
    BY <1>1, <1>2 DEF Stored
  <1>4. \A r \in Handler : Named(req[r])
    BY NoReqNamed DEF Init
  <1> QED
    BY <1>3, <1>4 DEF States, Init, NoAnswer, Reply, StatesHonest

\* For any volumes, instances and masks, and whatever other requests do to the
\* volumes of the service meanwhile, the attachment state in an answer is the state
\* of the volume as the caller sees it, whether the driver or the handler set it, but
\* for a state that a driver says it does not know, of a volume the caller does not
\* have, and for the available that volumeDetach answers on behalf of a driver that
\* sets no state.
THEOREM StatesAreHonest == Spec => []StatesHonest
  BY StatesInit, StatesNext, FunctionsAreSound, PTL DEF Spec
=============================================================================
