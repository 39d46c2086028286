----------------------- MODULE ExecutorClientProofs -----------------------
(***************************************************************************)
(* Proofs about ExecutorClient, for any clients, processes, services and   *)
(* set-ups and for any number of calls and failures: the lock and the      *)
(* binary first, then the caches and the answers that are made from them.  *)
(***************************************************************************)
EXTENDS ExecutorClient, TLAPS

\* Most leaves are first-order reasoning about sets, functions and records; the
\* others cite SMT.
USE Zenon

(***************************************************************************)
(* The lock.  Whoever runs the executor or writes its binary has made the  *)
(* lock file, and a partial binary is being written or was left by a       *)
(* failure.  Shape is what the provers need to know of the calls.          *)
(***************************************************************************)
Shape ==
  /\ DOMAIN call = Client
  /\ \A c \in Client : /\ {"op", "pc"} \subseteq DOMAIN call[c]
                       /\ call[c].op = "idle" => call[c].pc = "idle"

LockInv == \A c \in Client : Running(c) => lock = c

PartialInv ==
  bin = "partial" => broken \/ \E c \in Client : call[c].pc = "fetch"

Locking == Shape /\ LockInv /\ PartialInv

\* Initially nobody holds the lock.
LEMMA LockingInit == Init => Locking
BY SMT DEF Init, Idle, Locking, Shape, LockInv, PartialInv, Running

\* Steps of a goroutine that does not hold the lock and does not get it.
LEMMA OutsideKeepsLocking ==
  ASSUME NEW c \in Client, Locking,
         \/ DevicesBegin(c) \/ Pick(c) \/ Supported(c) \/ InstanceIDCached(c)
         \/ InstanceInspect(c) \/ Send(c) \/ DialServices(c) \/ DialExecutors(c)
  PROVE  Locking'
<1> USE ClientAssumption DEF Locking, Shape, LockInv, PartialInv, Running, Idle,
                             Answer, Goto, ghosts, caches, bounds
<1>1. CASE DevicesBegin(c)
  BY <1>1, ZenonT(60) DEF DevicesBegin
<1>2. CASE Pick(c)
  <2>1. CASE call[c].todo = {}
    BY <1>2, <2>1, SMT DEF Pick
  <2>2. CASE call[c].todo # {}
    <3>1. PICK s \in call[c].todo :
             call' = [call EXCEPT ![c].todo = @ \ {s}, ![c].cur = s,
                        ![c].pc = IF driver(s) \in call[c].got THEN "pick" ELSE "ask"]
      BY <1>2, <2>2 DEF Pick
    <3>2. /\ DOMAIN call' = Client
          /\ \A d \in Client \ {c} : call'[d] = call[d]
      BY <3>1
    <3>3. {"op", "pc"} \subseteq DOMAIN call'[c] /\ call'[c].pc \in {"pick", "ask"}
      BY <3>1
    <3>4. call'[c].op = call[c].op
      BY <3>1
    <3>5. call[c].pc = "pick" /\ UNCHANGED <<bin, lock, broken>>
      BY <1>2 DEF Pick
    <3> QED BY <3>2, <3>3, <3>4, <3>5
  <2> QED BY <2>1, <2>2
<1>3. CASE Supported(c)
  BY <1>3, SMT DEF Supported, Resolve
<1>4. CASE InstanceIDCached(c)
  BY <1>4, SMT DEF InstanceIDCached
<1>5. CASE InstanceInspect(c)
  BY <1>5, SMT DEF InstanceInspect, GotInstanceID
<1>6. CASE Send(c)
  BY <1>6 DEF Send
<1>7. CASE DialServices(c)
  BY <1>7, SMT DEF DialServices
<1>8. CASE DialExecutors(c)
  BY <1>8, SMT DEF DialExecutors
<1> QED BY <1>1, <1>2, <1>3, <1>4, <1>5, <1>6, <1>7, <1>8

\* Steps of a goroutine that runs the executor: it goes on, or gives the lock
\* back and leaves.
LEMMA CommandKeepsLocking ==
  ASSUME NEW c \in Client, Locking,
         \/ SupportedRuns(c) \/ SupportedFails(c) \/ CommandFails(c)
         \/ InstanceID(c) \/ NextDevice(c) \/ LocalDevices(c)
         \/ MountDevice(c) \/ UnmountDevice(c) \/ Mounts(c)
         \/ WaitTick(c) \/ WaitTimeout(c)
  PROVE  Locking'
<1> USE ClientAssumption DEF Locking, Shape, LockInv, PartialInv, Running, Idle,
                             Answer, Goto, Runs, lsxMutexSignal, ghosts
<1>1. CASE SupportedRuns(c)
  BY <1>1, SMT DEF SupportedRuns, Resolve
<1>2. CASE SupportedFails(c)
  BY <1>2, SMT DEF SupportedFails, Resolve
<1>3. CASE CommandFails(c)
  BY <1>3, SMT DEF CommandFails
<1>4. CASE InstanceID(c)
  BY <1>4, SMT DEF InstanceID, GotInstanceID
<1>5. CASE NextDevice(c)
  BY <1>5 DEF NextDevice
<1>6. CASE LocalDevices(c)
  BY <1>6 DEF LocalDevices
<1>7. CASE MountDevice(c)
  BY <1>7 DEF MountDevice
<1>8. CASE UnmountDevice(c)
  BY <1>8 DEF UnmountDevice
<1>9. CASE Mounts(c)
  BY <1>9 DEF Mounts
<1>10. CASE WaitTick(c)
  BY <1>10, SMT DEF WaitTick
<1>11. CASE WaitTimeout(c)
  BY <1>11 DEF WaitTimeout
<1> QED BY <1>1, <1>2, <1>3, <1>4, <1>5, <1>6, <1>7, <1>8, <1>9, <1>10, <1>11

\* The lock is taken, and the binary brought up to date.
LEMMA UpdateKeepsLocking ==
  ASSUME NEW c \in Client, Locking,
         lsxMutexWait(c) \/ updateExecutor(c) \/ downloadExecutor(c)
  PROVE  Locking'
<1> USE ClientAssumption DEF Locking, Shape, LockInv, PartialInv, Running, Idle,
                             Answer, Goto, lsxMutexSignal, ghosts
<1>1. CASE lsxMutexWait(c)
  BY <1>1 DEF lsxMutexWait
<1>2. CASE updateExecutor(c)
  BY <1>2, ZenonT(60) DEF updateExecutor
<1>3. CASE downloadExecutor(c)
  BY <1>3, SMT DEF downloadExecutor
<1> QED BY <1>1, <1>2, <1>3

\* Every step keeps the lock's invariant.
LEMMA LockingNext == Locking /\ [Next]_vars => Locking'
<1> SUFFICES ASSUME Locking, [Next]_vars PROVE Locking'
  OBVIOUS
<1>1. ASSUME NEW c \in Client, Step(c) PROVE Locking'
  BY <1>1, OutsideKeepsLocking, CommandKeepsLocking, UpdateKeepsLocking DEF Step
<1>2. ASSUME NEW c \in Client, NEW op \in Op, NEW s, Begin(c, op, s) PROVE Locking'
  <2> DEFINE r == [Idle EXCEPT !.op = op, !.svc = s, !.cur = s, !.stage = First[op],
                   !.pc = IF op = "dial" THEN "services"
                          ELSE IF op = "remove" THEN "send"
                          ELSE IF op = "volumes" THEN "devices" ELSE "ask"]
  <2>1. CASE UNCHANGED call
    BY <1>2, <2>1 DEF Begin, Locking, Shape, LockInv, PartialInv, Running, ghosts
  <2>2. CASE call' = [call EXCEPT ![c] = r]
    <3>1. {"op", "pc"} \subseteq DOMAIN r
      BY DEF Idle
    <3>2. r.op = op /\ r.pc \in {"services", "send", "devices", "ask"}
      BY DEF Idle
    <3>3. op # "idle"
      BY DEF Op, First
    <3>4. call[c].op = "idle" /\ UNCHANGED <<bin, lock, broken>>
      BY <1>2 DEF Begin, ghosts
    <3> HIDE DEF r
    <3> QED BY <2>2, <3>1, <3>2, <3>3, <3>4 DEF Locking, Shape, LockInv, PartialInv, Running
  <2> QED BY <1>2, <2>1, <2>2 DEF Begin
<1>3. CASE DeviceAppears
  BY <1>3 DEF DeviceAppears, Locking, Shape, LockInv, PartialInv, Running, ghosts
<1>4. ASSUME NEW p \in Proc, Crash(p) PROVE Locking'
  <2> DEFINE dying == {c \in Client : proc(c) = p}
  <2>1. /\ lock' = IF lock \in dying THEN Dead ELSE lock
        /\ call' = [c \in Client |-> IF c \in dying THEN Idle ELSE call[c]]
        /\ broken' = (broken \/ bin = "partial")
        /\ bin' = bin
    BY <1>4 DEF Crash
  <2> HIDE DEF dying
  <2>2. Shape' /\ LockInv'
    BY <2>1 DEF Idle, Locking, Shape, LockInv, Running
  <2>3. PartialInv'
    BY <2>1 DEF PartialInv
  <2> QED BY <2>2, <2>3 DEF Locking
<1>5. CASE UNCHANGED vars
  BY <1>5 DEF vars, Locking, Shape, LockInv, PartialInv, Running
<1>6. "dial" \in Op
  BY DEF Op, First
<1> QED BY <1>1, <1>2, <1>3, <1>4, <1>5, <1>6 DEF Next

\* lsxMutexWait and lsxMutexSignal: one executor runs on a host at a time,
\* and none while updateExecutor or downloadExecutor is at work.
THEOREM ExecutorsExclude == Spec => []OneExecutor
<1>1. Locking => OneExecutor
  BY DEF Locking, LockInv, OneExecutor
<1> QED BY <1>1, LockingInit, LockingNext, PTL DEF Spec

\* updateExecutor: whoever gets the lock finds a whole binary, unless a
\* download failed or a process died in the middle of one.
THEOREM BinaryIsWhole == Spec => []BinaryWhole
<1>1. Locking => BinaryWhole
  BY ClientAssumption DEF Locking, LockInv, PartialInv, Running, BinaryWhole
<1> QED BY <1>1, LockingInit, LockingNext, PTL DEF Spec

-----------------------------------------------------------------------------
(***************************************************************************)
(* The caches.  A process that has been dialled knows every service; one   *)
(* that is being dialled knows those its loop has left behind.  No other   *)
(* goroutine of the process is at work meanwhile, and a call of a dialled  *)
(* process finds all it asks for in supportedCache.                        *)
(***************************************************************************)
DialPC == {"services", "executors", "uplock", "check", "fetch"}
AskPC == {"ask", "suplock", "suprun", "cached", "lock", "run", "inspect"}
PC == DialPC \cup AskPC \cup {"idle", "pick", "devices", "send"}
Stage == {"none", "supported", "iid", "wait", "mount", "umount", "mounts", "next",
          "devices", "send"}

Call == [op : Op \cup {"idle"}, svc : Service \cup {NoService},
         cur : Service \cup {NoService}, stage : Stage,
         pc : PC,
         todo : SUBSET Service, got : SUBSET Driver, polled : BOOLEAN]

\* Which calls can be where.
Ordered(x) ==
  /\ x.op = "idle" <=> x.pc = "idle"
  /\ x.pc \in DialPC => x.op = "dial"
  /\ x.op = "dial" => x.stage = "iid" /\ x.got = {} /\ x.pc \notin {"send", "devices"}
  /\ x.op = "wait" => x.stage = "wait" /\ x.pc \notin {"send", "devices"}
  /\ x.op \notin {"idle", "dial"} => x.svc \in Service
  /\ x.pc \in AskPC => x.cur \in Service
  /\ x.pc \in {"cached", "inspect"} => x.stage = "iid"
  /\ x.stage = "iid" => x.op \in {"dial", "instanceID"}
  /\ x.pc = "pick" => x.op = "dial" \/ x.stage = "devices"
  /\ x.todo # {} => (x.op = "dial" \/ x.stage = "devices") /\ x.pc \notin {"devices", "send"}

\* The services a loop has not dealt with.
Pending(x) == x.todo \cup (IF x.pc \in AskPC THEN {x.cur} ELSE {})

\* What the dialling of process p finds out about service s.
Known(p, s) ==
  /\ driver(s) \in DOMAIN sup[p]
  /\ sup[p][driver(s)] # "none" /\ kind(s).iid /\ ~panicked => s \in iids[p]

\* The dialling goroutine: the only one, with all it has passed in the caches.
Dialling(c) ==
  /\ proc(c) \notin dialed
  /\ \A d \in Client : d # c /\ proc(d) = proc(c) => call[d].op = "idle"
  /\ call[c].pc # "services" =>
       \A s \in Service : s \notin Pending(call[c]) => Known(proc(c), s)
  /\ call[c].pc \in {"cached", "lock", "run", "inspect"} =>
       driver(call[c].cur) \in DOMAIN sup[proc(c)]

\* A call looks for devices, or is done with it.
Listing(c) ==
  \/ call[c].stage = "devices" /\ call[c].pc # "devices"
  \/ call[c].pc = "send" /\ call[c].op # "remove" /\ ~isController(c)

Listed(c) ==
  \A s \in Service : s \notin Pending(call[c]) /\ Allowed(Flag(s), "devices")
                        => driver(s) \in call[c].got

Placed(c) ==
  /\ Ordered(call[c])
  /\ call[c].pc \notin {"idle", "services", "devices", "send"} => ~isController(c)
  /\ call[c].op = "dial" => Dialling(c)
  /\ call[c].op \notin {"idle", "dial"} =>
       proc(c) \in dialed /\ call[c].pc \notin {"suplock", "suprun"}
  /\ Listing(c) /\ ~panicked => Listed(c)

Typed ==
  /\ setup \in Setup
  /\ bin \in {"absent", "old", "good", "partial"}
  /\ lock \in Client \cup {Free, Dead}
  /\ dialed \subseteq Proc
  /\ call \in [Client -> Call]
  /\ DOMAIN sup = Proc /\ iids \in [Proc -> SUBSET Service]
  /\ panicked \in BOOLEAN

\* What supportedCache holds, as long as no panic was taken for an answer.
Cached ==
  \A p \in Proc : \A d \in DOMAIN sup[p] :
    /\ d \in Driver /\ sup[p][d] \in {"none", "nomount", "all"}
    /\ ~panicked => \A s \in Service : driver(s) = d => sup[p][d] = Flag(s)

Dialled == \A p \in dialed \ setup.controller : \A s \in Service : Known(p, s)

Caching ==
  Typed /\ Cached /\ Dialled /\ \A c \in Client : Placed(c)

\* What every step does to the caches.
Grows ==
  /\ UNCHANGED setup
  /\ Typed' /\ Cached'
  /\ panicked => panicked'
  /\ \A p \in Proc : DOMAIN sup[p] \subseteq DOMAIN sup'[p]
  /\ \A p \in Proc, s \in Service : Known(p, s) => Known(p, s)'

\* One field of a call changes.
LEMMA FieldTyped ==
  ASSUME NEW x \in Call
  PROVE  /\ \A op \in Op : [x EXCEPT !.op = op] \in Call
         /\ \A s \in Service \cup {NoService} : /\ [x EXCEPT !.svc = s] \in Call
                                               /\ [x EXCEPT !.cur = s] \in Call
         /\ \A stage \in Stage : [x EXCEPT !.stage = stage] \in Call
         /\ \A pc \in PC : [x EXCEPT !.pc = pc] \in Call
         /\ \A t \in SUBSET Service : [x EXCEPT !.todo = t] \in Call
         /\ \A g \in SUBSET Driver : [x EXCEPT !.got = g] \in Call
         /\ \A b \in BOOLEAN : [x EXCEPT !.polled = b] \in Call
<1>1. ASSUME NEW op \in Op PROVE [x EXCEPT !.op = op] \in Call
  BY DEF Call
<1>2. ASSUME NEW s \in Service \cup {NoService}
      PROVE  [x EXCEPT !.svc = s] \in Call /\ [x EXCEPT !.cur = s] \in Call
  BY DEF Call
<1>3. ASSUME NEW stage \in Stage PROVE [x EXCEPT !.stage = stage] \in Call
  BY DEF Call
<1>4. ASSUME NEW pc \in PC PROVE [x EXCEPT !.pc = pc] \in Call
  BY DEF Call
<1>5. ASSUME NEW t \in SUBSET Service PROVE [x EXCEPT !.todo = t] \in Call
  BY DEF Call
<1>6. ASSUME NEW g \in SUBSET Driver PROVE [x EXCEPT !.got = g] \in Call
  BY DEF Call
<1>7. ASSUME NEW b \in BOOLEAN PROVE [x EXCEPT !.polled = b] \in Call
  BY DEF Call
<1> QED BY <1>1, <1>2, <1>3, <1>4, <1>5, <1>6, <1>7

\* Initially nobody has dialled.
LEMMA CachingInit == Init => Caching
<1> SUFFICES ASSUME Init PROVE Caching
  OBVIOUS
<1>1. Typed
  <2>1. Idle \in Call
    BY DEF Idle, Call, Stage, PC
  <2>2. setup \in Setup /\ bin \in {"absent", "old"}
    BY SetupsAssumption DEF Init
  <2>3. call \in [Client -> Call] /\ iids \in [Proc -> SUBSET Service] /\ DOMAIN sup = Proc
    BY <2>1 DEF Init
  <2> QED BY <2>2, <2>3 DEF Init, Typed
<1>2. Cached /\ Dialled
  BY DEF Init, Cached, Dialled
<1>3. ASSUME NEW c \in Client PROVE Placed(c)
  BY DEF Init, Idle, Placed, Ordered, Listing, DialPC, AskPC
<1> QED BY <1>1, <1>2, <1>3 DEF Caching

\* Where Goto leads.
LEMMA Went ==
  ASSUME Typed, NEW c \in Client,
         NEW pc \in PC,
         Goto(c, pc)
  PROVE  /\ call' \in [Client -> Call]
         /\ \A d \in Client \ {c} : call'[d] = call[d]
         /\ call'[c].pc = pc /\ call'[c].op = call[c].op
         /\ call'[c].svc = call[c].svc /\ call'[c].cur = call[c].cur
         /\ call'[c].stage = call[c].stage /\ call'[c].todo = call[c].todo
         /\ call'[c].got = call[c].got
BY DEF Typed, Goto, Call

\* A call that ends leaves nothing behind.
LEMMA Ended ==
  ASSUME Typed, NEW c \in Client, call' = [call EXCEPT ![c] = Idle]
  PROVE  /\ call' \in [Client -> Call]
         /\ \A d \in Client \ {c} : call'[d] = call[d]
         /\ call'[c].op = "idle" /\ Placed(c)'
<1>1. Idle \in Call
  BY DEF Idle, Call, Stage, PC
<1>2. Idle.op = "idle" /\ Idle.pc = "idle" /\ Idle.stage = "none" /\ Idle.todo = {}
  BY DEF Idle
<1>3. /\ call' \in [Client -> Call] /\ call'[c] = Idle
      /\ \A d \in Client \ {c} : call'[d] = call[d]
  BY <1>1 DEF Typed
<1>4. Placed(c)'
  BY <1>2, <1>3 DEF Placed, Ordered, Listing, DialPC, AskPC
<1> QED BY <1>2, <1>3, <1>4

\* Steps that leave the caches alone.
LEMMA Steady ==
  ASSUME Caching, call' \in [Client -> Call],
         UNCHANGED <<setup, sup, iids>>, dialed' \subseteq Proc,
         bin' \in {"absent", "old", "good", "partial"},
         lock' \in Client \cup {Free, Dead},
         panicked' = panicked \/ panicked' = TRUE
  PROVE  Grows
<1>1. panicked \in BOOLEAN /\ panicked' \in BOOLEAN /\ (panicked => panicked')
  BY DEF Caching, Typed
<1>2. Typed'
  BY <1>1 DEF Caching, Typed
<1>3. Cached'
  <2>1. \A s \in Service : driver(s)' = driver(s) /\ Flag(s)' = Flag(s)
    BY DEF driver, Flag, kind
  <2> QED BY <1>1, <2>1 DEF Caching, Cached
<1>4. ASSUME NEW p \in Proc, NEW s \in Service, Known(p, s) PROVE Known(p, s)'
  BY <1>1, <1>4 DEF Known, kind, driver
<1> QED BY <1>1, <1>2, <1>3, <1>4 DEF Grows

\* A step of one goroutine is the business of that goroutine: it has to see to
\* it that its own call is in place, and that what it dialled is known.
LEMMA Preserved ==
  ASSUME Caching, NEW c \in Client, Grows, Placed(c)',
         \A d \in Client \ {c} : call'[d] = call[d],
         call[c].op # "idle" \/
           \A d \in Client \ {c} : proc(d) = proc(c) => call[d].op # "dial",
         \/ UNCHANGED dialed
         \/ /\ dialed' = dialed \cup {proc(c)} /\ call[c].op = "dial"
            /\ isController(c) \/ \A s \in Service : Known(proc(c), s)'
  PROVE  Caching'
<1>1. setup' = setup /\ (panicked => panicked') /\ dialed \subseteq dialed'
  BY DEF Grows
<1>2. \A d \in Client : proc(d) \in Proc /\ proc(d)' = proc(d) /\ isController(d)' = isController(d)
  BY <1>1 DEF Caching, Typed, Setup, proc, isController
<1>3. \A s \in Service : driver(s)' = driver(s) /\ Flag(s)' = Flag(s)
  BY <1>1 DEF driver, Flag, kind
<1>4. Dialled'
  <2> SUFFICES ASSUME NEW p \in dialed' \ setup.controller, NEW s \in Service
               PROVE  Known(p, s)'
    BY <1>1 DEF Dialled
  <2>1. CASE p \in dialed
    <3>1. p \in Proc /\ Known(p, s)
      BY <2>1 DEF Caching, Dialled, Typed
    <3> QED BY <3>1 DEF Grows
  <2>2. CASE p = proc(c) /\ p \notin dialed
    BY <1>1, <1>2, <2>2 DEF isController, Known, driver, kind
  <2> QED BY <2>1, <2>2, SMT
<1>5. ASSUME NEW d \in Client \ {c} PROVE Placed(d)'
  <2>1. call'[d] = call[d] /\ d \in Client /\ d # c /\ Placed(d) /\ Placed(c)
    BY DEF Caching
  <2>2. Ordered(call[d])'
    BY <2>1 DEF Placed, Ordered
  <2>3. (call[d].pc \notin {"idle", "services", "devices", "send"} => ~isController(d))'
    BY <1>2, <2>1 DEF Placed
  <2>4. ASSUME call[d].op = "dial" PROVE Dialling(d)'
    <3>1. Dialling(d)
      BY <2>1, <2>4 DEF Placed
    <3>2. proc(d) # proc(c)
      <4>1. CASE call[c].op # "idle"
        BY <2>1, <3>1, <4>1 DEF Dialling
      <4>2. CASE \A e \in Client \ {c} : proc(e) = proc(c) => call[e].op # "dial"
        BY <2>4, <4>2
      <4> QED BY <4>1, <4>2
    <3>3. (proc(d) \notin dialed)'
      BY <1>2, <3>1, <3>2, SMT DEF Dialling
    <3>4. (\A e \in Client : e # d /\ proc(e) = proc(d) => call[e].op = "idle")'
      BY <1>2, <3>1, <3>2, <2>1 DEF Dialling
    <3>5. (call[d].pc # "services" =>
            \A s \in Service : s \notin Pending(call[d]) => Known(proc(d), s))'
      <4> SUFFICES ASSUME call[d].pc # "services", NEW s \in Service,
                          s \notin Pending(call[d])
                   PROVE  Known(proc(d), s)'
        BY <1>2, <2>1 DEF Pending
      <4>1. Known(proc(d), s)
        BY <3>1 DEF Dialling
      <4> QED BY <1>2, <4>1 DEF Grows, Known
    <3>6. (call[d].pc \in {"cached", "lock", "run", "inspect"} =>
            driver(call[d].cur) \in DOMAIN sup[proc(d)])'
      <4> SUFFICES ASSUME call[d].pc \in {"cached", "lock", "run", "inspect"}
                   PROVE  driver(call[d].cur) \in DOMAIN sup'[proc(d)]
        BY <1>1, <1>2, <2>1 DEF driver
      <4>1. driver(call[d].cur) \in DOMAIN sup[proc(d)]
        BY <3>1 DEF Dialling
      <4> QED BY <1>2, <4>1 DEF Grows
    <3> QED BY <3>3, <3>4, <3>5, <3>6 DEF Dialling
  <2>5. (call[d].op \notin {"idle", "dial"} =>
           proc(d) \in dialed /\ call[d].pc \notin {"suplock", "suprun"})'
    BY <1>1, <1>2, <2>1 DEF Placed
  <2>6. (Listing(d) /\ ~panicked => Listed(d))'
    <3> SUFFICES ASSUME Listing(d)', ~panicked' PROVE Listed(d)'
      OBVIOUS
    <3>1. Listing(d) /\ ~panicked
      BY <1>1, <1>2, <2>1 DEF Listing
    <3>2. Listed(d)
      BY <2>1, <3>1 DEF Placed
    <3> QED BY <1>3, <2>1, <3>2 DEF Listed, Pending
  <2> QED BY <2>1, <2>2, <2>3, <2>4, <2>5, <2>6 DEF Placed
<1> QED BY <1>4, <1>5 DEF Caching, Grows

\* A step that ends a call.
LEMMA Stops ==
  ASSUME Caching, NEW c \in Client, call[c].pc # "idle", Grows, UNCHANGED dialed,
         call' = [call EXCEPT ![c] = Idle]
  PROVE  Caching'
<1>1. Typed /\ call[c].op # "idle"
  BY DEF Caching, Placed, Ordered
<1>2. Placed(c)' /\ \A d \in Client \ {c} : call'[d] = call[d]
  BY <1>1, Ended
<1> QED BY <1>1, <1>2, Preserved

\* A step within the treatment of one service.
LEMMA MovesOn ==
  ASSUME Caching, NEW c \in Client,
         NEW pc \in AskPC, Goto(c, pc), call[c].pc \in AskPC,
         pc \in {"suplock", "suprun"} => call[c].op = "dial",
         pc \in {"cached", "inspect"} => call[c].stage = "iid",
         call[c].op = "dial" /\ pc \in {"cached", "lock", "run", "inspect"} =>
           driver(call[c].cur) \in DOMAIN sup'[proc(c)],
         Grows, UNCHANGED dialed
  PROVE  Caching'
<1> USE DEF AskPC, DialPC
<1>1. Typed /\ Placed(c) /\ Ordered(call[c])
  BY DEF Caching, Placed
<1>2. /\ call' \in [Client -> Call]
      /\ \A d \in Client \ {c} : call'[d] = call[d]
      /\ call'[c].pc = pc /\ call'[c].op = call[c].op
      /\ call'[c].svc = call[c].svc /\ call'[c].cur = call[c].cur
      /\ call'[c].stage = call[c].stage /\ call'[c].todo = call[c].todo
      /\ call'[c].got = call[c].got
  <2>1. pc \in PC
    BY DEF PC
  <2> QED BY <1>1, <2>1, Went
<1>3. /\ proc(c) \in Proc /\ isController(c)' = isController(c)
      /\ \A d \in Client : proc(d)' = proc(d)
      /\ \A s \in Service : driver(s)' = driver(s) /\ Flag(s)' = Flag(s)
  BY DEF Grows, Caching, Typed, Setup, proc, isController, driver, Flag, kind
<1>4. call[c].op # "idle"
  BY <1>1 DEF Ordered
<1>5. Ordered(call'[c])
  BY <1>1, <1>2 DEF Ordered
<1>6. ASSUME call[c].op = "dial" PROVE Dialling(c)'
  <2>1. Dialling(c)
    BY <1>1, <1>6 DEF Placed
  <2>2. /\ (proc(c) \notin dialed)'
        /\ (\A d \in Client : d # c /\ proc(d) = proc(c) => call[d].op = "idle")'
    BY <1>2, <1>3, <2>1 DEF Dialling
  <2>3. ASSUME NEW s \in Service, s \notin Pending(call'[c]) PROVE Known(proc(c), s)'
    <3>1. s \notin Pending(call[c])
      BY <1>2, <2>3 DEF Pending
    <3>2. Known(proc(c), s)
      BY <2>1, <3>1 DEF Dialling
    <3> QED BY <1>3, <3>2 DEF Grows, Known
  <2>4. (call[c].pc \in {"cached", "lock", "run", "inspect"} =>
          driver(call[c].cur) \in DOMAIN sup[proc(c)])'
    <3>1. setup' = setup
      BY DEF Grows
    <3> QED BY <1>2, <1>3, <1>6, <3>1 DEF driver
  <2> QED BY <2>2, <2>3, <2>4 DEF Dialling
<1>7. (Listing(c) /\ ~panicked => Listed(c))'
  <2> SUFFICES ASSUME Listing(c)', ~panicked', NEW s \in Service, s \notin Pending(call'[c]),
                      Allowed(Flag(s), "devices")
               PROVE  driver(s) \in call[c].got
    BY <1>2, <1>3 DEF Listed, Allowed
  <2>1. Listed(c) /\ call[c].stage = "devices" /\ call[c].op # "dial"
    BY <1>1, <1>2, <1>3 DEF Listing, Placed, Ordered, Grows
  <2>2. s \notin Pending(call[c])
    BY <1>2 DEF Pending
  <2> QED BY <2>1, <2>2 DEF Listed
<1>8. Placed(c)'
  BY <1>1, <1>2, <1>3, <1>5, <1>6, <1>7 DEF Placed
<1> QED BY <1>2, <1>4, <1>8, Preserved

\* A service is done with: it is known, or its devices are.
LEMMA MovesPick ==
  ASSUME Caching, NEW c \in Client,
         Goto(c, "pick"), call[c].pc \in AskPC,
         call[c].op = "dial" \/ call[c].stage = "devices",
         call[c].op = "dial" => Known(proc(c), call[c].cur)',
         call[c].op # "dial" /\ ~panicked' /\ Allowed(Flag(call[c].cur), "devices")
           => driver(call[c].cur) \in call[c].got,
         Grows, UNCHANGED dialed
  PROVE  Caching'
<1> USE DEF AskPC, DialPC
<1>1. Typed /\ Placed(c) /\ Ordered(call[c])
  BY DEF Caching, Placed
<1>2. /\ call' \in [Client -> Call]
      /\ \A d \in Client \ {c} : call'[d] = call[d]
      /\ call'[c].pc = "pick" /\ call'[c].op = call[c].op
      /\ call'[c].svc = call[c].svc /\ call'[c].cur = call[c].cur
      /\ call'[c].stage = call[c].stage /\ call'[c].todo = call[c].todo
      /\ call'[c].got = call[c].got
  <2>1. "pick" \in PC
    BY DEF PC
  <2> QED BY <1>1, <2>1, Went
<1>3. /\ proc(c) \in Proc /\ isController(c)' = isController(c)
      /\ \A d \in Client : proc(d)' = proc(d)
      /\ \A s \in Service : driver(s)' = driver(s) /\ Flag(s)' = Flag(s)
  BY DEF Grows, Caching, Typed, Setup, proc, isController, driver, Flag, kind
<1>4. call[c].op # "idle"
  BY <1>1 DEF Ordered
<1>5. Ordered(call'[c])
  BY <1>1, <1>2 DEF Ordered
<1>6. ASSUME call[c].op = "dial" PROVE Dialling(c)'
  <2>1. Dialling(c)
    BY <1>1, <1>6 DEF Placed
  <2>2. /\ (proc(c) \notin dialed)'
        /\ (\A d \in Client : d # c /\ proc(d) = proc(c) => call[d].op = "idle")'
    BY <1>2, <1>3, <2>1 DEF Dialling
  <2>3. ASSUME NEW s \in Service, s \notin Pending(call'[c]) PROVE Known(proc(c), s)'
    <3>1. CASE s = call[c].cur
      BY <1>2, <1>3, <1>6, <3>1 DEF Known
    <3>2. CASE s # call[c].cur
      <4>1. s \notin Pending(call[c])
        BY <1>2, <2>3, <3>2 DEF Pending
      <4>2. Known(proc(c), s)
        BY <2>1, <4>1 DEF Dialling
      <4> QED BY <1>3, <4>2 DEF Grows, Known
    <3> QED BY <3>1, <3>2
  <2>4. (call[c].pc \in {"cached", "lock", "run", "inspect"} =>
          driver(call[c].cur) \in DOMAIN sup[proc(c)])'
    BY <1>2
  <2> QED BY <2>2, <2>3, <2>4 DEF Dialling
<1>7. (Listing(c) /\ ~panicked => Listed(c))'
  <2> SUFFICES ASSUME Listing(c)', ~panicked', NEW s \in Service, s \notin Pending(call'[c]),
                      Allowed(Flag(s), "devices")
               PROVE  driver(s) \in call[c].got
    BY <1>2, <1>3 DEF Listed, Allowed
  <2>1. Listed(c) /\ call[c].stage = "devices" /\ call[c].op # "dial"
    BY <1>1, <1>2, <1>3 DEF Listing, Placed, Ordered, Grows
  <2>2. CASE s # call[c].cur
    <3>1. s \notin Pending(call[c])
      BY <1>2, <2>2 DEF Pending
    <3> QED BY <2>1, <3>1 DEF Listed
  <2> QED BY <2>1, <2>2
<1>8. Placed(c)'
  BY <1>1, <1>2, <1>3, <1>5, <1>6, <1>7 DEF Placed
<1> QED BY <1>2, <1>4, <1>8, Preserved

\* The executor is brought up to date.
LEMMA MovesUpdate ==
  ASSUME Caching, NEW c \in Client,
         NEW pc \in {"uplock", "check", "fetch", "pick"}, Goto(c, pc),
         call[c].pc \in DialPC \ {"services"},
         Grows, UNCHANGED dialed
  PROVE  Caching'
<1> USE DEF AskPC, DialPC
<1>1. Typed /\ Placed(c) /\ Ordered(call[c])
  BY DEF Caching, Placed
<1>2. /\ call' \in [Client -> Call]
      /\ \A d \in Client \ {c} : call'[d] = call[d]
      /\ call'[c].pc = pc /\ call'[c].op = call[c].op
      /\ call'[c].svc = call[c].svc /\ call'[c].cur = call[c].cur
      /\ call'[c].stage = call[c].stage /\ call'[c].todo = call[c].todo
      /\ call'[c].got = call[c].got
  <2>1. pc \in PC
    BY DEF PC
  <2> QED BY <1>1, <2>1, Went
<1>3. /\ proc(c) \in Proc /\ isController(c)' = isController(c)
      /\ \A d \in Client : proc(d)' = proc(d)
      /\ \A s \in Service : driver(s)' = driver(s) /\ Flag(s)' = Flag(s)
  BY DEF Grows, Caching, Typed, Setup, proc, isController, driver, Flag, kind
<1>4. call[c].op # "idle"
  BY <1>1 DEF Ordered
<1>5. Ordered(call'[c])
  BY <1>1, <1>2 DEF Ordered
<1>6. ASSUME call[c].op = "dial" PROVE Dialling(c)'
  <2>1. Dialling(c)
    BY <1>1, <1>6 DEF Placed
  <2>2. /\ (proc(c) \notin dialed)'
        /\ (\A d \in Client : d # c /\ proc(d) = proc(c) => call[d].op = "idle")'
    BY <1>2, <1>3, <2>1, ZenonT(60) DEF Dialling
  <2>3. ASSUME NEW s \in Service, s \notin Pending(call'[c]) PROVE Known(proc(c), s)'
    <3>1. s \notin Pending(call[c])
      BY <1>2, <2>3 DEF Pending
    <3>2. Known(proc(c), s)
      BY <2>1, <3>1 DEF Dialling
    <3> QED BY <1>3, <3>2 DEF Grows, Known
  <2>4. (call[c].pc \in {"cached", "lock", "run", "inspect"} =>
          driver(call[c].cur) \in DOMAIN sup[proc(c)])'
    BY <1>2
  <2> QED BY <2>2, <2>3, <2>4 DEF Dialling
<1>7. (Listing(c) /\ ~panicked => Listed(c))'
  BY <1>1, <1>2 DEF Listing, Ordered
<1>8. Placed(c)'
  BY <1>1, <1>2, <1>3, <1>5, <1>6, <1>7 DEF Placed
<1> QED BY <1>2, <1>4, <1>8, Preserved

\* What Supported returned decides about the rest of a call.
LEMMA Resolved ==
  ASSUME Caching, NEW c \in Client, NEW flag \in {"none", "nomount", "all"},
         call[c].pc \in {"ask", "suprun"}, Resolve(c, flag), Grows, UNCHANGED dialed,
         driver(call[c].cur) \in DOMAIN sup'[proc(c)],
         sup'[proc(c)][driver(call[c].cur)] = flag
  PROVE  Caching'
<1> DEFINE stage == call[c].stage
<1>1. Ordered(call[c]) /\ call[c].pc \in AskPC /\ call[c].pc # "idle"
  BY DEF Caching, Placed, AskPC
<1>2. CASE stage = "supported" \/ ~(Allowed(flag, stage) \/ call[c].op = "dial" \/ stage = "devices")
  <2>1. call' = [call EXCEPT ![c] = Idle]
    BY <1>1, <1>2 DEF Resolve, Answer, Ordered
  <2> QED BY <1>1, <2>1, Stops
<1>3. CASE stage # "supported" /\ Allowed(flag, stage)
  <2>1. CASE stage = "iid"
    <3>1. Goto(c, "cached") /\ "cached" \in AskPC
      BY <1>3, <2>1 DEF Resolve, AskPC
    <3> QED BY <1>1, <2>1, <3>1, MovesOn
  <2>2. CASE stage # "iid"
    <3>1. Goto(c, "lock") /\ "lock" \in AskPC
      BY <1>3, <2>2 DEF Resolve, AskPC
    <3> QED BY <1>1, <2>2, <3>1, MovesOn
  <2> QED BY <2>1, <2>2
<1>4. CASE /\ stage # "supported" /\ ~Allowed(flag, stage)
           /\ call[c].op = "dial" \/ stage = "devices"
  <2>1. Goto(c, "pick")
    BY <1>4 DEF Resolve
  <2>2. setup' = setup /\ proc(c) \in Proc /\ call[c].cur \in Service
    BY <1>1 DEF Grows, Caching, Typed, Setup, proc, Ordered
  <2>3. ASSUME call[c].op = "dial" PROVE Known(proc(c), call[c].cur)'
    <3>1. stage = "iid"
      BY <1>1, <2>3 DEF Ordered
    <3>2. flag = "none"
      BY <1>4, <3>1 DEF Allowed
    <3>3. call'[c].cur = call[c].cur
      BY <2>1 DEF Caching, Typed, Call, Goto
    <3> QED BY <2>2, <3>2, <3>3 DEF Known, driver, proc
  <2>4. ASSUME call[c].op # "dial", ~panicked' PROVE ~Allowed(Flag(call[c].cur), "devices")
    <3>1. \A s \in Service : driver(s)' = driver(s) /\ Flag(s)' = Flag(s)
      BY <2>2 DEF driver, Flag, kind
    <3>2. flag = Flag(call[c].cur)
      BY <2>2, <2>4, <3>1 DEF Grows, Cached
    <3> QED BY <1>4, <2>4, <3>2
  <2> QED BY <1>1, <1>4, <2>1, <2>3, <2>4, MovesPick
<1> QED BY <1>2, <1>3, <1>4

\* An answer of the executor enters supportedCache.
LEMMA Learns ==
  ASSUME Caching, NEW c \in Client, NEW s \in Service,
         NEW flag \in {"none", "nomount", "all"},
         Cache(c, driver(s), flag), UNCHANGED <<setup, iids, bin, dialed>>,
         lock' = Free, call' \in [Client -> Call],
         panicked' = TRUE \/ (panicked' = panicked /\ flag = Flag(s))
  PROVE  /\ Grows
         /\ driver(s) \in DOMAIN sup'[proc(c)]
         /\ sup'[proc(c)][driver(s)] = flag
<1>1. /\ proc(c) \in Proc /\ driver(s) \in Driver
      /\ \A t \in Service : driver(t)' = driver(t) /\ Flag(t)' = Flag(t) /\ kind(t)' = kind(t)
  BY DEF Caching, Typed, Setup, proc, driver, Flag, kind
<1>2. /\ DOMAIN sup' = Proc
      /\ \A p \in Proc \ {proc(c)} : sup'[p] = sup[p]
      /\ DOMAIN sup'[proc(c)] = DOMAIN sup[proc(c)] \cup {driver(s)}
      /\ sup'[proc(c)][driver(s)] = flag
      /\ \A d \in DOMAIN sup[proc(c)] \ {driver(s)} : sup'[proc(c)][d] = sup[proc(c)][d]
  BY <1>1 DEF Caching, Typed, Cache
<1>3. panicked \in BOOLEAN /\ panicked' \in BOOLEAN /\ (panicked => panicked')
  BY DEF Caching, Typed
<1>4. Typed'
  BY <1>2, <1>3 DEF Caching, Typed
<1>5. Cached'
  <2> SUFFICES ASSUME NEW p \in Proc, NEW d \in DOMAIN sup'[p]
               PROVE  /\ d \in Driver /\ sup'[p][d] \in {"none", "nomount", "all"}
                      /\ ~panicked' => \A t \in Service : driver(t) = d => sup'[p][d] = Flag(t)
    BY <1>1, ZenonT(60) DEF Cached
  <2>1. CASE p = proc(c) /\ d = driver(s)
    <3>1. \A t \in Service : driver(t) = driver(s) => Flag(t) = Flag(s)
      BY DEF Flag, kind
    <3> QED BY <1>1, <1>2, <2>1, <3>1
  <2>2. CASE ~(p = proc(c) /\ d = driver(s))
    <3>1. d \in DOMAIN sup[p] /\ sup'[p][d] = sup[p][d]
      BY <1>2, <2>2
    <3> QED BY <1>3, <3>1 DEF Caching, Cached
  <2> QED BY <2>1, <2>2
<1>6. ASSUME NEW p \in Proc PROVE DOMAIN sup[p] \subseteq DOMAIN sup'[p]
  BY <1>2
<1>7. ASSUME NEW p \in Proc, NEW t \in Service, Known(p, t) PROVE Known(p, t)'
  <2>1. driver(t) \in DOMAIN sup[p] /\ driver(t) \in DOMAIN sup'[p]
    BY <1>6, <1>7 DEF Known
  <2>2. CASE panicked'
    BY <1>1, <2>1, <2>2 DEF Known
  <2>3. CASE ~panicked'
    <3>1. sup'[p][driver(t)] = sup[p][driver(t)]
      BY <1>1, <1>3, <1>5, <2>1, <2>3, SMT DEF Caching, Cached
    <3> QED BY <1>1, <1>3, <1>7, <2>1, <2>3, <3>1 DEF Known
  <2> QED BY <2>2, <2>3
<1> QED BY <1>2, <1>3, <1>4, <1>5, <1>6, <1>7 DEF Grows

\* An instance ID enters instanceIDCache.
LEMMA Identifies ==
  ASSUME Caching, NEW c \in Client, call[c].pc \in {"run", "inspect"},
         call[c].stage = "iid", GotInstanceID(c),
         UNCHANGED <<setup, sup, bin, dialed, panicked>>,
         lock' \in Client \cup {Free, Dead}
  PROVE  Caching'
<1>1. /\ Typed /\ Placed(c) /\ Ordered(call[c]) /\ call[c].pc \in AskPC /\ call[c].pc # "idle"
      /\ call[c].cur \in Service /\ proc(c) \in Proc
  BY DEF Caching, Placed, AskPC, Ordered, Typed, Setup, proc
<1>2. /\ iids' \in [Proc -> SUBSET Service]
      /\ \A p \in Proc : iids[p] \subseteq iids'[p]
      /\ call[c].cur \in iids'[proc(c)]
  BY <1>1 DEF Typed, GotInstanceID
<1>3. \A t \in Service : driver(t)' = driver(t) /\ Flag(t)' = Flag(t) /\ kind(t)' = kind(t)
  BY DEF driver, Flag, kind
<1>4. call' \in [Client -> Call]
  <2>1. CASE call[c].op = "dial"
    BY <1>1, <2>1, Went DEF GotInstanceID, PC
  <2>2. CASE call[c].op # "dial"
    BY <1>1, <2>2, Ended DEF GotInstanceID, Answer
  <2> QED BY <2>1, <2>2
<1>5. Grows
  <2>1. Typed' /\ (panicked => panicked')
    BY <1>2, <1>4 DEF Typed, Caching
  <2>2. Cached'
    BY <1>3, SMT DEF Caching, Cached
  <2>3. ASSUME NEW p \in Proc, NEW t \in Service, Known(p, t) PROVE Known(p, t)'
    BY <1>2, <1>3, <2>3 DEF Known
  <2> QED BY <2>1, <2>2, <2>3 DEF Grows
<1>6. CASE call[c].op = "dial"
  <2>1. Goto(c, "pick")
    BY <1>6 DEF GotInstanceID
  <2>2. call'[c].cur = call[c].cur
    BY <1>1, <2>1 DEF Typed, Call, Goto
  <2>3. driver(call[c].cur) \in DOMAIN sup[proc(c)]
    BY <1>1, <1>6 DEF Placed, Dialling
  <2>4. Known(proc(c), call[c].cur)'
    BY <1>1, <1>2, <1>3, <2>2, <2>3 DEF Known, proc
  <2> QED BY <1>1, <1>5, <1>6, <2>1, <2>4, MovesPick
<1>7. CASE call[c].op # "dial"
  <2>1. call' = [call EXCEPT ![c] = Idle]
    BY <1>7 DEF GotInstanceID, Answer
  <2> QED BY <1>1, <1>5, <2>1, Stops
<1> QED BY <1>6, <1>7

\* Most steps of a goroutine end its call or move it on, and leave the caches
\* alone.
LEMMA Calm ==
  ASSUME Caching, NEW c \in Client, UNCHANGED <<setup, sup, iids, dialed>>,
         bin' = bin \/ bin' \in {"good", "partial"}, lock' = lock \/ lock' \in {Free, c},
         panicked' = panicked \/ panicked' = TRUE,
         call' = [call EXCEPT ![c] = Idle] \/ \E pc \in PC : Goto(c, pc)
  PROVE  Grows
<1>1. call' \in [Client -> Call]
  <2>1. CASE call' = [call EXCEPT ![c] = Idle]
    BY <2>1, Ended DEF Caching
  <2>2. CASE \E pc \in PC : Goto(c, pc)
    BY <2>2, Went DEF Caching
  <2> QED BY <2>1, <2>2
<1>2. /\ dialed' \subseteq Proc /\ bin' \in {"absent", "old", "good", "partial"}
      /\ lock' \in Client \cup {Free, Dead}
  BY DEF Caching, Typed
<1> QED BY <1>1, <1>2, Steady

\* The same for a step that ends a call.
LEMMA CalmStop ==
  ASSUME Caching, NEW c \in Client, UNCHANGED <<setup, sup, iids, dialed>>,
         bin' = bin \/ bin' \in {"good", "partial"}, lock' = lock \/ lock' \in {Free, c},
         panicked' = panicked \/ panicked' = TRUE,
         call' = [call EXCEPT ![c] = Idle], call[c].pc # "idle"
  PROVE  Caching'
<1>1. Grows
  BY Calm
<1> QED BY <1>1, Stops

\* Supported and InstanceID, from the caches to the executor.
LEMMA AskKeepsCaching ==
  ASSUME Caching, NEW c \in Client,
         \/ Supported(c) \/ lsxMutexWait(c) \/ SupportedRuns(c) \/ SupportedFails(c)
         \/ CommandFails(c) \/ InstanceIDCached(c) \/ InstanceID(c) \/ InstanceInspect(c)
  PROVE  Caching'
<1> USE DEF ghosts, caches, host, bounds, lsxMutexSignal
<1>1. Typed /\ Cached /\ Placed(c) /\ Ordered(call[c]) /\ proc(c) \in Proc
  BY DEF Caching, Placed, Typed, Setup, proc
<1>2. {"ask", "suplock", "suprun", "cached", "lock", "run", "inspect"} = AskPC
  BY DEF AskPC
<1>3. AskPC \subseteq PC /\ "pick" \in PC /\ "check" \in PC
  BY DEF PC, DialPC
<1>4. ASSUME call[c].pc \in AskPC, call[c].op # "dial"
      PROVE  call[c].pc \notin {"suplock", "suprun"}
  BY <1>1, <1>2, <1>4 DEF Placed, Ordered
<1>5. ASSUME call[c].pc \in {"cached", "lock", "run", "inspect"}, call[c].op = "dial"
      PROVE  driver(call[c].cur) \in DOMAIN sup[proc(c)]
  BY <1>1, <1>5 DEF Placed, Dialling
<1>6. CASE Supported(c)
  <2>1. /\ call[c].pc = "ask" /\ call[c].pc \in AskPC
        /\ UNCHANGED <<setup, sup, iids, dialed, bin, lock, panicked>>
    BY <1>2, <1>6 DEF Supported
  <2>2. CASE driver(call[c].cur) \in DOMAIN sup[proc(c)]
    <3> DEFINE flag == sup[proc(c)][driver(call[c].cur)]
    <3>1. flag \in {"none", "nomount", "all"} /\ Resolve(c, flag)
      BY <1>1, <1>6, <2>2 DEF Cached, Supported
    <3>2. call' = [call EXCEPT ![c] = Idle] \/ \E pc \in PC : Goto(c, pc)
      BY <1>2, <1>3, <3>1 DEF Resolve, Answer
    <3>3. Grows
      BY <2>1, <3>2, Calm
    <3> QED BY <2>1, <2>2, <3>1, <3>3, Resolved
  <2>3. CASE driver(call[c].cur) \notin DOMAIN sup[proc(c)]
    <3>1. Goto(c, "suplock") /\ "suplock" \in PC /\ "suplock" \in AskPC
      BY <1>2, <1>3, <1>6, <2>3 DEF Supported
    <3>2. Grows
      BY <2>1, <3>1, Calm
    <3>3. call[c].op = "dial"
      <4> SUFFICES ASSUME call[c].op # "dial" PROVE FALSE
        OBVIOUS
      <4>1. proc(c) \in dialed /\ ~isController(c) /\ call[c].cur \in Service
        BY <1>1, <1>2, <2>1 DEF Placed, Ordered
      <4>2. Known(proc(c), call[c].cur)
        BY <4>1 DEF Caching, Dialled, isController
      <4> QED BY <2>3, <4>2 DEF Known
    <3> QED BY <2>1, <3>1, <3>2, <3>3, MovesOn
  <2> QED BY <2>2, <2>3
<1>7. CASE lsxMutexWait(c)
  <2>1. UNCHANGED <<setup, sup, iids, dialed, bin, panicked>> /\ lock' = c
    BY <1>7 DEF lsxMutexWait
  <2>2. CASE call[c].pc = "suplock"
    <3>1. Goto(c, "suprun") /\ call[c].op = "dial" /\ "suprun" \in AskPC /\ call[c].pc \in AskPC
      BY <1>2, <1>4, <1>7, <2>2 DEF lsxMutexWait
    <3>2. Grows
      BY <1>3, <2>1, <3>1, Calm
    <3> QED BY <2>1, <3>1, <3>2, MovesOn
  <2>3. CASE call[c].pc = "lock"
    <3>1. Goto(c, "run") /\ "run" \in AskPC /\ call[c].pc \in AskPC
      BY <1>2, <1>7, <2>3 DEF lsxMutexWait
    <3>2. Grows
      BY <1>3, <2>1, <3>1, Calm
    <3> QED BY <1>5, <2>1, <2>3, <3>1, <3>2, MovesOn
  <2>4. CASE call[c].pc = "uplock"
    <3>1. Goto(c, "check") /\ call[c].pc \in DialPC \ {"services"}
      BY <1>7, <2>4 DEF lsxMutexWait, DialPC
    <3>2. Grows
      BY <1>3, <2>1, <3>1, Calm
    <3> QED BY <2>1, <3>1, <3>2, MovesUpdate
  <2> QED BY <1>7, <2>2, <2>3, <2>4 DEF lsxMutexWait
<1>8. CASE SupportedRuns(c)
  <2> DEFINE s == call[c].cur
  <2>1. /\ call[c].pc = "suprun" /\ call[c].pc \in AskPC /\ s \in Service
        /\ UNCHANGED <<setup, iids, bin, dialed>> /\ lock' = Free
    BY <1>1, <1>2, <1>8 DEF SupportedRuns, Ordered
  <2>2. PICK flag \in {"none", "nomount", "all"} :
          /\ Cache(c, driver(s), flag) /\ Resolve(c, flag)
          /\ panicked' = TRUE \/ (panicked' = panicked /\ flag = Flag(s))
    <3>1. Flag(s) \in {"none", "nomount", "all"}
      BY <2>1 DEF Caching, Typed, Setup, Kind, Flag, kind, driver
    <3>2. \/ Cache(c, driver(s), Flag(s)) /\ Resolve(c, Flag(s)) /\ panicked' = panicked
          \/ Cache(c, driver(s), "nomount") /\ Resolve(c, "nomount") /\ panicked' = TRUE
      BY <1>8 DEF SupportedRuns, Panics
    <3> QED BY <3>1, <3>2
  <2>3. call' = [call EXCEPT ![c] = Idle] \/ \E pc \in PC : Goto(c, pc)
    BY <1>2, <1>3, <2>2 DEF Resolve, Answer
  <2>4. call' \in [Client -> Call]
    BY <1>1, <2>3, Ended, Went
  <2>5. Grows /\ driver(s) \in DOMAIN sup'[proc(c)] /\ sup'[proc(c)][driver(s)] = flag
    BY <2>1, <2>2, <2>4, Learns
  <2> QED BY <2>1, <2>2, <2>5, Resolved
<1>9. CASE SupportedFails(c)
  <2>1. call[c].pc = "suprun" /\ call[c].op = "dial"
    BY <1>2, <1>4, <1>9 DEF SupportedFails
  <2> QED BY <1>9, <2>1, CalmStop DEF SupportedFails, Answer
<1>10. CASE CommandFails(c)
  <2>1. /\ call[c].pc = "run" /\ call[c].pc \in AskPC
        /\ UNCHANGED <<setup, sup, iids, dialed, bin>> /\ lock' = Free
        /\ panicked' = panicked \/ panicked' = TRUE
    BY <1>2, <1>10 DEF CommandFails, Panics
  <2>2. CASE call' = [call EXCEPT ![c] = Idle]
    BY <2>1, <2>2, CalmStop
  <2>3. CASE /\ Goto(c, "pick") /\ panicked' = TRUE
             /\ call[c].op = "dial" \/ call[c].stage = "devices"
    <3>1. Grows
      BY <1>3, <2>1, <2>3, Calm
    <3>2. ASSUME call[c].op = "dial" PROVE Known(proc(c), call[c].cur)'
      <4>1. driver(call[c].cur) \in DOMAIN sup[proc(c)]
        BY <1>5, <2>1, <3>2
      <4>2. call'[c].cur = call[c].cur
        BY <1>1, <2>3 DEF Typed, Call, Goto
      <4> QED BY <2>1, <2>3, <4>1, <4>2 DEF Known, driver, proc
    <3> QED BY <2>1, <2>3, <3>1, <3>2, MovesPick
  <2> QED BY <1>10, <2>2, <2>3 DEF CommandFails, Answer, Panics
<1>11. CASE InstanceIDCached(c)
  <2>1. /\ call[c].pc = "cached" /\ call[c].pc \in AskPC /\ call[c].stage = "iid"
        /\ UNCHANGED <<setup, sup, iids, dialed, bin, lock, panicked>>
    BY <1>1, <1>2, <1>11 DEF InstanceIDCached, Ordered
  <2>2. CASE call[c].cur \in iids[proc(c)] /\ call[c].op = "dial"
    <3>1. Goto(c, "pick")
      BY <1>11, <2>2 DEF InstanceIDCached
    <3>2. Grows
      BY <1>3, <2>1, <3>1, Calm
    <3>3. Known(proc(c), call[c].cur)'
      <4>1. driver(call[c].cur) \in DOMAIN sup[proc(c)]
        BY <1>5, <2>1, <2>2
      <4>2. call'[c].cur = call[c].cur
        BY <1>1, <3>1 DEF Typed, Call, Goto
      <4> QED BY <2>1, <2>2, <4>1, <4>2 DEF Known, driver, proc
    <3> QED BY <2>1, <2>2, <3>1, <3>2, <3>3, MovesPick
  <2>3. CASE call[c].cur \in iids[proc(c)] /\ call[c].op # "dial"
    BY <1>11, <2>1, <2>3, CalmStop DEF InstanceIDCached, Answer
  <2>4. CASE call[c].cur \notin iids[proc(c)]
    <3>1. Goto(c, "lock") /\ "lock" \in AskPC
      BY <1>2, <1>11, <2>4 DEF InstanceIDCached
    <3>2. Grows
      BY <1>3, <2>1, <3>1, Calm
    <3> QED BY <1>5, <2>1, <3>1, <3>2, MovesOn
  <2> QED BY <2>2, <2>3, <2>4
<1>12. CASE InstanceID(c)
  <2>1. /\ call[c].pc = "run" /\ call[c].pc \in AskPC /\ call[c].stage = "iid"
        /\ UNCHANGED <<setup, sup, dialed, bin, panicked>> /\ lock' = Free
    BY <1>2, <1>12 DEF InstanceID, Runs
  <2>2. CASE ~kind(call[c].cur).iid /\ call[c].op = "dial"
    <3>1. Goto(c, "pick") /\ iids' = iids
      BY <1>12, <2>2 DEF InstanceID
    <3>2. Grows
      BY <1>3, <2>1, <3>1, Calm
    <3>3. Known(proc(c), call[c].cur)'
      <4>1. driver(call[c].cur) \in DOMAIN sup[proc(c)]
        BY <1>5, <2>1, <2>2
      <4>2. call'[c].cur = call[c].cur
        BY <1>1, <3>1 DEF Typed, Call, Goto
      <4> QED BY <2>1, <2>2, <4>1, <4>2 DEF Known, driver, proc, kind
    <3> QED BY <2>1, <2>2, <3>1, <3>2, <3>3, MovesPick
  <2>3. CASE ~kind(call[c].cur).iid /\ call[c].op # "dial"
    <3>1. call' = [call EXCEPT ![c] = Idle] /\ iids' = iids
      BY <1>12, <2>3 DEF InstanceID, Answer
    <3> QED BY <2>1, <3>1, CalmStop
  <2>4. CASE kind(call[c].cur).iid /\ kind(call[c].cur).meta
    <3>1. Goto(c, "inspect") /\ iids' = iids /\ "inspect" \in AskPC
      BY <1>2, <1>12, <2>4 DEF InstanceID
    <3>2. Grows
      BY <1>3, <2>1, <3>1, Calm
    <3> QED BY <1>5, <2>1, <3>1, <3>2, MovesOn
  <2>5. CASE kind(call[c].cur).iid /\ ~kind(call[c].cur).meta
    <3>1. GotInstanceID(c)
      BY <1>12, <2>5 DEF InstanceID
    <3> QED BY <2>1, <3>1, Identifies
  <2> QED BY <2>2, <2>3, <2>4, <2>5
<1>13. CASE InstanceInspect(c)
  <2>1. /\ call[c].pc = "inspect" /\ call[c].stage = "iid"
        /\ UNCHANGED <<setup, sup, dialed, bin, lock, panicked>>
    BY <1>1, <1>13 DEF InstanceInspect, Ordered
  <2>2. CASE GotInstanceID(c)
    BY <1>1, <2>1, <2>2, Identifies DEF Typed
  <2>3. CASE Answer(c, "error") /\ iids' = iids
    BY <2>1, <2>3, CalmStop DEF Answer
  <2> QED BY <1>13, <2>2, <2>3 DEF InstanceInspect
<1> QED BY <1>6, <1>7, <1>8, <1>9, <1>10, <1>11, <1>12, <1>13

\* The commands of the other calls, and the request.
LEMMA EndKeepsCaching ==
  ASSUME Caching, NEW c \in Client,
         \/ MountDevice(c) \/ UnmountDevice(c) \/ Mounts(c) \/ WaitTick(c)
         \/ WaitTimeout(c) \/ Send(c)
  PROVE  Caching'
<1> USE DEF ghosts, caches, host, bounds, lsxMutexSignal
<1>1. CASE call' = [call EXCEPT ![c] = Idle]
  <2>1. /\ UNCHANGED <<setup, sup, iids, dialed, bin, panicked>>
        /\ (lock' = lock \/ lock' = Free)
        /\ call[c].pc # "idle"
    BY DEF MountDevice, UnmountDevice, Mounts, WaitTick, WaitTimeout, Send, Runs
  <2> QED BY <1>1, <2>1, CalmStop
<1>2. CASE WaitTick(c) /\ ~present
  <2>1. /\ Typed /\ Placed(c) /\ call[c].op # "idle"
        /\ UNCHANGED <<setup, sup, iids, dialed, bin, lock, panicked>>
        /\ call' = [call EXCEPT ![c].polled = TRUE] /\ call[c].stage = "wait"
    BY <1>2 DEF Caching, Placed, Ordered, WaitTick, Runs
  <2>2. /\ call' \in [Client -> Call]
        /\ \A d \in Client \ {c} : call'[d] = call[d]
        /\ call'[c].pc = call[c].pc /\ call'[c].op = call[c].op
        /\ call'[c].svc = call[c].svc /\ call'[c].cur = call[c].cur
        /\ call'[c].stage = call[c].stage /\ call'[c].todo = call[c].todo
        /\ call'[c].got = call[c].got
    <3>1. call[c] \in Call /\ call \in [Client -> Call]
      BY <2>1 DEF Typed
    <3>2. [call[c] EXCEPT !.polled = TRUE] \in Call
      BY <3>1, FieldTyped
    <3> QED BY <2>1, <3>1, <3>2 DEF Call
  <2>3. Grows
    BY <2>1, <2>2, Steady DEF Typed
  <2>4. call[c].op # "dial" /\ call[c].pc = "run"
    BY <1>2, <2>1 DEF Placed, Ordered, WaitTick, Runs
  <2>5. Placed(c)'
    BY <2>1, <2>2, <2>4 DEF Placed, Ordered, Listing, isController, proc
  <2> QED BY <2>1, <2>2, <2>3, <2>5, Preserved
<1> QED BY <1>1, <1>2 DEF MountDevice, UnmountDevice, Mounts, WaitTick, WaitTimeout,
                                 Send, Answer

\* withAllLocalDevices, and the loop of dial.
LEMMA LoopKeepsCaching ==
  ASSUME Caching, NEW c \in Client,
         DevicesBegin(c) \/ Pick(c) \/ NextDevice(c) \/ LocalDevices(c)
  PROVE  Caching'
<1> USE DEF ghosts, caches, host, bounds, lsxMutexSignal
<1>1. Typed /\ Placed(c) /\ Ordered(call[c]) /\ proc(c) \in Proc
  BY DEF Caching, Placed, Typed, Setup, proc
<1>2. /\ UNCHANGED <<setup, sup, iids, bin, panicked>> /\ (lock' = lock \/ lock' = Free)
      /\ call[c].pc # "idle" /\ call[c].op # "idle"
  <2>1. /\ UNCHANGED <<setup, sup, iids, bin, panicked>> /\ (lock' = lock \/ lock' = Free)
        /\ call[c].pc # "idle"
    BY DEF DevicesBegin, Pick, NextDevice, LocalDevices, Runs
  <2> QED BY <1>1, <2>1 DEF Ordered
<1>3. /\ isController(c)' = isController(c)
      /\ \A d \in Client : proc(d)' = proc(d)
      /\ \A s \in Service : driver(s)' = driver(s) /\ Flag(s)' = Flag(s) /\ driver(s) \in Driver
  <2>1. /\ isController(c)' = isController(c)
        /\ \A d \in Client : proc(d)' = proc(d)
        /\ \A s \in Service : driver(s)' = driver(s) /\ Flag(s)' = Flag(s)
    BY <1>2 DEF isController, proc, driver, Flag, kind
  <2>2. \A s \in Service : driver(s) \in Driver
    BY <1>1 DEF Typed, Setup, driver
  <2> QED BY <2>1, <2>2
<1>4. ASSUME call' \in [Client -> Call], \A d \in Client \ {c} : call'[d] = call[d],
             UNCHANGED dialed, Placed(c)'
      PROVE  Caching'
  <2>1. Grows
    BY <1>1, <1>2, <1>4, Steady DEF Typed
  <2> QED BY <1>2, <1>4, <2>1, Preserved
<1>5. CASE DevicesBegin(c)
  <2>1. call[c].pc = "devices" /\ UNCHANGED dialed /\ call[c].todo = {} /\ call[c].op \notin {"dial", "wait"}
    BY <1>1, <1>5 DEF DevicesBegin, Ordered
  <2>2. CASE isController(c)
    <3>1. /\ call' \in [Client -> Call] /\ \A d \in Client \ {c} : call'[d] = call[d]
          /\ call'[c].pc = "send" /\ call'[c].op = call[c].op /\ call'[c].svc = call[c].svc
          /\ call'[c].stage = "send" /\ call'[c].todo = {}
      BY <1>1, <1>5, <2>1, <2>2, SMT DEF DevicesBegin, Typed, Call, Stage, PC
    <3>2. Placed(c)'
      BY <1>1, <1>2, <1>3, <2>1, <2>2, <3>1 DEF Placed, Ordered, Listing, DialPC, AskPC
    <3> QED BY <1>4, <2>1, <3>1, <3>2
  <2>3. CASE ~isController(c)
    <3>1. /\ call' \in [Client -> Call] /\ \A d \in Client \ {c} : call'[d] = call[d]
          /\ call'[c].pc = "pick" /\ call'[c].op = call[c].op /\ call'[c].svc = call[c].svc
          /\ call'[c].stage = "devices" /\ call'[c].todo = Service
      BY <1>1, <1>5, <2>3, SMT DEF DevicesBegin, Typed, Call, Stage, PC
    <3>2. Listed(c)'
      BY <3>1 DEF Listed, Pending
    <3>3. Placed(c)'
      BY <1>1, <1>2, <1>3, <2>1, <2>3, <3>1, <3>2 DEF Placed, Ordered, DialPC, AskPC
    <3> QED BY <1>4, <2>1, <3>1, <3>3
  <2> QED BY <2>2, <2>3
<1>6. CASE Pick(c)
  <2>1. call[c].pc = "pick" /\ call[c].op # "wait" /\ ~isController(c)
    <3>1. call[c].pc = "pick"
      BY <1>6 DEF Pick
    <3> QED BY <1>1, <3>1 DEF Ordered, Placed
  <2>2. CASE call[c].todo = {} /\ call[c].op = "dial"
    <3>1. call' = [call EXCEPT ![c] = Idle] /\ dialed' = dialed \cup {proc(c)}
      BY <1>6, <2>2 DEF Pick, Answer
    <3>2. /\ call' \in [Client -> Call] /\ \A d \in Client \ {c} : call'[d] = call[d]
          /\ Placed(c)'
      BY <1>1, <3>1, Ended
    <3>3. Grows
      <4>1. dialed' \subseteq Proc
        BY <1>1, <3>1 DEF Typed
      <4> QED BY <1>1, <1>2, <3>2, <4>1, Steady DEF Typed
    <3>4. ASSUME NEW s \in Service PROVE Known(proc(c), s)'
      <4>1. s \notin Pending(call[c])
        BY <2>1, <2>2 DEF Pending, AskPC
      <4>2. Known(proc(c), s)
        BY <1>1, <2>1, <2>2, <4>1 DEF Placed, Dialling
      <4> QED BY <1>1, <1>3, <3>3, <4>2 DEF Grows, Known
    <3> QED BY <1>2, <2>2, <3>1, <3>2, <3>3, <3>4, Preserved
  <2>3. CASE call[c].todo = {} /\ call[c].op # "dial"
    <3>1. /\ call' \in [Client -> Call] /\ \A d \in Client \ {c} : call'[d] = call[d]
          /\ call'[c].pc = "send" /\ call'[c].op = call[c].op /\ call'[c].svc = call[c].svc
          /\ call'[c].stage = "send" /\ call'[c].todo = {} /\ call'[c].got = call[c].got
          /\ UNCHANGED dialed
      BY <1>1, <1>6, <2>3, SMT DEF Pick, Typed, Call, Stage, PC
    <3>2. Listing(c) /\ (~panicked => Listed(c))
      BY <1>1, <2>1, <2>3 DEF Placed, Listing, Ordered
    <3>3. ASSUME ~panicked' PROVE Listed(c)'
      <4>1. Listed(c)
        BY <1>2, <3>2, <3>3
      <4> QED BY <1>3, <2>1, <2>3, <3>1, <4>1 DEF Listed, Pending, AskPC, Allowed
    <3>4. Placed(c)'
      BY <1>1, <1>2, <1>3, <2>1, <2>3, <3>1, <3>3 DEF Placed, Ordered, DialPC, AskPC
    <3> QED BY <1>4, <3>1, <3>4
  <2>4. CASE call[c].todo # {}
    <3>1. PICK s \in call[c].todo :
             call' = [call EXCEPT ![c].todo = @ \ {s}, ![c].cur = s,
                        ![c].pc = IF driver(s) \in call[c].got THEN "pick" ELSE "ask"]
      BY <1>6, <2>4 DEF Pick
    <3>2. s \in Service /\ UNCHANGED dialed
      <4>1. UNCHANGED dialed
        BY <1>6, <2>4 DEF Pick
      <4>2. call[c].todo \subseteq Service
        BY <1>1 DEF Typed, Call
      <4> QED BY <4>1, <4>2
    <3>3. /\ call' \in [Client -> Call] /\ \A d \in Client \ {c} : call'[d] = call[d]
          /\ call'[c].pc = IF driver(s) \in call[c].got THEN "pick" ELSE "ask"
          /\ call'[c].op = call[c].op /\ call'[c].svc = call[c].svc
          /\ call'[c].stage = call[c].stage /\ call'[c].todo = call[c].todo \ {s}
          /\ call'[c].cur = s /\ call'[c].got = call[c].got
      <4> DEFINE pc == IF driver(s) \in call[c].got THEN "pick" ELSE "ask"
      <4>1. call \in [Client -> Call] /\ pc \in PC
        BY <1>1 DEF Typed, AskPC, PC
      <4>2. call' = [call EXCEPT ![c].todo = @ \ {s}, ![c].cur = s, ![c].pc = pc]
        BY <3>1
      <4> HIDE DEF pc
      <4>3. /\ call'[c].pc = pc
            /\ call'[c].op = call[c].op /\ call'[c].svc = call[c].svc
            /\ call'[c].stage = call[c].stage /\ call'[c].todo = call[c].todo \ {s}
            /\ call'[c].cur = s /\ call'[c].got = call[c].got
        BY <4>1, <4>2, ZenonT(60) DEF Call
      <4> DEFINE y == [[[call[c] EXCEPT !.todo = call[c].todo \ {s}] EXCEPT !.cur = s]
                        EXCEPT !.pc = pc]
      <4>4. y \in Call
        <5>1. call[c] \in Call /\ call[c].todo \ {s} \in SUBSET Service
          BY <4>1 DEF Call
        <5> QED BY <3>2, <4>1, <5>1, FieldTyped
      <4>5. call'[c] = y
        BY <4>1, <4>2
      <4> HIDE DEF y
      <4>6. call' \in [Client -> Call] /\ \A d \in Client \ {c} : call'[d] = call[d]
        BY <4>1, <4>2, <4>4, <4>5
      <4> QED BY <4>3, <4>6 DEF pc
    <3>4. /\ call'[c].pc \in {"pick", "ask"}
          /\ \A t \in Service : t \in Pending(call[c]) /\ t \notin Pending(call'[c])
                                 => driver(t) \in call[c].got
      BY <2>1, <3>3 DEF Pending, AskPC
    <3>5. Ordered(call'[c])
      BY <1>1, <2>1, <3>2, <3>3, <3>4 DEF Ordered, DialPC, AskPC
    <3>6. ASSUME call[c].op = "dial" PROVE Dialling(c)'
      <4>1. Dialling(c) /\ call[c].got = {}
        BY <1>1, <3>6 DEF Placed, Ordered
      <4>2. ASSUME NEW t \in Service, t \notin Pending(call'[c]) PROVE Known(proc(c), t)'
        <5>1. t \notin Pending(call[c])
          BY <3>4, <4>1, <4>2
        <5>2. Known(proc(c), t)
          BY <2>1, <4>1, <5>1 DEF Dialling
        <5> QED BY <1>2, <1>3, <5>2 DEF Known, kind
      <4>3. /\ (proc(c) \notin dialed)'
            /\ (\A d \in Client : d # c /\ proc(d) = proc(c) => call[d].op = "idle")'
        BY <1>3, <3>2, <3>3, <4>1, ZenonT(60) DEF Dialling
      <4> QED BY <3>4, <4>2, <4>3 DEF Dialling
    <3>7. ASSUME Listing(c)', ~panicked' PROVE Listed(c)'
      <4>1. Listed(c)
        <5>1. Listing(c) /\ ~panicked
          BY <1>2, <2>1, <3>3, <3>4, <3>7 DEF Listing
        <5> QED BY <1>1, <5>1 DEF Placed
      <4> QED BY <1>3, <3>3, <3>4, <4>1 DEF Listed, Allowed
    <3>8. Placed(c)'
      BY <1>1, <1>2, <1>3, <2>1, <3>2, <3>3, <3>4, <3>5, <3>6, <3>7 DEF Placed
    <3> QED BY <1>4, <3>2, <3>3, <3>8
  <2> QED BY <2>2, <2>3, <2>4
<1>7. CASE NextDevice(c)
  <2>1. /\ call[c].pc = "run" /\ call[c].stage = "next" /\ UNCHANGED dialed /\ Goto(c, "devices")
        /\ call[c].todo = {} /\ call[c].op \notin {"dial", "wait"}
    BY <1>1, <1>7 DEF NextDevice, Runs, Ordered
  <2>2. /\ call' \in [Client -> Call] /\ \A d \in Client \ {c} : call'[d] = call[d]
        /\ call'[c].pc = "devices" /\ call'[c].op = call[c].op /\ call'[c].svc = call[c].svc
        /\ call'[c].stage = call[c].stage /\ call'[c].todo = call[c].todo
    <3>1. "devices" \in PC
      BY DEF PC
    <3> QED BY <1>1, <2>1, <3>1, Went
  <2>3. Placed(c)'
    BY <1>1, <1>2, <1>3, <2>1, <2>2 DEF Placed, Ordered, Listing, DialPC, AskPC
  <2> QED BY <1>4, <2>1, <2>2, <2>3
<1>8. CASE LocalDevices(c)
  <2>1. /\ call[c].pc = "run" /\ call[c].stage = "devices" /\ UNCHANGED dialed
        /\ call[c].cur \in Service /\ call[c].op \notin {"dial", "wait"}
        /\ call' = [call EXCEPT ![c].pc = "pick", ![c].got = @ \cup {driver(call[c].cur)}]
    BY <1>1, <1>8 DEF LocalDevices, Runs, Ordered, AskPC
  <2>2. /\ call' \in [Client -> Call] /\ \A d \in Client \ {c} : call'[d] = call[d]
        /\ call'[c].pc = "pick" /\ call'[c].op = call[c].op /\ call'[c].svc = call[c].svc
        /\ call'[c].stage = call[c].stage /\ call'[c].todo = call[c].todo
        /\ call'[c].got = call[c].got \cup {driver(call[c].cur)}
    <3> DEFINE y == [[call[c] EXCEPT !.pc = "pick"]
                      EXCEPT !.got = call[c].got \cup {driver(call[c].cur)}]
    <3>1. call \in [Client -> Call] /\ driver(call[c].cur) \in Driver
      BY <1>1, <1>3, <2>1 DEF Typed
    <3>2. y \in Call
      <4>1. call[c] \in Call /\ call[c].got \cup {driver(call[c].cur)} \in SUBSET Driver
        BY <3>1 DEF Call
      <4>2. "pick" \in PC
        BY DEF PC
      <4>3. [call[c] EXCEPT !.pc = "pick"] \in Call
        BY <4>1, <4>2, FieldTyped
      <4> QED BY <4>1, <4>3, FieldTyped
    <3>3. call'[c] = y
      BY <2>1, <3>1
    <3>4. /\ y.pc = "pick" /\ y.op = call[c].op /\ y.svc = call[c].svc
          /\ y.stage = call[c].stage /\ y.todo = call[c].todo
          /\ y.got = call[c].got \cup {driver(call[c].cur)}
      BY <3>1 DEF Call
    <3> HIDE DEF y
    <3> QED BY <2>1, <3>1, <3>2, <3>3, <3>4
  <2>3. ASSUME ~panicked' PROVE Listed(c)'
    <3>1. Listed(c)
      <4>1. Listing(c) /\ ~panicked
        BY <1>2, <2>1, <2>3 DEF Listing
      <4> QED BY <1>1, <4>1 DEF Placed
    <3> QED BY <1>3, <2>1, <2>2, <3>1, ZenonT(60) DEF Listed, Allowed, Pending, AskPC
  <2>4. Placed(c)'
    BY <1>1, <1>2, <1>3, <2>1, <2>2, <2>3 DEF Placed, Ordered, DialPC, AskPC
  <2> QED BY <1>4, <2>1, <2>2, <2>4
<1> QED BY <1>5, <1>6, <1>7, <1>8

\* dial up to its loop.
LEMMA DialKeepsCaching ==
  ASSUME Caching, NEW c \in Client,
         DialServices(c) \/ DialExecutors(c) \/ updateExecutor(c) \/ downloadExecutor(c)
  PROVE  Caching'
<1> USE DEF ghosts, caches, host, bounds, lsxMutexSignal
<1>1. Typed /\ Placed(c) /\ Ordered(call[c]) /\ proc(c) \in Proc
  BY DEF Caching, Placed, Typed, Setup, proc
<1>2. {"uplock", "fetch", "pick"} \subseteq PC
  BY DEF PC, DialPC
<1>3. CASE DialServices(c)
  <2>1. /\ call[c].pc = "services" /\ call[c].op = "dial" /\ call[c].stage = "iid" /\ call[c].got = {}
        /\ UNCHANGED <<setup, sup, iids, bin, lock, panicked>>
    BY <1>1, <1>3 DEF DialServices, Ordered, DialPC
  <2>2. CASE Answer(c, "ok") /\ isController(c) /\ dialed' = dialed \cup {proc(c)}
    <3>1. call' = [call EXCEPT ![c] = Idle]
      BY <2>2 DEF Answer
    <3>2. /\ call' \in [Client -> Call] /\ \A d \in Client \ {c} : call'[d] = call[d]
          /\ Placed(c)'
      BY <1>1, <3>1, Ended
    <3>3. dialed' \subseteq Proc
      BY <1>1, <2>2 DEF Typed
    <3>4. Grows
      BY <1>1, <2>1, <3>2, <3>3, Steady DEF Typed
    <3> QED BY <2>1, <2>2, <3>2, <3>4, Preserved
  <2>3. CASE /\ ~isController(c) /\ UNCHANGED dialed
             /\ call' = [call EXCEPT ![c].todo = Service,
                       ![c].pc = IF proc(c) \in setup.download THEN "executors" ELSE "pick"]
    <3>1. /\ call' \in [Client -> Call] /\ \A d \in Client \ {c} : call'[d] = call[d]
          /\ call'[c].pc \in {"executors", "pick"} /\ call'[c].op = "dial"
          /\ call'[c].stage = "iid" /\ call'[c].todo = Service /\ call'[c].got = {}
      <4> DEFINE pc == IF proc(c) \in setup.download THEN "executors" ELSE "pick"
      <4>1. pc \in {"executors", "pick"} /\ call' = [call EXCEPT ![c].todo = Service, ![c].pc = pc]
        BY <2>3
      <4>2. call \in [Client -> Call]
        BY <1>1 DEF Typed
      <4> HIDE DEF pc
      <4> QED BY <2>1, <4>1, <4>2, SMT DEF Call, PC, DialPC
    <3>2. Dialling(c)'
      <4>1. Dialling(c)
        BY <1>1, <2>1 DEF Placed
      <4>2. \A d \in Client : proc(d)' = proc(d)
        BY <2>1 DEF proc
      <4>3. Service \subseteq Pending(call'[c])
        BY <3>1 DEF Pending
      <4> QED BY <2>3, <3>1, <4>1, <4>2, <4>3, SMT DEF Dialling
    <3>3. Placed(c)'
      BY <2>1, <2>3, <3>1, <3>2 DEF Placed, Ordered, Listing, AskPC, DialPC, isController, proc
    <3>4. Grows
      BY <1>1, <2>1, <2>3, <3>1, Steady DEF Typed
    <3> QED BY <2>1, <2>3, <3>1, <3>3, <3>4, Preserved
  <2>4. CASE Answer(c, "error") /\ UNCHANGED dialed
    BY <2>1, <2>4, CalmStop DEF Answer
  <2> QED BY <1>3, <2>2, <2>3, <2>4 DEF DialServices
<1>4. CASE DialExecutors(c)
  <2>1. /\ call[c].pc = "executors" /\ call[c].pc \in DialPC \ {"services"} /\ call[c].pc # "idle"
        /\ UNCHANGED <<setup, sup, iids, bin, lock, panicked, dialed>>
    BY <1>4 DEF DialExecutors, DialPC
  <2>2. CASE Goto(c, "uplock")
    <3>1. Grows
      BY <1>2, <2>1, <2>2, Calm
    <3> QED BY <2>1, <2>2, <3>1, MovesUpdate
  <2>3. CASE Answer(c, "error")
    BY <2>1, <2>3, CalmStop DEF Answer
  <2> QED BY <1>4, <2>2, <2>3 DEF DialExecutors
<1>5. CASE updateExecutor(c)
  <2>1. /\ call[c].pc = "check" /\ call[c].pc \in DialPC \ {"services"}
        /\ UNCHANGED <<setup, sup, iids, panicked, dialed>>
        /\ bin' = bin \/ bin' = "partial"
        /\ lock' = lock \/ lock' = Free
    BY <1>5 DEF updateExecutor, DialPC
  <2>2. PICK pc \in {"pick", "fetch"} : Goto(c, pc)
    BY <1>5 DEF updateExecutor
  <2>3. Grows
    BY <1>2, <2>1, <2>2, Calm
  <2> QED BY <2>1, <2>2, <2>3, MovesUpdate
<1>6. CASE downloadExecutor(c)
  <2>1. /\ call[c].pc = "fetch" /\ call[c].pc \in DialPC \ {"services"} /\ call[c].pc # "idle"
        /\ UNCHANGED <<setup, sup, iids, panicked, dialed>>
        /\ bin' = bin \/ bin' = "good"
        /\ lock' = Free
    BY <1>6 DEF downloadExecutor, DialPC
  <2>2. CASE Goto(c, "pick")
    <3>1. Grows
      BY <1>2, <2>1, <2>2, Calm
    <3> QED BY <2>1, <2>2, <3>1, MovesUpdate
  <2>3. CASE Answer(c, "error")
    BY <2>1, <2>3, CalmStop DEF Answer
  <2> QED BY <1>6, <2>2, <2>3 DEF downloadExecutor
<1> QED BY <1>3, <1>4, <1>5, <1>6

\* A call begins.
LEMMA BeginKeepsCaching ==
  ASSUME Caching, NEW c \in Client, NEW op \in Op, NEW s \in Service \cup {NoService},
         op # "dial" => s \in Service, Begin(c, op, s)
  PROVE  Caching'
<1> USE DEF ghosts, caches, host
<1>1. Typed /\ Placed(c) /\ proc(c) \in Proc
  BY DEF Caching, Typed, Setup, proc
<1>2. /\ UNCHANGED <<setup, sup, iids, bin, lock, panicked, dialed>> /\ call[c].op = "idle"
      /\ op = "dial" => /\ proc(c) \notin dialed
                        /\ \A d \in Client : proc(d) = proc(c) => call[d].op = "idle"
      /\ op # "dial" => proc(c) \in dialed
  BY DEF Begin
<1>3. ASSUME NEW d \in Client \ {c}, proc(d) = proc(c) PROVE call[d].op # "dial"
  BY <1>2, <1>3 DEF Caching, Placed, Dialling
<1>4. CASE UNCHANGED call
  <2>1. Grows
    BY <1>1, <1>2, <1>4, Steady DEF Typed
  <2>2. Placed(c)'
    BY <1>1, <1>2, <1>4 DEF Placed, Ordered, Listing, Listed, Pending, Allowed, Flag, kind,
                                   driver, isController, proc
  <2> QED BY <1>2, <1>3, <1>4, <2>1, <2>2, Preserved
<1>5. CASE ~(isController(c) /\ op \in HostOnly)
  <2> DEFINE first == First[op]
             pc == IF op = "dial" THEN "services" ELSE IF op = "remove" THEN "send"
                   ELSE IF op = "volumes" THEN "devices" ELSE "ask"
             y == [Idle EXCEPT !.op = op, !.svc = s, !.cur = s, !.stage = first, !.pc = pc]
  <2>1. call' = [call EXCEPT ![c] = y]
    BY <1>5 DEF Begin
  <2>2. /\ first \in Stage /\ pc \in {"services", "send", "devices", "ask"}
        /\ op # "idle" /\ (pc = "services" <=> op = "dial") /\ (pc = "send" <=> op = "remove")
        /\ (pc = "devices" <=> op = "volumes")
        /\ (op \notin {"dial", "remove", "volumes"} => op \in HostOnly)
        /\ (first = "iid" <=> op \in {"dial", "instanceID"})
        /\ (op = "wait" => first = "wait") /\ (first = "devices" <=> op = "volumes")
    BY SMT DEF Op, First, Stage, HostOnly
  <2> HIDE DEF first, pc
  <2>3. y \in Call
    <3> DEFINE y1 == [Idle EXCEPT !.op = op]
               y2 == [y1 EXCEPT !.svc = s]
               y3 == [y2 EXCEPT !.cur = s]
               y4 == [y3 EXCEPT !.stage = first]
    <3>1. Idle \in Call /\ pc \in PC
      BY <2>2 DEF Idle, Call, Stage, PC, AskPC, DialPC
    <3>2. y1 \in Call
      BY <3>1, FieldTyped
    <3>3. y2 \in Call
      BY <3>2, FieldTyped
    <3>4. y3 \in Call
      BY <3>3, FieldTyped
    <3>5. y4 \in Call
      BY <2>2, <3>4, FieldTyped
    <3>6. [y4 EXCEPT !.pc = pc] \in Call
      BY <3>1, <3>5, FieldTyped
    <3>7. y = [y4 EXCEPT !.pc = pc]
      OBVIOUS
    <3> QED BY <3>6, <3>7
  <2>4. /\ y.op = op /\ y.svc = s /\ y.cur = s /\ y.stage = first /\ y.pc = pc
        /\ y.todo = {} /\ y.got = {}
    BY DEF Idle
  <2> HIDE DEF y
  <2>5. /\ call' \in [Client -> Call] /\ \A d \in Client \ {c} : call'[d] = call[d]
        /\ call'[c] = y
    BY <1>1, <2>1, <2>3 DEF Typed
  <2>6. Grows
    BY <1>1, <1>2, <2>5, Steady DEF Typed
  <2>7. \A d \in Client : proc(d)' = proc(d) /\ isController(d)' = isController(d)
    BY <1>2 DEF proc, isController
  <2>8. Ordered(call'[c])
    BY <2>2, <2>4, <2>5 DEF Ordered, AskPC, DialPC
  <2>9. op = "dial" => Dialling(c)'
    BY <1>2, <2>2, <2>4, <2>5, <2>7 DEF Dialling
  <2>10. ~Listing(c)'
    BY <2>2, <2>4, <2>5 DEF Listing
  <2>11. Placed(c)'
    BY <1>2, <1>5, <2>2, <2>4, <2>5, <2>7, <2>8, <2>9, <2>10 DEF Placed
  <2> QED BY <1>2, <1>3, <2>5, <2>6, <2>11, Preserved
<1> QED BY <1>4, <1>5 DEF Begin

\* A process dies, and its caches with it.
LEMMA CrashKeepsCaching ==
  ASSUME Caching, NEW p \in Proc, Crash(p)
  PROVE  Caching'
<1> DEFINE dying == {c \in Client : proc(c) = p}
<1>1. /\ lock' = IF lock \in dying THEN Dead ELSE lock
      /\ call' = [c \in Client |-> IF c \in dying THEN Idle ELSE call[c]]
      /\ dialed' = dialed \ {p}
      /\ sup' = [sup EXCEPT ![p] = [d \in {} |-> "none"]]
      /\ iids' = [iids EXCEPT ![p] = {}]
      /\ UNCHANGED <<setup, bin, panicked>>
  BY DEF Crash
<1>2. /\ \A c \in Client : proc(c) \in Proc /\ proc(c)' = proc(c) /\ isController(c)' = isController(c)
      /\ \A s \in Service : driver(s)' = driver(s) /\ Flag(s)' = Flag(s) /\ kind(s)' = kind(s)
  <2>1. ASSUME NEW c \in Client PROVE proc(c) \in Proc
    BY DEF Caching, Typed, Setup, proc
  <2> QED BY <1>1, <2>1 DEF proc, isController, driver, Flag, kind
<1>3. /\ Idle \in Call /\ Idle.op = "idle" /\ Idle.pc = "idle" /\ Idle.stage = "none"
      /\ Idle.todo = {}
  BY DEF Idle, Call, Stage, PC
<1>4. ASSUME NEW c \in Client
      PROVE  call'[c] = IF proc(c) = p THEN Idle ELSE call[c]
  BY <1>1
<1>5. ASSUME NEW q \in Proc, q # p PROVE sup'[q] = sup[q] /\ iids'[q] = iids[q]
  BY <1>1, <1>5 DEF Caching, Typed
<1>6. DOMAIN sup' = Proc /\ DOMAIN sup'[p] = {} /\ iids'[p] = {} /\ iids' \in [Proc -> SUBSET Service]
  BY <1>1 DEF Caching, Typed
<1>7. call' \in [Client -> Call]
  BY <1>1, <1>3, <1>4 DEF Caching, Typed
<1> HIDE DEF dying
<1>8. Typed'
  <2>1. lock' \in Client \cup {Free, Dead} /\ dialed' \subseteq Proc
    BY <1>1 DEF Caching, Typed
  <2> QED BY <1>1, <1>6, <1>7, <2>1 DEF Caching, Typed
<1>9. Cached'
  <2> SUFFICES ASSUME NEW q \in Proc, NEW d \in DOMAIN sup'[q]
               PROVE  /\ d \in Driver /\ sup'[q][d] \in {"none", "nomount", "all"}
                      /\ ~panicked' => \A s \in Service : driver(s) = d => sup'[q][d] = Flag(s)
    BY <1>2 DEF Cached
  <2>1. q # p /\ sup'[q] = sup[q]
    BY <1>5, <1>6
  <2> QED BY <1>1, <2>1, ZenonT(60) DEF Caching, Cached
<1>10. ASSUME NEW q \in Proc, q # p, NEW s \in Service, Known(q, s) PROVE Known(q, s)'
  BY <1>1, <1>2, <1>5, <1>10 DEF Known
<1>11. Dialled'
  BY <1>1, <1>10 DEF Caching, Dialled, Typed
<1>12. ASSUME NEW c \in Client PROVE Placed(c)'
  <2>1. CASE proc(c) = p
    BY <1>3, <1>4, <2>1 DEF Placed, Ordered, Listing, DialPC, AskPC
  <2>2. CASE proc(c) # p
    <3>1. call'[c] = call[c] /\ Placed(c) /\ proc(c) \in Proc
      BY <1>2, <1>4, <2>2 DEF Caching
    <3>2. ASSUME call[c].op = "dial" PROVE Dialling(c)'
      <4>1. Dialling(c)
        BY <3>1, <3>2 DEF Placed
      <4>2. (\A d \in Client : d # c /\ proc(d) = proc(c) => call[d].op = "idle")'
        BY <1>2, <1>4, <2>2, <4>1 DEF Dialling
      <4>3. ASSUME call[c].pc # "services", NEW s \in Service, s \notin Pending(call'[c])
            PROVE  Known(proc(c), s)'
        <5>1. Known(proc(c), s)
          BY <3>1, <4>1, <4>3 DEF Dialling
        <5> QED BY <1>2, <1>10, <2>2, <3>1, <5>1 DEF Known
      <4>4. (call[c].pc \in {"cached", "lock", "run", "inspect"} =>
              driver(call[c].cur) \in DOMAIN sup[proc(c)])'
        BY <1>1, <1>2, <1>5, <2>2, <3>1, <4>1 DEF Dialling, driver
      <4> QED BY <1>1, <1>2, <3>1, <4>1, <4>2, <4>3, <4>4 DEF Dialling
    <3>3. ASSUME Listing(c)', ~panicked' PROVE Listed(c)'
      <4>1. Listed(c)
        BY <1>1, <1>2, <3>1, <3>3 DEF Placed, Listing
      <4> QED BY <1>2, <3>1, <4>1 DEF Listed, Pending, Allowed
    <3>4. Ordered(call'[c])
      BY <3>1 DEF Placed
    <3> QED BY <1>1, <1>2, <2>2, <3>1, <3>2, <3>3, <3>4 DEF Placed
  <2> QED BY <2>1, <2>2
<1> QED BY <1>8, <1>9, <1>11, <1>12 DEF Caching

\* Nothing else touches it.
LEMMA SameKeepsCaching ==
  ASSUME Caching, UNCHANGED <<setup, bin, lock, dialed, sup, iids, call, panicked>>
  PROVE  Caching'
<1>1. Typed' /\ Dialled'
  BY DEF Caching, Typed, Dialled, Known, driver, kind
<1>2. Cached'
  <2>1. \A s \in Service : driver(s)' = driver(s) /\ Flag(s)' = Flag(s)
    BY DEF driver, Flag, kind
  <2> QED BY <2>1, SMT DEF Caching, Cached
<1>3. ASSUME NEW c \in Client PROVE Placed(c)'
  BY <1>3 DEF Caching, Placed, Ordered, Dialling, Pending, Known, Listing, Listed, Allowed,
                     proc, isController, driver, kind, Flag
<1> QED BY <1>1, <1>2, <1>3 DEF Caching

\* Every step keeps the invariant of the caches.
LEMMA CachingNext == Caching /\ [Next]_vars => Caching'
<1> SUFFICES ASSUME Caching, [Next]_vars PROVE Caching'
  OBVIOUS
<1>1. ASSUME NEW c \in Client, Step(c) PROVE Caching'
  BY <1>1, AskKeepsCaching, EndKeepsCaching, LoopKeepsCaching, DialKeepsCaching DEF Step
<1>2. ASSUME NEW c \in Client, Begin(c, "dial", NoService) PROVE Caching'
  <2>1. "dial" \in Op
    BY DEF Op, First
  <2> QED BY <1>2, <2>1, BeginKeepsCaching
<1>3. ASSUME NEW c \in Client, NEW op \in Op \ {"dial"}, NEW s \in Service, Begin(c, op, s)
      PROVE  Caching'
  BY <1>3, BeginKeepsCaching
<1>4. CASE DeviceAppears
  BY <1>4, SameKeepsCaching DEF DeviceAppears, caches, ghosts
<1>5. ASSUME NEW p \in Proc, Crash(p) PROVE Caching'
  BY <1>5, CrashKeepsCaching
<1>6. CASE UNCHANGED vars
  BY <1>6, SameKeepsCaching DEF vars
<1> QED BY <1>1, <1>2, <1>3, <1>4, <1>5, <1>6 DEF Next

\* Supported and InstanceID: what is cached is what the executor says, and a
\* client that has been dialled knows all of it.
THEOREM CachesAreHonest == Spec => []CachesHonest
<1>1. Caching => CachesHonest
  <2> SUFFICES ASSUME Caching PROVE CachesHonest
    OBVIOUS
  <2>1. TypeOK
    <3>1. \A p \in Proc : DOMAIN sup[p] \subseteq Driver /\ iids[p] \subseteq Service
      BY DEF Caching, Typed, Cached
    <3>2. ASSUME NEW c \in Client PROVE call[c].op \in Op \cup {"idle"}
      <4>1. call[c] \in Call
        BY DEF Caching, Typed
      <4> QED BY <4>1 DEF Call
    <3> QED BY <3>1, <3>2 DEF Caching, Typed, TypeOK
  <2>2. \A p \in Proc : \A d \in DOMAIN sup[p] : \A s \in Service :
          driver(s) = d /\ ~panicked => sup[p][d] = Flag(s)
    BY DEF Caching, Cached
  <2>3. \A p \in dialed \ setup.controller : \A s \in Service : Known(p, s)
    BY DEF Caching, Dialled
  <2> QED BY <2>1, <2>2, <2>3 DEF CachesHonest, Known
<1> QED BY <1>1, CachingInit, CachingNext, PTL DEF Spec

(***************************************************************************)
(* The answers.  What a step tells follows from where it was taken.        *)
(***************************************************************************)
\* Steps that answer without a request to the server.
LEMMA AnswerComplete ==
  ASSUME NEW c \in Client, NEW res, Answer(c, res), res # "sent",
         res # "ok" \/ call[c].op # "wait"
  PROVE  AnswersComplete'
<1>1. told'.res = res /\ told'.op = call[c].op
  BY DEF Answer, Nothing
<1> QED BY <1>1 DEF AnswersComplete

\* Steps that tell nothing.
LEMMA NothingComplete ==
  ASSUME told' = Nothing
  PROVE  AnswersComplete'
<1>1. told'.res = "none" /\ told'.op = "none"
  BY DEF Nothing
<1> QED BY <1>1 DEF AnswersComplete

\* A request has the devices and the instance IDs of its client.
LEMMA SendComplete ==
  ASSUME Caching, NEW c \in Client, Send(c)
  PROVE  AnswersComplete'
<1>1. /\ Placed(c) /\ Ordered(call[c]) /\ call[c].pc = "send" /\ call[c].op # "wait"
      /\ call[c].op \notin {"idle", "dial"} /\ call[c].svc \in Service /\ call[c].todo = {}
      /\ proc(c) \in Proc
  BY DEF Caching, Placed, Ordered, Send, Typed, Setup, proc
<1>2. /\ told'.res = "sent" /\ told'.op = call[c].op /\ told'.svc = call[c].svc
      /\ told'.devs = call[c].got /\ told'.iids = iids[proc(c)] \cap {call[c].svc}
      /\ UNCHANGED <<setup, panicked>>
  BY DEF Send, Nothing, ghosts
<1>3. \A s \in Service : driver(s)' = driver(s) /\ Flag(s)' = Flag(s) /\ kind(s)' = kind(s)
  BY <1>2 DEF driver, Flag, kind
<1>4. ASSUME call[c].op # "remove", ~panicked, setup.controller = {}
      PROVE  /\ \A s \in Service : Allowed(Flag(s), "devices") => driver(s) \in call[c].got
             /\ kind(call[c].svc).iid /\ Flag(call[c].svc) # "none" => call[c].svc \in iids[proc(c)]
  <2>1. ~isController(c) /\ Listing(c)
    BY <1>1, <1>4 DEF isController, Listing
  <2>2. Listed(c) /\ Pending(call[c]) = {}
    BY <1>1, <1>4, <2>1 DEF Placed, Pending, AskPC
  <2>3. proc(c) \in dialed \ setup.controller
    BY <1>1, <2>1 DEF Placed, isController
  <2>4. Known(proc(c), call[c].svc)
    BY <1>1, <2>3 DEF Caching, Dialled
  <2>5. sup[proc(c)][driver(call[c].svc)] = Flag(call[c].svc)
    BY <1>1, <1>4, <2>4 DEF Known, Caching, Cached
  <2> QED BY <1>4, <2>2, <2>4, <2>5 DEF Listed, Known
<1>5. told'.svc \in Service /\ driver(told.svc)' = driver(call[c].svc)
      /\ kind(told.svc)' = kind(call[c].svc) /\ Flag(told.svc)' = Flag(call[c].svc)
  BY <1>1, <1>2 DEF driver, Flag, kind
<1> QED BY <1>1, <1>2, <1>3, <1>4, <1>5 DEF AnswersComplete, Allowed

\* The other steps of a goroutine.
LEMMA StepComplete ==
  ASSUME Caching, NEW c \in Client, Step(c)
  PROVE  AnswersComplete'
<1>1. Ordered(call[c]) /\ Typed /\ Cached /\ proc(c) \in Proc
  BY DEF Caching, Placed, Typed, Setup, proc
<1>2. ASSUME call[c].stage # "wait" PROVE call[c].op # "wait"
  BY <1>1, <1>2 DEF Ordered
<1>3. ASSUME NEW flag \in {"none", "nomount", "all"}, Resolve(c, flag) PROVE AnswersComplete'
  <2>1. \/ told' = Nothing
        \/ Answer(c, flag) \/ Answer(c, "unsupported")
    BY <1>3 DEF Resolve, Goto
  <2>2. flag \notin {"sent", "ok"}
    OBVIOUS
  <2> QED BY <2>1, <2>2, AnswerComplete, NothingComplete
<1>4. CASE told' = Nothing
  BY <1>4, NothingComplete
<1>5. CASE \E res \in {"error", "notimplemented", "unsupported", "mounted"} : Answer(c, res)
  BY <1>5, AnswerComplete
<1>6. CASE Answer(c, "ok") /\ call[c].op # "wait"
  BY <1>6, AnswerComplete
<1>7. CASE DevicesBegin(c) \/ Pick(c) \/ lsxMutexWait(c) \/ NextDevice(c) \/ LocalDevices(c)
           \/ DialServices(c) \/ DialExecutors(c) \/ updateExecutor(c) \/ downloadExecutor(c)
  <2>1. CASE DialServices(c)
    <3>1. call[c].op # "wait"
      BY <1>1, <2>1 DEF DialServices, Ordered, DialPC
    <3> QED BY <1>4, <1>5, <1>6, <2>1, <3>1 DEF DialServices
  <2> QED BY <1>4, <1>5, <1>6, <1>7, <2>1 DEF DevicesBegin, Pick, lsxMutexWait, NextDevice,
            LocalDevices, DialExecutors, updateExecutor, downloadExecutor, Goto
<1>8. CASE Supported(c)
  <2>1. CASE driver(call[c].cur) \in DOMAIN sup[proc(c)]
    <3>1. sup[proc(c)][driver(call[c].cur)] \in {"none", "nomount", "all"}
      BY <1>1, <2>1 DEF Cached
    <3> QED BY <1>3, <1>8, <2>1, <3>1 DEF Supported
  <2> QED BY <1>4, <1>8, <2>1 DEF Supported, Goto
<1>9. CASE SupportedRuns(c)
  <2>1. call[c].cur \in Service
    BY <1>1, <1>9 DEF SupportedRuns, Ordered, AskPC
  <2>2. Flag(call[c].cur) \in {"none", "nomount", "all"}
    BY <1>1, <2>1 DEF Typed, Setup, Kind, Flag, kind, driver
  <2> QED BY <1>3, <1>9, <2>2 DEF SupportedRuns
<1>10. CASE SupportedFails(c)
  BY <1>3, <1>5, <1>10 DEF SupportedFails
<1>11. CASE CommandFails(c)
  BY <1>4, <1>5, <1>11 DEF CommandFails, Goto
<1>12. CASE InstanceIDCached(c) \/ InstanceID(c) \/ InstanceInspect(c)
  <2>1. call[c].op # "wait"
    BY <1>1, <1>12 DEF InstanceIDCached, InstanceID, InstanceInspect, Runs, Ordered
  <2> QED BY <1>4, <1>5, <1>6, <1>12, <2>1 DEF InstanceIDCached, InstanceID, InstanceInspect,
            GotInstanceID, Goto
<1>13. CASE MountDevice(c) \/ UnmountDevice(c) \/ Mounts(c)
  <2>1. call[c].op # "wait"
    BY <1>1, <1>13 DEF MountDevice, UnmountDevice, Mounts, Runs, Ordered
  <2> QED BY <1>5, <1>6, <1>13, <2>1 DEF MountDevice, UnmountDevice, Mounts
<1>14. CASE WaitTick(c)
  <2>1. CASE present
    <3>1. told'.res = "ok" /\ present' = present
      <4>1. /\ told' = [Nothing EXCEPT !.op = "wait", !.svc = call[c].svc, !.res = "ok",
                                       !.found = TRUE, !.matched = FALSE]
            /\ present' = present
        BY <1>14, <2>1 DEF WaitTick, host
      <4> QED BY <4>1 DEF Nothing
    <3> QED BY <2>1, <3>1 DEF AnswersComplete
  <2> QED BY <1>4, <1>14, <2>1 DEF WaitTick
<1>15. CASE WaitTimeout(c)
  BY <1>5, <1>15 DEF WaitTimeout
<1>16. CASE Send(c)
  BY <1>16, SendComplete
<1> QED BY <1>7, <1>8, <1>9, <1>10, <1>11, <1>12, <1>13, <1>14, <1>15, <1>16 DEF Step

\* withAllLocalDevices, withInstanceID and WaitForDevice: a request carries
\* what the executors of the client can tell, and a wait that returns without an
\* error has seen the device.
THEOREM AnswersAreComplete == Spec => []AnswersComplete
<1>1. Init => AnswersComplete
  BY SMT DEF Init, Nothing, AnswersComplete
<1>2. Caching /\ AnswersComplete /\ [Next]_vars => AnswersComplete'
  <2> SUFFICES ASSUME Caching, AnswersComplete, [Next]_vars PROVE AnswersComplete'
    OBVIOUS
  <2>1. ASSUME NEW c \in Client, Step(c) PROVE AnswersComplete'
    BY <2>1, StepComplete
  <2>2. ASSUME NEW c \in Client, NEW op, NEW s, Begin(c, op, s) PROVE AnswersComplete'
    <3>1. CASE told' = Nothing
      BY <3>1, NothingComplete
    <3>2. CASE told' = [Nothing EXCEPT !.op = op, !.svc = s, !.res = "unsupported"]
      <4>1. told'.res = "unsupported"
        BY <3>2 DEF Nothing
      <4> QED BY <4>1 DEF AnswersComplete
    <3> QED BY <2>2, <3>1, <3>2 DEF Begin
  <2>3. CASE DeviceAppears \/ \E p \in Proc : Crash(p)
    BY <2>3, NothingComplete DEF DeviceAppears, Crash
  <2>4. CASE UNCHANGED vars
    BY <2>4 DEF vars, AnswersComplete, Allowed, Flag, kind, driver
  <2> QED BY <2>1, <2>2, <2>3, <2>4 DEF Next
<1> QED BY <1>1, <1>2, CachingInit, CachingNext, PTL DEF Spec
=============================================================================
