-------------------------- MODULE ExecutorClient --------------------------
(***************************************************************************)
(* The libStorage client driver (drivers/storage/libstorage) and the       *)
(* executor it runs on the host (cli/lsx).  Clients are goroutines of      *)
(* processes; all processes of a host share one executor binary and one    *)
(* lock file.  A client dials once: it reads the services, brings the      *)
(* binary up to date and fills its caches.  Afterwards it runs the         *)
(* executor for itself and for the headers of its requests to the server.  *)
(***************************************************************************)
EXTENDS Naturals

CONSTANTS
  Client,      \* goroutines
  Proc,        \* processes
  Service,     \* services of the server
  Driver,      \* drivers of those services
  Setups,      \* the hosts to explore, see Setup
  MaxCalls,    \* calls made in a behaviour, dialling included
  MaxEvents    \* failures and crashes

VARIABLES
  setup,      \* the host, fixed
  bin,        \* the executor file
  lock,       \* who made the lock file
  present,    \* the device somebody waits for is there
  mounted,    \* the executor has mounted its volume
  dialed,     \* processes whose client has been initialised
  sup,        \* supportedCache, per process a partial function of drivers
  iids,       \* instanceIDCache, per process the services in it
  call,       \* the call each goroutine is in
  told,       \* the answer given, or the request sent, by the last step
  broken,     \* ghost: a download failed or was cut short
  panicked,   \* ghost: the executor died with the exit code of a panic
  left, events

vars == <<setup, bin, lock, present, mounted, dialed, sup, iids, call, told,
          broken, panicked, left, events>>
host == <<present, mounted>>
caches == <<sup, iids>>
ghosts == <<broken, panicked>>
bounds == <<left, events>>

Free == "free"
Dead == "dead"          \* the lock file of a process that is gone
NoService == "none"

ASSUME ClientAssumption == Free \notin Client

\* What an executor says it supports: nothing, all but mounting, or all;
\* "silent" has no Supported method.
Kind == [flag : {"none", "nomount", "all", "silent"},
         iid : BOOLEAN,     \* it knows the instance ID
         meta : BOOLEAN]    \* the server has to complete the instance ID
Setup == [proc : [Client -> Proc], driver : [Service -> Driver],
          kind : [Driver -> Kind], controller : SUBSET Proc,
          download : SUBSET Proc]

ASSUME SetupsAssumption == Setups \subseteq Setup

proc(c) == setup.proc[c]
driver(s) == setup.driver[s]
kind(s) == setup.kind[driver(s)]
isController(c) == proc(c) \in setup.controller

\* The stages of a call; a stage is a command of the executor or the request
\* to the server.
First == [supported |-> "supported", instanceID |-> "iid", wait |-> "wait",
          mount |-> "mount", umount |-> "umount", mounts |-> "mounts",
          attach |-> "next", volumes |-> "devices", remove |-> "send",
          dial |-> "iid"]
Op == DOMAIN First
HostOnly == {"supported", "instanceID", "wait", "mount", "umount", "mounts",
             "attach"}

Idle == [op |-> "idle", svc |-> NoService, cur |-> NoService,
         stage |-> "none", pc |-> "idle", todo |-> {}, got |-> {},
         polled |-> FALSE]
Nothing == [op |-> "none", svc |-> NoService, res |-> "none",
            found |-> FALSE, matched |-> FALSE, iids |-> {}, devs |-> {}]

Answer(c, res) ==
  /\ call' = [call EXCEPT ![c] = Idle]
  /\ told' = [Nothing EXCEPT !.op = call[c].op, !.svc = call[c].svc,
                !.res = res]
Goto(c, pc) ==
  /\ call' = [call EXCEPT ![c].pc = pc]
  /\ told' = Nothing

----------------------------------------------------------------------------
(* Calls *)

\* A process is dialled by one goroutine; the others use it afterwards.
\* A controller client has no executor.
Begin(c, op, s) ==
  /\ call[c].op = "idle" /\ left > 0
  /\ left' = left - 1
  /\ IF op = "dial"
       THEN /\ proc(c) \notin dialed
            /\ \A d \in Client : proc(d) = proc(c) => call[d].op = "idle"
       ELSE proc(c) \in dialed
  /\ IF isController(c) /\ op \in HostOnly
       THEN /\ told' = [Nothing EXCEPT !.op = op, !.svc = s,
                          !.res = "unsupported"]
            /\ UNCHANGED call
       ELSE /\ call' = [call EXCEPT ![c] = [Idle EXCEPT !.op = op, !.svc = s,
                 !.cur = s, !.stage = First[op],
                 !.pc = IF op = "dial" THEN "services"
                        ELSE IF op = "remove" THEN "send"
                        ELSE IF op = "volumes" THEN "devices" ELSE "ask"]]
            /\ told' = Nothing
  /\ UNCHANGED <<setup, bin, lock, host, dialed, caches, ghosts, events>>

\* withAllLocalDevices: the devices of every service, none for a controller.
DevicesBegin(c) ==
  /\ call[c].pc = "devices"
  /\ call' = IF isController(c)
               THEN [call EXCEPT ![c].stage = "send", ![c].pc = "send"]
               ELSE [call EXCEPT ![c].stage = "devices", ![c].pc = "pick",
                                 ![c].todo = Service]
  /\ told' = Nothing
  /\ UNCHANGED <<setup, bin, lock, host, dialed, caches, ghosts, bounds>>

\* The loops over the services: that of dial and that of
\* withAllLocalDevices, which asks each driver once.
Pick(c) ==
  /\ call[c].pc = "pick"
  /\ IF call[c].todo = {}
       THEN IF call[c].op = "dial"
              THEN /\ Answer(c, "ok")
                   /\ dialed' = dialed \cup {proc(c)}
              ELSE /\ call' = [call EXCEPT ![c].stage = "send",
                                           ![c].pc = "send"]
                   /\ told' = Nothing
                   /\ UNCHANGED dialed
       ELSE /\ \E s \in call[c].todo :
                 call' = [call EXCEPT ![c].todo = @ \ {s}, ![c].cur = s,
                   ![c].pc = IF driver(s) \in call[c].got
                               THEN "pick" ELSE "ask"]
            /\ told' = Nothing
            /\ UNCHANGED dialed
  /\ UNCHANGED <<setup, bin, lock, host, caches, ghosts, bounds>>

Allowed(flag, stage) ==
  \/ flag = "all"
  \/ flag = "nomount" /\ stage \notin {"mount", "umount", "mounts"}

\* The rest of a call once Supported has answered: the stage is run if the
\* flag has its bit, otherwise the loops go on and the other calls fail.
Resolve(c, flag) ==
  LET stage == call[c].stage
  IN  IF stage = "supported" THEN Answer(c, flag)
      ELSE IF Allowed(flag, stage)
      THEN Goto(c, IF stage = "iid" THEN "cached" ELSE "lock")
      ELSE IF call[c].op = "dial" \/ stage = "devices" THEN Goto(c, "pick")
      ELSE Answer(c, "unsupported")

\* Supported: the cache first.
Supported(c) ==
  LET d == driver(call[c].cur)
  IN  /\ call[c].pc = "ask"
      /\ IF d \in DOMAIN sup[proc(c)]
           THEN Resolve(c, sup[proc(c)][d])
           ELSE Goto(c, "suplock")
      /\ UNCHANGED <<setup, bin, lock, host, dialed, caches, ghosts, bounds>>

\* Mutant: an existing lock file is opened like a new one.
lsxMutexWaitShared(c) ==
  /\ call[c].pc \in {"suplock", "lock", "uplock"}
  /\ lock' = c
  /\ Goto(c, IF call[c].pc = "suplock" THEN "suprun"
             ELSE IF call[c].pc = "lock" THEN "run" ELSE "check")
  /\ UNCHANGED <<setup, bin, host, dialed, caches, ghosts, bounds>>

\* lsxMutexWait makes the lock file, and tries for ever if there is one.
lsxMutexWait(c) ==
  /\ call[c].pc \in {"suplock", "lock", "uplock"}
  /\ lock = Free
  /\ lock' = c
  /\ Goto(c, IF call[c].pc = "suplock" THEN "suprun"
             ELSE IF call[c].pc = "lock" THEN "run" ELSE "check")
  /\ UNCHANGED <<setup, bin, host, dialed, caches, ghosts, bounds>>

\* lsxMutexSignal, deferred by whoever holds the lock.
lsxMutexSignal == lock' = Free

\* The executor's exit code 2, which a panic of the Go runtime has as well,
\* reads as "not implemented".
Panics ==
  /\ events > 0
  /\ events' = events - 1
  /\ panicked' = TRUE
Fails ==
  /\ events > 0
  /\ events' = events - 1

Cache(c, d, flag) ==
  sup' = [sup EXCEPT ![proc(c)] =
            [x \in DOMAIN @ \cup {d} |-> IF x = d THEN flag ELSE @[x]]]

\* The flag the command prints; without the method it is "not implemented".
Flag(s) == IF kind(s).flag = "silent" THEN "nomount" ELSE kind(s).flag

\* The executor ran the supported command: its answer is cached, and so is
\* the default for one that is not implemented.
SupportedRuns(c) ==
  LET s == call[c].cur
  IN  /\ call[c].pc = "suprun"
      /\ bin # "partial"
      /\ lsxMutexSignal
      /\ \/ /\ Cache(c, driver(s), Flag(s)) /\ Resolve(c, Flag(s))
            /\ UNCHANGED <<events, ghosts>>
         \/ /\ Cache(c, driver(s), "nomount") /\ Resolve(c, "nomount")
            /\ Panics /\ UNCHANGED broken
      /\ UNCHANGED <<setup, bin, host, dialed, iids, left>>

\* Mutant: a failure is cached as "not supported".
SupportedFailsCached(c) ==
  /\ call[c].pc = "suprun"
  /\ lsxMutexSignal
  /\ IF bin = "partial" THEN UNCHANGED events ELSE Fails
  /\ Cache(c, driver(call[c].cur), "none")
  /\ Resolve(c, "none")
  /\ UNCHANGED <<setup, bin, host, dialed, iids, ghosts, left>>

\* It could not be run, or failed: nothing is cached.  Only Supported itself
\* and dial report the error; to the others it means "not supported".
SupportedFails(c) ==
  /\ call[c].pc = "suprun"
  /\ lsxMutexSignal
  /\ IF bin = "partial" THEN UNCHANGED events ELSE Fails
  /\ IF call[c].op \in {"supported", "dial"}
       THEN Answer(c, "error") ELSE Resolve(c, "none")
  /\ UNCHANGED <<setup, bin, host, dialed, caches, ghosts, left>>

----------------------------------------------------------------------------
(* The commands of the executor *)

Runs(c, stage) ==
  call[c].pc = "run" /\ call[c].stage = stage /\ bin # "partial"

\* A command that fails ends the call; one that is not implemented (or
\* panics) ends it too, but not the loops over the services.
CommandFails(c) ==
  /\ call[c].pc = "run"
  /\ lsxMutexSignal
  /\ \/ bin = "partial" /\ UNCHANGED <<events, panicked>> /\ Answer(c, "error")
     \/ bin # "partial" /\ Fails /\ UNCHANGED panicked /\ Answer(c, "error")
     \/ /\ bin # "partial" /\ Panics
        /\ IF call[c].op = "dial" \/ call[c].stage = "devices"
             THEN Goto(c, "pick") ELSE Answer(c, "notimplemented")
  /\ UNCHANGED <<setup, bin, host, dialed, caches, broken, left>>

\* InstanceID: the cache is asked before the executor.
InstanceIDCached(c) ==
  /\ call[c].pc = "cached"
  /\ IF call[c].cur \in iids[proc(c)]
       THEN IF call[c].op = "dial" THEN Goto(c, "pick") ELSE Answer(c, "ok")
       ELSE Goto(c, "lock")
  /\ UNCHANGED <<setup, bin, lock, host, dialed, caches, ghosts, bounds>>

GotInstanceID(c) ==
  /\ iids' = [iids EXCEPT ![proc(c)] = @ \cup {call[c].cur}]
  /\ IF call[c].op = "dial" THEN Goto(c, "pick") ELSE Answer(c, "ok")

InstanceID(c) ==
  LET k == kind(call[c].cur)
  IN  /\ Runs(c, "iid")
      /\ lsxMutexSignal
      /\ IF ~k.iid
           THEN /\ IF call[c].op = "dial"
                     THEN Goto(c, "pick") ELSE Answer(c, "notimplemented")
                /\ UNCHANGED iids
           ELSE IF k.meta
           THEN Goto(c, "inspect") /\ UNCHANGED iids
           ELSE GotInstanceID(c)
      /\ UNCHANGED <<setup, bin, host, dialed, sup, ghosts, bounds>>

\* An instance ID with metadata is completed by the server.
InstanceInspect(c) ==
  /\ call[c].pc = "inspect"
  /\ \/ GotInstanceID(c) /\ UNCHANGED events
     \/ Fails /\ Answer(c, "error") /\ UNCHANGED iids
  /\ UNCHANGED <<setup, bin, lock, host, dialed, sup, ghosts, left>>

NextDevice(c) ==
  /\ Runs(c, "next")
  /\ lsxMutexSignal
  /\ Goto(c, "devices")
  /\ UNCHANGED <<setup, bin, host, dialed, caches, ghosts, bounds>>

\* Mutant: the loop ends with the first driver that has devices.
LocalDevicesFirst(c) ==
  /\ Runs(c, "devices")
  /\ lsxMutexSignal
  /\ call' = [call EXCEPT ![c].pc = "pick", ![c].todo = {},
                          ![c].got = @ \cup {driver(call[c].cur)}]
  /\ told' = Nothing
  /\ UNCHANGED <<setup, bin, host, dialed, caches, ghosts, bounds>>

LocalDevices(c) ==
  /\ Runs(c, "devices")
  /\ lsxMutexSignal
  /\ call' = [call EXCEPT ![c].pc = "pick",
                          ![c].got = @ \cup {driver(call[c].cur)}]
  /\ told' = Nothing
  /\ UNCHANGED <<setup, bin, host, dialed, caches, ghosts, bounds>>

\* Mount, Unmount and Mounts of an executor that does it itself.
MountDevice(c) ==
  /\ Runs(c, "mount")
  /\ lsxMutexSignal
  /\ mounted' = TRUE
  /\ Answer(c, "ok")
  /\ UNCHANGED <<setup, bin, present, dialed, caches, ghosts, bounds>>

UnmountDevice(c) ==
  /\ Runs(c, "umount")
  /\ lsxMutexSignal
  /\ mounted' = FALSE
  /\ Answer(c, "ok")
  /\ UNCHANGED <<setup, bin, present, dialed, caches, ghosts, bounds>>

Mounts(c) ==
  /\ Runs(c, "mounts")
  /\ lsxMutexSignal
  /\ Answer(c, IF mounted THEN "mounted" ELSE "ok")
  /\ UNCHANGED <<setup, bin, host, dialed, caches, ghosts, bounds>>

\* The wait command looks for the device twice a second, with the lock held.
WaitTick(c) ==
  /\ Runs(c, "wait")
  /\ IF present
       THEN /\ lsxMutexSignal
            /\ call' = [call EXCEPT ![c] = Idle]
            /\ told' = [Nothing EXCEPT !.op = "wait", !.svc = call[c].svc,
                          !.res = "ok", !.found = TRUE, !.matched = FALSE]
       ELSE /\ call' = [call EXCEPT ![c].polled = TRUE]
            /\ told' = Nothing
            /\ UNCHANGED lock
  /\ UNCHANGED <<setup, bin, host, dialed, caches, ghosts, bounds>>

\* Mutant: every look starts the timer anew.
WaitTimeoutRearmed(c) ==
  /\ Runs(c, "wait") /\ ~call[c].polled
  /\ lsxMutexSignal
  /\ Answer(c, "notimplemented")
  /\ UNCHANGED <<setup, bin, host, dialed, caches, ghosts, bounds>>

\* Its time is up: it exits with the code for that, and WaitForDevice fails
\* to decode the output it did not get.  Before the first look there is no
\* result to print, and the executor panics.
WaitTimeout(c) ==
  /\ Runs(c, "wait")
  /\ lsxMutexSignal
  /\ Answer(c, IF call[c].polled THEN "error" ELSE "notimplemented")
  /\ UNCHANGED <<setup, bin, host, dialed, caches, ghosts, bounds>>

\* The request to the server, with the instance IDs and devices in its
\* headers.
Send(c) ==
  /\ call[c].pc = "send"
  /\ call' = [call EXCEPT ![c] = Idle]
  /\ told' = [Nothing EXCEPT !.op = call[c].op, !.svc = call[c].svc,
                !.res = "sent", !.devs = call[c].got,
                !.iids = iids[proc(c)] \cap {call[c].svc}]
  /\ UNCHANGED <<setup, bin, lock, host, dialed, caches, ghosts, bounds>>

----------------------------------------------------------------------------
(* dial *)

DialServices(c) ==
  /\ call[c].pc = "services"
  /\ \/ /\ IF isController(c)
             THEN /\ Answer(c, "ok")
                  /\ dialed' = dialed \cup {proc(c)}
             ELSE /\ call' = [call EXCEPT ![c].todo = Service,
                       ![c].pc = IF proc(c) \in setup.download
                                   THEN "executors"
                                   ELSE "pick"]
                  /\ told' = Nothing
                  /\ UNCHANGED dialed
        /\ UNCHANGED events
     \/ Fails /\ Answer(c, "error") /\ UNCHANGED dialed
  /\ UNCHANGED <<setup, bin, lock, host, caches, ghosts, left>>

DialExecutors(c) ==
  /\ call[c].pc = "executors"
  /\ \/ Goto(c, "uplock") /\ UNCHANGED events
     \/ Fails /\ Answer(c, "error")
  /\ UNCHANGED <<setup, bin, lock, host, dialed, caches, ghosts, left>>

\* Mutant: the lock is given back before the download.
updateExecutorUnlocks(c) ==
  /\ call[c].pc = "check"
  /\ lsxMutexSignal
  /\ IF bin = "good"
       THEN Goto(c, "pick") /\ UNCHANGED bin
       ELSE bin' = "partial" /\ Goto(c, "fetch")
  /\ UNCHANGED <<setup, host, dialed, caches, ghosts, bounds>>

\* updateExecutor, under the lock: a binary with the server's checksum is
\* kept, any other is opened for writing, which empties it.
updateExecutor(c) ==
  /\ call[c].pc = "check"
  /\ IF bin = "good"
       THEN lsxMutexSignal /\ Goto(c, "pick") /\ UNCHANGED bin
       ELSE bin' = "partial" /\ Goto(c, "fetch") /\ UNCHANGED lock
  /\ UNCHANGED <<setup, host, dialed, caches, ghosts, bounds>>

\* downloadExecutor: a failure leaves what has been written.
downloadExecutor(c) ==
  /\ call[c].pc = "fetch"
  /\ lsxMutexSignal
  /\ \/ bin' = "good" /\ Goto(c, "pick") /\ UNCHANGED <<broken, events>>
     \/ Fails /\ broken' = TRUE /\ Answer(c, "error") /\ UNCHANGED bin
  /\ UNCHANGED <<setup, host, dialed, caches, panicked, left>>

----------------------------------------------------------------------------
(* The surroundings *)

DeviceAppears ==
  /\ ~present
  /\ present' = TRUE
  /\ told' = Nothing
  /\ UNCHANGED <<setup, bin, lock, mounted, dialed, caches, call, ghosts,
                 bounds>>

\* A process dies; its lock file stays.
Crash(p) ==
  LET dying == {c \in Client : proc(c) = p}
  IN  /\ Fails
      /\ \E c \in dying : call[c].op # "idle"
      /\ lock' = IF lock \in dying THEN Dead ELSE lock
      /\ broken' = (broken \/ bin = "partial")
      /\ call' = [c \in Client |-> IF c \in dying THEN Idle ELSE call[c]]
      /\ dialed' = dialed \ {p}
      /\ sup' = [sup EXCEPT ![p] = [d \in {} |-> "none"]]
      /\ iids' = [iids EXCEPT ![p] = {}]
      /\ told' = Nothing
      /\ UNCHANGED <<setup, bin, host, panicked, left>>

----------------------------------------------------------------------------
Init ==
  /\ setup \in Setups
  /\ bin \in IF setup.download = Proc THEN {"absent", "old"} ELSE {"old"}
  /\ lock = Free
  /\ present = FALSE /\ mounted = FALSE
  /\ dialed = {}
  /\ sup = [p \in Proc |-> [d \in {} |-> "none"]]
  /\ iids = [p \in Proc |-> {}]
  /\ call = [c \in Client |-> Idle]
  /\ told = Nothing
  /\ broken = FALSE /\ panicked = FALSE
  /\ left = MaxCalls /\ events = MaxEvents

Step(c) ==
  \/ DevicesBegin(c) \/ Pick(c) \/ Supported(c)
  \/ lsxMutexWait(c) \/ SupportedRuns(c) \/ SupportedFails(c)
  \/ CommandFails(c) \/ InstanceIDCached(c) \/ InstanceID(c)
  \/ InstanceInspect(c) \/ NextDevice(c) \/ LocalDevices(c)
  \/ MountDevice(c) \/ UnmountDevice(c) \/ Mounts(c)
  \/ WaitTick(c) \/ WaitTimeout(c) \/ Send(c)
  \/ DialServices(c) \/ DialExecutors(c)
  \/ updateExecutor(c) \/ downloadExecutor(c)

Next ==
  \/ \E c \in Client : \/ Step(c)
                       \/ Begin(c, "dial", NoService)
                       \/ \E op \in Op \ {"dial"}, s \in Service :
                            Begin(c, op, s)
  \/ DeviceAppears
  \/ \E p \in Proc : Crash(p)

Spec == Init /\ [][Next]_vars

\* A goroutine runs on by itself, without a failure to help it; the lock is polled,
\* and since calls are bounded it is free for good between two of them.
FairSpec == Spec /\ \A c \in Client : WF_vars(Step(c) /\ events' = events)

----------------------------------------------------------------------------
(* Properties *)

TypeOK ==
  /\ setup \in Setup
  /\ bin \in {"absent", "old", "good", "partial"}
  /\ lock \in Client \cup {Free, Dead}
  /\ dialed \subseteq Proc
  /\ \A p \in Proc : /\ DOMAIN sup[p] \subseteq Driver
                     /\ iids[p] \subseteq Service
  /\ \A c \in Client : call[c].op \in Op \cup {"idle"}

\* A goroutine runs the executor, or reads or writes its binary.
Running(c) == call[c].pc \in {"suprun", "run", "check", "fetch"}

\* No two executors run at a time on a host, and none while another process
\* writes the binary.
OneExecutor ==
  \A c, d \in Client : Running(c) /\ Running(d) => c = d

\* Whoever gets the lock finds a whole binary, unless a download has failed
\* or its process has died.
BinaryWhole == lock = Free /\ bin = "partial" => broken

\* What is cached is what the executor says: a failure to run it is never
\* taken for an answer.  A client whose initialisation succeeded knows what the
\* executor of every service supports and has the instance ID of every service
\* whose executor can tell.  The variables have their types.
CachesHonest ==
  /\ TypeOK
  /\ \A p \in Proc : \A d \in DOMAIN sup[p] : \A s \in Service :
       driver(s) = d /\ ~panicked => sup[p][d] = Flag(s)
  /\ \A p \in dialed \ setup.controller : \A s \in Service :
       /\ driver(s) \in DOMAIN sup[p]
       /\ sup[p][driver(s)] # "none" /\ kind(s).iid /\ ~panicked => s \in iids[p]

\* A request of a dialled client carries the instance ID of its service and
\* the devices of every driver that can list them: the volumes it asks for
\* are matched with nothing less.  WaitForDevice returns without an error only
\* if the device is there.
AnswersComplete ==
  /\ told.res = "sent" /\ told.op # "remove" /\ ~panicked /\ setup.controller = {}
       => /\ \A s \in Service : Allowed(Flag(s), "devices") => driver(s) \in told.devs
          /\ kind(told.svc).iid /\ Flag(told.svc) # "none" => told.svc \in told.iids
  /\ told.op = "wait" /\ told.res = "ok" => present

\* Every call ends, unless a process died with the lock.
CallsEnd ==
  \A c \in Client :
    call[c].op # "idle" ~> (call[c].op = "idle" \/ lock = Dead)

\* The interface (api/types/types_drivers_executor.go) on WaitForDevice: "a
\* boolean flag indicating whether or not a match was discovered".
WaitReportsMatch == told.op = "wait" /\ told.found => told.matched

=============================================================================
