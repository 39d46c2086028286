---------------------------- MODULE Integration ----------------------------
(***************************************************************************)
(* The client host: the integration driver manager, which counts the       *)
(* mounts of every volume (api/registry/registry_integration.go), the      *)
(* Linux integration driver below it, which attaches, formats and mounts   *)
(* (drivers/integration/linux), and the Linux OS driver at the bottom      *)
(* (drivers/os/linux).  Requests are goroutines of one process; every call *)
(* to the server, every command of the operating system and every critical *)
(* section of the counters is a step, so requests interleave in between.   *)
(* The volumes live on a server that another host uses too.                *)
(***************************************************************************)
EXTENDS Integers

CONSTANTS
  Vol,          \* volume names
  Caller,       \* the goroutines that serve requests
  Configs,      \* the configurations to explore, see Config
  MaxRequests,  \* requests made in a behaviour
  MaxEvents     \* failures of the server or of a command, attachments made
                \* by the other host and restarts of this process together

VARIABLES
  config,     \* the settings of this process
  vol,        \* the volumes: made, att(ached to), dev(ice here), fs, data
  mnt,        \* how many times the volume's device is mounted on its path
  lost,       \* the device under the mount went away
  used,       \* idm.used
  call,       \* the request each goroutine serves
  told,       \* the answer given by the last step
  users,      \* ghost: mounts granted minus unmounts asked for
  disturbed,  \* ghost: volumes for which the simple story does not hold
  failed,     \* ghost: the server or a command has failed
  left, events

vars == <<config, vol, mnt, lost, used, call, told, users, disturbed,
          failed, left, events>>
disk == <<vol, mnt, lost>>
env == <<config, failed, events>>

\* preempt, ignoreUsed and cache are volume operation settings of the
\* integration driver manager, implicit is that of the Linux driver.
Config == [preempt : BOOLEAN, ignoreUsed : BOOLEAN, cache : BOOLEAN,
           implicit : BOOLEAN, create : BOOLEAN, remove : BOOLEAN]

NoCounts == [k \in {} |-> 0]
NoVol == "none"
Anon == "unnamed"         \* the key of a request that gives an ID, no name
Keys == Vol \cup {Anon}

\* Placeholders are not names of volumes, and the configurations are settings.
ASSUME IntegrationAssumption ==
  Anon \notin Vol /\ NoVol \notin Vol /\ Configs \subseteq Config

Op == {"mount", "unmount", "path", "list", "create", "remove"}
Idle == [op |-> "idle", vol |-> NoVol, key |-> Anon, pc |-> "idle",
         todo |-> 0, over |-> FALSE, seen |-> {}]
Nothing == [op |-> "none", vol |-> NoVol, res |-> "none"]

FreshVolume == [made |-> TRUE, att |-> "none", dev |-> FALSE,
                fs |-> FALSE, data |-> FALSE]
NoVolume == [FreshVolume EXCEPT !.made = FALSE]

Busy(v) == {c \in Caller : call[c].op # "idle"
                             /\ (call[c].vol = v \/ call[c].op = "list")}
Answer(c, res) ==
  /\ call' = [call EXCEPT ![c] = Idle]
  /\ told' = [op |-> call[c].op, vol |-> call[c].vol, res |-> res]
Goto(c, pc) ==
  /\ call' = [call EXCEPT ![c].pc = pc]
  /\ told' = Nothing

\* A call to the server or a command fails, and the handler returns its
\* error at once; nothing that was done before is undone.
Fault(c) ==
  /\ events > 0
  /\ events' = events - 1
  /\ failed' = TRUE
  /\ Answer(c, "error")
  /\ UNCHANGED <<config, disk, used, users, disturbed, left>>

----------------------------------------------------------------------------
(* Requests *)

\* A request starts.  Two that change one volume at a time disturb it, and
\* so does a request by ID, which is counted under the empty name.
Begin(c, op, v, byID, over) ==
  /\ call[c].op = "idle"
  /\ left > 0
  /\ op \in {"path", "create", "remove"} => ~byID
  /\ over => op = "mount" /\ ~byID
  /\ op = "list" => ~byID /\ config.cache
  /\ left' = left - 1
  /\ call' = [call EXCEPT ![c] = [Idle EXCEPT !.op = op,
                !.vol = v, !.key = IF byID THEN Anon ELSE v,
                !.pc = op, !.over = over]]
  /\ told' = Nothing
  /\ disturbed' = disturbed \cup
       {w \in Vol : /\ w = v \/ op = "list"
                    /\ \/ byID
                       \/ /\ op # "path"
                          /\ \E d \in Busy(w) : call[d].op # "path"}
  /\ users' = IF op = "unmount" /\ users[v] > 0
                THEN [users EXCEPT ![v] = @ - 1] ELSE users
  /\ UNCHANGED <<env, disk, used>>

\* idm.initCount, resetCount, addCount: each is one critical section.
Set(k, n) ==
  used' = [x \in DOMAIN used \cup {k} |-> IF x = k THEN n ELSE used[x]]
isCounted(k) == k \in DOMAIN used
initCount(k) == Set(k, 0)
\* Mutant: the limit is one too low.
resetsAtZero(k) == isCounted(k) /\ used[k] < 1
resets(k) == isCounted(k) /\ used[k] < 2
\* Mutant: the first mount is not counted.
addCountFromZero(k, delta) ==
  Set(k, IF isCounted(k) THEN used[k] + delta ELSE 0)
addCount(k, delta) == Set(k, IF isCounted(k) THEN used[k] + delta ELSE 1)
incCount(k) == addCount(k, 1)
decCount(k) == addCount(k, -1)

\* The server shows a volume as attached here, or as one this host may take:
\* by default only a free one, with preemption any.
Free(v) ==
  /\ vol[v].made
  /\ \/ vol[v].att = "none"
     \/ config.preempt /\ vol[v].att = "other"
Here(v) == vol[v].made /\ vol[v].att = "me"

\* driver.Mount: find the volume; one that does not exist is created when
\* the configuration says so and the request names it, one attached here
\* whose device has no name is an error.
MountInspect(c) ==
  LET v == call[c].vol
  IN  /\ call[c].pc = "mount"
      /\ \/ Here(v) /\ vol[v].dev /\ Goto(c, "local")
         \/ Here(v) /\ ~vol[v].dev /\ Answer(c, "error")
         \/ Free(v) /\ Goto(c, "prepare")
         \/ /\ ~vol[v].made /\ config.implicit /\ call[c].key = v
            /\ Goto(c, "implicit")
         \/ /\ ~Here(v) /\ ~Free(v)
            /\ vol[v].made \/ ~config.implicit \/ call[c].key # v
            /\ Answer(c, "error")
      /\ UNCHANGED <<env, disk, used, users, disturbed, left>>

\* The server makes the volume, unless somebody did meanwhile.
MountCreate(c) ==
  LET v == call[c].vol
  IN  /\ call[c].pc = "implicit"
      /\ IF vol[v].made
           THEN /\ Answer(c, "error")
                /\ UNCHANGED vol
           ELSE /\ Goto(c, "prepare")
                /\ vol' = [vol EXCEPT ![v] = FreshVolume]
      /\ UNCHANGED <<env, mnt, lost, used, users, disturbed, left>>

\* os.Unmount takes the topmost mount of the path away; a path that is not
\* mounted is left alone.
Unmounted(v) ==
  /\ mnt' = [mnt EXCEPT ![v] = IF @ > 0 THEN @ - 1 ELSE 0]
  /\ lost' = IF mnt[v] = 1 THEN lost \ {v} ELSE lost

\* The precautionary unmount: whatever is mounted on the path is left over
\* from before; its error is dropped, and the left-over stays.
MountPrecaution(c) ==
  LET v == call[c].vol
  IN  /\ call[c].pc = "prepare"
      /\ Goto(c, "attach")
      /\ \/ /\ Unmounted(v)
            /\ UNCHANGED <<events, failed, disturbed>>
         \/ /\ mnt[v] > 0 /\ events > 0
            /\ events' = events - 1 /\ failed' = TRUE
            /\ disturbed' = disturbed \cup {v}
            /\ UNCHANGED <<mnt, lost>>
      /\ UNCHANGED <<config, vol, used, users, left>>

\* VolumeAttach, forced when the configuration preempts.  A volume attached
\* to the other host is taken from it, one attached here meanwhile is
\* detached and attached anew.  Drivers that give a token make the caller
\* wait for the device.
MountAttach(c) ==
  LET v == call[c].vol
  IN  /\ call[c].pc = "attach"
      /\ IF vol[v].made /\ (vol[v].att = "none" \/ config.preempt)
           THEN /\ Goto(c, "wait") \/ Goto(c, "inspect")
                /\ vol' = [vol EXCEPT ![v].att = "me", ![v].dev = FALSE]
                /\ lost' = IF mnt[v] > 0 THEN lost \cup {v} ELSE lost
           ELSE /\ Answer(c, "error")
                /\ UNCHANGED <<vol, lost>>
      /\ UNCHANGED <<env, mnt, used, users, disturbed, left>>

\* Executor.WaitForDevice: the device shows up, or the wait times out and
\* the request fails with the volume attached.
MountWait(c) ==
  /\ call[c].pc = "wait"
  /\ \/ vol[call[c].vol].dev /\ Goto(c, "inspect")
     \/ ~vol[call[c].vol].dev /\ Answer(c, "error")
  /\ UNCHANGED <<env, disk, used, users, disturbed, left>>

\* The volume is read again: it must be attached here, on a device.
MountInspectAgain(c) ==
  /\ call[c].pc = "inspect"
  /\ IF Here(call[c].vol) /\ vol[call[c].vol].dev
       THEN Goto(c, "local") ELSE Answer(c, "error")
  /\ UNCHANGED <<env, disk, used, users, disturbed, left>>

\* os.Mounts, by device: a mount whose device went away is found if the
\* volume came back under the same device name.
Mounts(v) == {mnt[v]} \cup (IF v \in lost THEN {0} ELSE {})

\* Mutant: an empty list of mounts passes for a mount.
MountLocalAny(c) ==
  /\ call[c].pc = "local"
  /\ \E n \in Mounts(call[c].vol) :
       Goto(c, IF n >= 0 THEN "count" ELSE "probe")
  /\ UNCHANGED <<env, disk, used, users, disturbed, left>>

\* A device that is mounted is not mounted again.
MountLocal(c) ==
  /\ call[c].pc = "local"
  /\ \E n \in Mounts(call[c].vol) :
       Goto(c, IF n > 0 THEN "count" ELSE "probe")
  /\ UNCHANGED <<env, disk, used, users, disturbed, left>>

\* Mutant: a file system is made whenever the device is there.
MountProbeBlind(c) ==
  /\ call[c].pc = "probe"
  /\ Goto(c, IF vol[call[c].vol].dev THEN "mkfs" ELSE "osmount")
  /\ UNCHANGED <<env, disk, used, users, disturbed, left>>

\* os.Format, first half: look for a file system.  A device that is gone is
\* passed over in silence.
MountProbe(c) ==
  LET v == call[c].vol
  IN  /\ call[c].pc = "probe"
      /\ IF vol[v].dev /\ (call[c].over \/ ~vol[v].fs)
           THEN Goto(c, "mkfs") ELSE Goto(c, "osmount")
      /\ UNCHANGED <<env, disk, used, users, disturbed, left>>

\* Second half: mkfs with its force flag, whatever is on the device by now.
MountMkfs(c) ==
  LET v == call[c].vol
  IN  /\ call[c].pc = "mkfs"
      /\ IF vol[v].dev
           THEN /\ Goto(c, "osmount")
                /\ vol' = [vol EXCEPT ![v].fs = TRUE, ![v].data = FALSE]
           ELSE /\ Answer(c, "error")
                /\ UNCHANGED vol
      /\ UNCHANGED <<env, mnt, lost, used, users, disturbed, left>>

\* os.Mount probes the device itself, and takes a path that is mounted for
\* its work done ...
MountCheck(c) ==
  LET v == call[c].vol
  IN  /\ call[c].pc = "osmount"
      /\ IF vol[v].dev /\ vol[v].fs
           THEN Goto(c, IF mnt[v] > 0 THEN "count" ELSE "syscall")
           ELSE Answer(c, "error")
      /\ UNCHANGED <<env, disk, used, users, disturbed, left>>

\* ... before it mounts.
MountMount(c) ==
  LET v == call[c].vol
  IN  /\ call[c].pc = "syscall"
      /\ IF vol[v].dev
           THEN /\ Goto(c, "count")
                /\ mnt' = [mnt EXCEPT ![v] = @ + 1]
           ELSE /\ Answer(c, "error")
                /\ UNCHANGED mnt
      /\ UNCHANGED <<env, vol, lost, used, users, disturbed, left>>

\* idm.Mount: the inner Mount has succeeded; only now is it counted.
MountCount(c) ==
  /\ call[c].pc = "count"
  /\ incCount(call[c].key)
  /\ users' = [users EXCEPT ![call[c].vol] = @ + 1]
  /\ Answer(c, "ok")
  /\ UNCHANGED <<env, disk, disturbed, left>>

----------------------------------------------------------------------------
(* Unmount *)

\* idm.Unmount: the counter is reset when it says that nobody else uses the
\* volume ...
UnmountReset(c) ==
  LET k == call[c].key
  IN  /\ call[c].pc = "unmount"
      /\ IF config.ignoreUsed
           THEN Goto(c, "init") /\ UNCHANGED used
           ELSE IF resets(k)
           THEN Goto(c, "init") /\ initCount(k)
           ELSE Goto(c, "counted") /\ UNCHANGED used
      /\ UNCHANGED <<env, disk, users, disturbed, left>>

\* ... or when it has never been counted; otherwise it is lowered below ...
UnmountCounted(c) ==
  /\ call[c].pc = "counted"
  /\ Goto(c, IF isCounted(call[c].key) THEN "lower" ELSE "init")
  /\ UNCHANGED <<env, disk, used, users, disturbed, left>>

\* ... and the request ends without touching the volume.
UnmountLower(c) ==
  /\ call[c].pc = "lower"
  /\ decCount(call[c].key)
  /\ Answer(c, "ok")
  /\ UNCHANGED <<env, disk, users, disturbed, left>>

UnmountInit(c) ==
  /\ call[c].pc = "init"
  /\ initCount(call[c].key)
  /\ Goto(c, "uinspect")
  /\ UNCHANGED <<env, disk, users, disturbed, left>>

\* driver.Unmount: only a volume attached here is shown; the mounts of its
\* device are listed.
UnmountInspect(c) ==
  LET v == call[c].vol
  IN  /\ call[c].pc = "uinspect"
      /\ IF Here(v) /\ vol[v].dev
           THEN /\ \E n \in Mounts(v) :
                     call' = [call EXCEPT ![c].pc = "umount", ![c].todo = n]
                /\ told' = Nothing
           ELSE Answer(c, "error")
      /\ UNCHANGED <<env, disk, used, users, disturbed, left>>

\* One listed mount is undone.
UnmountOS(c) ==
  /\ call[c].pc = "umount"
  /\ call[c].todo > 0
  /\ Unmounted(call[c].vol)
  /\ call' = [call EXCEPT ![c].todo = @ - 1]
  /\ told' = Nothing
  /\ UNCHANGED <<env, vol, used, users, disturbed, left>>

\* VolumeDetach.
UnmountDetach(c) ==
  LET v == call[c].vol
  IN  /\ call[c].pc = "umount"
      /\ call[c].todo = 0
      /\ IF Here(v)
           THEN /\ vol' = [vol EXCEPT ![v].att = "none", ![v].dev = FALSE]
                /\ lost' = IF mnt[v] > 0 THEN lost \cup {v} ELSE lost
                /\ Answer(c, "ok")
           ELSE /\ Answer(c, "error")
                /\ UNCHANGED <<vol, lost>>
      /\ UNCHANGED <<env, mnt, used, users, disturbed, left>>

----------------------------------------------------------------------------
(* The other operations *)

\* idm.Path: a volume that is not counted is not looked up.
PathCounted(c) ==
  /\ call[c].pc = "path"
  /\ IF config.cache /\ ~isCounted(call[c].key)
       THEN Answer(c, "empty") ELSE Goto(c, "lookup")
  /\ UNCHANGED <<env, disk, used, users, disturbed, left>>

\* driver.Path: the volume must be attached here; the first mount of its
\* device is the answer.
PathLookup(c) ==
  LET v == call[c].vol
  IN  /\ call[c].pc = "lookup"
      /\ Answer(c, IF ~Here(v) THEN "error"
                   ELSE IF mnt[v] > 0 THEN "path" ELSE "empty")
      /\ UNCHANGED <<env, disk, used, users, disturbed, left>>

\* idm.List: some drivers report the mount point of an attachment.
ListVolumes(c) ==
  /\ call[c].pc = "list"
  /\ \E S \in {{}, {v \in Vol : Here(v) /\ mnt[v] > 0}} :
       call' = [call EXCEPT ![c].pc = "cache", ![c].seen = S]
  /\ told' = Nothing
  /\ UNCHANGED <<env, disk, used, users, disturbed, left>>

\* Every volume reported as mounted gets a counter, unless it has one ...
ListCounted(c) ==
  /\ call[c].pc = "cache"
  /\ IF call[c].seen = {} THEN Answer(c, "ok")
     ELSE \E v \in call[c].seen :
       /\ call' = IF isCounted(v)
                    THEN [call EXCEPT ![c].seen = @ \ {v}]
                    ELSE [call EXCEPT ![c].vol = v, ![c].pc = "zero"]
       /\ told' = Nothing
  /\ UNCHANGED <<env, disk, used, users, disturbed, left>>

\* ... by the time of the check: the counter is set in a second step.
ListInit(c) ==
  /\ call[c].pc = "zero"
  /\ initCount(call[c].vol)
  /\ call' = [call EXCEPT ![c].pc = "cache", ![c].seen = @ \ {call[c].vol}]
  /\ told' = Nothing
  /\ UNCHANGED <<env, disk, users, disturbed, left>>

\* Create and Remove reach the server unless they are disabled; counters
\* are left alone.
CreateVolume(c) ==
  LET v == call[c].vol
  IN  /\ call[c].pc = "create"
      /\ IF config.create /\ ~vol[v].made
           THEN vol' = [vol EXCEPT ![v] = FreshVolume] ELSE UNCHANGED vol
      /\ Answer(c, IF config.create /\ vol[v].made THEN "error" ELSE "ok")
      /\ UNCHANGED <<env, mnt, lost, used, users, disturbed, left>>

RemoveVolume(c) ==
  LET v == call[c].vol
      can == vol[v].made /\ vol[v].att = "none"
  IN  /\ call[c].pc = "remove"
      /\ IF config.remove /\ can
           THEN vol' = [vol EXCEPT ![v] = NoVolume] ELSE UNCHANGED vol
      /\ Answer(c, IF config.remove /\ ~can THEN "error" ELSE "ok")
      /\ UNCHANGED <<env, mnt, lost, used, users, disturbed, left>>

----------------------------------------------------------------------------
(* The surroundings *)

\* The device of an attached volume shows up.
DeviceAppears(v) ==
  /\ vol[v].att = "me" /\ ~vol[v].dev
  /\ vol' = [vol EXCEPT ![v].dev = TRUE]
  /\ told' = Nothing
  /\ UNCHANGED <<env, mnt, lost, used, call, users, disturbed, left>>

\* A user of a mounted volume writes to it.
UserWrites(v) ==
  /\ users[v] > 0 /\ mnt[v] > 0 /\ v \notin lost /\ ~vol[v].data
  /\ vol' = [vol EXCEPT ![v].data = TRUE]
  /\ told' = Nothing
  /\ UNCHANGED <<env, mnt, lost, used, call, users, disturbed, left>>

\* The other host attaches a free volume or, with the same settings as this
\* one, takes it away from here ...
OtherAttaches(v) ==
  /\ events > 0 /\ events' = events - 1
  /\ vol[v].made /\ vol[v].att # "other"
  /\ vol[v].att = "me" => config.preempt
  /\ vol' = [vol EXCEPT ![v].att = "other", ![v].dev = FALSE]
  /\ lost' = IF mnt[v] > 0 THEN lost \cup {v} ELSE lost
  /\ disturbed' = IF vol[v].att = "me" /\ (users[v] > 0 \/ Busy(v) # {})
                    THEN disturbed \cup {v} ELSE disturbed
  /\ told' = Nothing
  /\ UNCHANGED <<config, failed, mnt, used, call, users, left>>

\* ... and lets go of it.
OtherDetaches(v) ==
  /\ vol[v].att = "other"
  /\ vol' = [vol EXCEPT ![v].att = "none"]
  /\ told' = Nothing
  /\ UNCHANGED <<env, mnt, lost, used, call, users, disturbed, left>>

\* The process restarts: requests are gone and so are the counters; with
\* the path cache on, Init lists the volumes (at once or in a goroutine).
Restart(c) ==
  /\ events > 0 /\ events' = events - 1
  /\ used' = NoCounts
  /\ call' = [d \in Caller |-> IF d = c /\ config.cache
                THEN [Idle EXCEPT !.op = "list", !.pc = "list"] ELSE Idle]
  /\ disturbed' = disturbed \cup {v \in Vol : users[v] > 0 \/ Busy(v) # {}}
  /\ told' = Nothing
  /\ UNCHANGED <<config, failed, disk, users, left>>

----------------------------------------------------------------------------
Init ==
  /\ config \in Configs
  /\ vol \in [Vol -> {FreshVolume, NoVolume}]
  /\ mnt = [v \in Vol |-> 0]
  /\ lost = {}
  /\ used = NoCounts
  /\ call = [c \in Caller |-> Idle]
  /\ told = Nothing
  /\ users = [v \in Vol |-> 0]
  /\ disturbed = {}
  /\ failed = FALSE
  /\ left = MaxRequests /\ events = MaxEvents

\* The calls a request makes that may fail for reasons of their own.
Failing == {"mount", "implicit", "attach", "wait", "inspect", "local",
            "probe", "mkfs", "osmount", "syscall", "uinspect", "umount",
            "lookup", "list", "create", "remove"}

MountStep(c) ==
  \/ MountInspect(c) \/ MountCreate(c) \/ MountPrecaution(c)
  \/ MountAttach(c) \/ MountWait(c) \/ MountInspectAgain(c)
  \/ MountLocal(c) \/ MountProbe(c) \/ MountMkfs(c)
  \/ MountCheck(c) \/ MountMount(c) \/ MountCount(c)
UnmountStep(c) ==
  \/ UnmountReset(c) \/ UnmountCounted(c) \/ UnmountLower(c)
  \/ UnmountInit(c) \/ UnmountInspect(c) \/ UnmountOS(c) \/ UnmountDetach(c)
OtherStep(c) ==
  \/ PathCounted(c) \/ PathLookup(c)
  \/ ListVolumes(c) \/ ListCounted(c) \/ ListInit(c)
  \/ CreateVolume(c) \/ RemoveVolume(c)
CallFails(c) == call[c].pc \in Failing /\ Fault(c)

Request(c) ==
  \/ \E v \in Vol, op \in Op \ {"list"}, byID, over \in BOOLEAN :
       Begin(c, op, v, byID, over)
  \/ Begin(c, "list", NoVol, FALSE, FALSE)

Next ==
  \/ \E c \in Caller : \/ Request(c) \/ MountStep(c) \/ UnmountStep(c)
                       \/ OtherStep(c) \/ CallFails(c) \/ Restart(c)
  \/ \E v \in Vol : \/ DeviceAppears(v) \/ UserWrites(v)
                    \/ OtherAttaches(v) \/ OtherDetaches(v)

Spec == Init /\ [][Next]_vars

----------------------------------------------------------------------------
(* Properties *)

TypeOK ==
  /\ config \in Config
  /\ vol \in [Vol -> [made : BOOLEAN, att : {"none", "me", "other"},
                      dev : BOOLEAN, fs : BOOLEAN, data : BOOLEAN]]
  /\ mnt \in [Vol -> Nat]
  /\ lost \subseteq Vol /\ disturbed \subseteq Vol
  /\ DOMAIN used \subseteq Keys /\ \A k \in DOMAIN used : used[k] \in Int
  /\ users \in [Vol -> Nat]
  /\ \A c \in Caller : call[c].op \in Op \cup {"idle"}

\* The counters are used by requests that name the volume and do not run
\* into one another; Quiet(v) says that they did not and that none is on its
\* way.
Quiet(v) == v \notin disturbed /\ Busy(v) = {}
Count(v) == IF isCounted(v) THEN used[v] ELSE 0

\* What idm counts is what its users did, failed requests included: a mount
\* counts when it succeeded, an unmount from the moment it is asked for.  The
\* variables have their types.
CountsMatch ==
  /\ TypeOK
  /\ ~config.ignoreUsed => \A v \in Vol : Quiet(v) => Count(v) = users[v]

\* The point of the counter: as long as a user that mounted the volume has
\* not asked for its unmount, the volume is attached here and mounted, on
\* the device it was mounted from, whatever failed in between; and Path
\* finds it.
MountedWhileUsed ==
  ~config.ignoreUsed =>
    \A v \in Vol : Quiet(v) /\ users[v] > 0
                     => /\ Here(v) /\ mnt[v] > 0 /\ v \notin lost
                        /\ told.op = "path" /\ told.vol = v => told.res # "empty"

\* The other direction: the last unmount takes the mount away, unless a
\* command failed.
UnmountedWhenUnused ==
  ~failed =>
    \A v \in Vol : Quiet(v) /\ users[v] = 0 => mnt[v] = 0

\* A user's data is destroyed by nothing but the removal of the volume or a
\* mount that asks for a new file system, however often the volume moves
\* between hosts and whatever fails.
DataKept ==
  [][\A v \in Vol : vol[v].data /\ ~vol'[v].data
       => \/ v \in disturbed \/ ~vol'[v].made
          \/ \E c \in Caller : call[c].vol = v /\ call[c].over]_vars

\* The configuration guide (.docs/user-guide/config.md) on the used count:
\* "to ensure that a volume is not unmounted until the unmount requests have
\* equaled the mount requests".  Broken by requests that give the volume's
\* ID: they are counted under the empty name, apart from those by name.
NotUnmountedBefore ==
  [][\A v \in Vol : mnt[v] > 0 /\ mnt'[v] = 0
                      /\ (\E c \in Caller : call[c].pc = "umount"
                                              /\ call'[c] # call[c])
       => users[v] = 0]_vars

=============================================================================
