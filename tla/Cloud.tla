------------------------------- MODULE Cloud --------------------------------
(***************************************************************************)
(* What the storage drivers of drivers/storage/* have in common: several   *)
(* libStorage servers, one per host, drive one storage provider.  A server *)
(* runs the requests of a service one at a time (the task queue modelled   *)
(* in TaskService), so each host has at most one request in flight, but    *)
(* the requests of different hosts interleave at every call a driver makes *)
(* to the provider.                                                        *)
(*                                                                         *)
(* The provider is external: it is modelled from how the drivers use it.   *)
(* A driver module adds one action per step between two provider calls.    *)
(***************************************************************************)
EXTENDS Naturals, FiniteSets

CONSTANTS
    Hosts,        \* instances, each with an embedded server
    Vols,         \* identities the provider can give to a volume
    Names,        \* volume names clients ask for
    NoVol, NoName,
    Old,          \* the volumes of which one may be there from the start
    Drivers,      \* the storage drivers considered
    Tagged,       \* those of them configured with a tag (ebs.tag, gcepd.tag)
    Zones,        \* availability zones; regions, for s3fs
    Home,         \* the zone of a host and a volume where there is only one
    Spread,       \* the drivers considered with hosts in different zones
    MaxRequests,  \* bound on the requests of a behaviour
    MaxApart,     \* the same, when hosts are in different zones
    MaxFaults     \* bound on provider errors and server crashes

ASSUME CloudAssumption ==
    /\ Old \subseteq Vols /\ NoVol \notin Vols /\ NoName \notin Names
    /\ Hosts \cap Vols = {} /\ Home \in Zones
    /\ Spread \subseteq {"ebs", "ebsTagged", "fittedcloud"}
    /\ MaxRequests \in Nat /\ MaxApart \in 0..MaxRequests /\ MaxFaults \in Nat

VARIABLES
    driver,   \* the storage driver the service is configured with
    zone,     \* the zone each host is in
    vol,      \* the provider's volumes
    req,      \* the request each server is executing
    reply,    \* the answer given in the last step, if it gave one
    left,     \* requests that may still be made
    faults    \* provider errors that may still happen

vars == <<driver, zone, vol, req, reply, left, faults>>

Tag == driver \in Tagged

\* The EBS driver, without and with ebs.tag.
Elastic == {"ebs", "ebsTagged"}

\* Drivers that deal with the volumes of the zone of their host only.
Zoned == Elastic \cup {"fittedcloud"}

\* Drivers whose volume ID is the name the client chose.
ByName == {"gcepd", "azureud", "rbd", "isilon", "isilonShared", "s3fs"}

AttStates == {"no", "attaching", "attached", "detaching", "twice"}

Detached == [h \in Hosts |-> "no"]

\* A volume slot: its life cycle, its name, whether it carries the configured
\* tag or label, its zone, its attachments, and whether it exists, or has two
\* attachments, because two requests overlapped or the driver could not see the
\* zone it made it in.
Absent == [st |-> "absent", name |-> NoName, tag |-> FALSE, zone |-> Home,
           att |-> Detached, raced |-> FALSE]

\* A volume that somebody has made in zone z.
NewVolIn(z, s, n, t, r) ==
    [Absent EXCEPT !.st = s, !.name = n, !.tag = t, !.zone = z, !.raced = r]

NewVol(s, n, t, r) == NewVolIn(Home, s, n, t, r)

Exists(v) == vol[v].st # "absent"

Attachments(v) == {h \in Hosts : vol[v].att[h] # "no"}

\* Most providers list an attachment once it is complete.
Listed(v) == {h \in Hosts : vol[v].att[h] \in {"attached", "detaching"}}

\* DescribeVolumes filters by the availability zone of the instance, an ID asked
\* for included.
InZone(h, v) == Exists(v) /\ vol[v].zone = zone[h]

Named(n) == {v \in Vols : Exists(v) /\ vol[v].name = n}

Ops == {"create", "remove", "attach", "detach", "inspect", "list"}

\* What a request gives the driver of that which it takes for granted: all of it;
\* no size or zone ("nothing"); a zone other than that of the host ("elsewhere");
\* or, with Azure, an ID that other blob names begin with ("prefix") or that is the
\* name of a blob that is no disk ("other").
Given == {"all", "nothing", "elsewhere", "prefix", "other"}

\* "good": the request carries what the driver demands of it; "had": the hosts
\* that had the volume when the request arrived; "was": it existed then; "seen":
\* what the driver keeps of an earlier answer of the provider, and "disk" one part
\* of it; "operr": an error it remembers for later; "lap": another request
\* that may concern the volume has overlapped with it.
NoRequest == [op |-> "none", id |-> NoVol, name |-> NoName, force |-> FALSE,
              good |-> TRUE, given |-> "all", pc |-> "idle", had |-> {}, was |-> FALSE, seen |-> {},
              disk |-> NoVol, lap |-> FALSE, operr |-> FALSE]

NoReply == [host |-> "none", res |-> "none", atts |-> {}, req |-> NoRequest]

Results == {"none", "ok", "nil", "err", "panic", "crash"}

\* The provider may hold a volume already.  Zones have no other difference, so its
\* zone is called Home; at S3 it is any region, and Home that of the servers.
\* FittedCloud shares its account with volumes it did not make.
InitCloud ==
    /\ driver \in Drivers
    /\ zone \in [Hosts -> Zones]
    /\ \E h \in Hosts : zone[h] = Home
    /\ driver \notin Spread => \A h \in Hosts : zone[h] = Home
    /\ \E n \in Names, old \in {S \in SUBSET Old : \A v, w \in S : v = w},
          t \in (IF driver = "fittedcloud" THEN BOOLEAN ELSE {Tag \/ driver \in {"azureud", "efs"}}),
          z \in (IF driver = "s3fs" THEN Zones ELSE {Home}) :
          vol = [v \in Vols |->
                   IF v \in old
                   THEN NewVolIn(z, "available", IF driver \in ByName THEN NoName ELSE n, t, FALSE)
                   ELSE Absent]
    /\ req = [h \in Hosts |-> NoRequest]
    /\ reply = NoReply
    /\ left = IF \A h \in Hosts : zone[h] = Home THEN MaxRequests ELSE MaxApart
    /\ faults = MaxFaults

-----------------------------------------------------------------------------
(* Requests *)

Busy == {h \in Hosts : req[h].pc # "idle"}

\* A FittedCloud volume is made of all the disks of one name in a zone.
Related(v, w) ==
    \/ v = w
    \/ driver = "fittedcloud" /\ vol[v].name = vol[w].name /\ vol[v].zone = vol[w].zone

\* Request r and one for id or n may meet.  With Azure any two may, for requests
\* for two disks may write the list of the same machine.
Concerns(r, id, n) ==
    \/ driver = "azureud"
    \/ n # NoName /\ (r.name = n \/ (r.id # NoVol /\ vol[r.id].name = n))
    \/ id # NoVol /\ r.id # NoVol /\ Related(r.id, id)
    \/ id # NoVol /\ r.name # NoName /\ vol[id].name = r.name

Unsettled(v) ==
    v # NoVol /\ (vol[v].st \in {"creating", "deleting"}
                  \/ \E h \in Hosts : vol[v].att[h] \in {"attaching", "detaching"})

\* A client's request reaches the server of host h: the route handler hands it
\* to the driver.  Overlaps are recorded in both directions.
Request(h, op, id, n, force, good, given) ==
    LET same == {k \in Busy : Concerns(req[k], id, n)} IN
    /\ left' = left - 1
    /\ req' = [k \in Hosts |->
                 IF k = h
                 THEN [op |-> op, id |-> id, name |-> n, force |-> force, good |-> good,
                       given |-> given, pc |-> op,
                       had |-> IF id = NoVol THEN {} ELSE Attachments(id),
                       was |-> id # NoVol /\ Exists(id),
                       seen |-> {}, disk |-> NoVol,
                       lap |-> same # {} \/ Unsettled(id),
                       operr |-> FALSE]
                 ELSE IF k \in same THEN [req[k] EXCEPT !.lap = TRUE] ELSE req[k]]
    /\ reply' = NoReply
    /\ UNCHANGED <<driver, zone, vol, faults>>

\* The choices a client has are limited to the ones the driver looks at: "force"
\* (of a creation: from a snapshot), what the request must carry (the next device,
\* a droplet ID that is a number, a valid name, the size), and what the driver does
\* not look for before it uses it.
Forces(op) ==
    IF \/ op = "create" /\ driver = "scaleio"
       \/ op = "attach" /\ driver \notin {"efs", "isilonShared", "s3fs"}
       \/ op = "detach" /\ driver = "scaleio"
       \/ op = "remove" /\ driver \in {"dobs", "s3fs"}
    THEN BOOLEAN ELSE {FALSE}

Goods(op) ==
    IF \/ op = "attach" /\ driver \in Zoned \cup {"dobs", "azureud", "efs"}
       \/ op = "create" /\ driver \in {"gcepd", "vbox", "azureud", "rbd", "s3fs"}
    THEN BOOLEAN ELSE {TRUE}

Gifts(op) ==
    {"all"}
    \cup (IF op = "create" /\ driver \in Zoned \cup {"dobs", "rbd", "isilon", "isilonShared"}
          THEN {"nothing"} ELSE {})
    \cup (IF op = "create" /\ driver \in Elastic \cap Spread THEN {"elsewhere"} ELSE {})
    \cup (IF op # "remove" /\ driver = "azureud" THEN {"prefix"} ELSE {})
    \cup (IF op \in {"inspect", "attach", "detach"} /\ driver = "azureud" THEN {"other"} ELSE {})

\* A request is out of the ordinary in one way at a time.  A request that changes
\* nothing comes last; the others may still be in progress then.
Requests(h) ==
    /\ req[h].pc = "idle" /\ left > 0
    /\ \/ \E id \in (IF driver \in ByName THEN Vols ELSE {NoVol}),
             n \in (IF driver \in ByName THEN {NoName} ELSE Names),
             f \in Forces("create"), g \in Goods("create"), w \in Gifts("create") :
             (g \/ w = "all") /\ Request(h, "create", id, n, f, g, w)
       \/ \E v \in Vols, op \in {"remove", "attach", "detach", "inspect"} :
             /\ op = "inspect" => left = 1
             /\ \E f \in Forces(op), g \in Goods(op), w \in Gifts(op) :
                   ((g /\ ~f) \/ w = "all") /\ Request(h, op, v, NoName, f, g, w)
       \/ left = 1 /\ Request(h, "list", NoVol, NoName, FALSE, TRUE, "all")

At(h, l) == req[h].pc = l

Silent == reply' = NoReply /\ UNCHANGED <<driver, zone, left>>

\* The driver goes on to its next step.
Goto(h, l) ==
    /\ req' = [req EXCEPT ![h].pc = l]
    /\ Silent

\* The driver goes on and keeps what it has just read.
Keep(h, l, s) ==
    /\ req' = [req EXCEPT ![h].pc = l, ![h].seen = s]
    /\ Silent

\* The driver returns.
Return(h, res, atts) ==
    /\ reply' = [host |-> h, res |-> res, atts |-> atts,
                 req |-> [req[h] EXCEPT !.pc = "idle", !.seen = {}, !.disk = NoVol]]
    /\ req' = [req EXCEPT ![h] = NoRequest]
    /\ UNCHANGED <<driver, zone, left>>

Fail(h) == Return(h, "err", {})

\* An index out of range or a nil dereference: no goroutine of the server
\* recovers, so the process ends and is started again.
Panic(h) == Return(h, "panic", {})

-----------------------------------------------------------------------------
(* The provider *)

Same == UNCHANGED <<vol, faults>>

\* A provider call that fails for reasons of its own.
Faulty ==
    /\ faults > 0
    /\ faults' = faults - 1
    /\ UNCHANGED vol

SetVol(v, r) ==
    /\ vol' = [vol EXCEPT ![v] = r]
    /\ UNCHANGED faults

SetAtt(v, h, s) == SetVol(v, [vol[v] EXCEPT !.att[h] = s])

\* Accepted asynchronous work completes.
Settle(v) ==
    /\ \/ vol[v].st = "creating" /\ SetVol(v, [vol[v] EXCEPT !.st = "available"])
       \/ vol[v].st = "deleting" /\ SetVol(v, Absent)
       \/ \E h \in Hosts :
             \/ vol[v].att[h] = "attaching" /\ SetAtt(v, h, "attached")
             \/ vol[v].att[h] = "detaching" /\ SetAtt(v, h, "no")
    /\ Silent /\ UNCHANGED req

\* The identities a provider can give to a new volume.  It gives none twice: a slot
\* is used again only when no request refers to the volume it held before.
Fresh ==
    {v \in Vols : ~Exists(v) /\ \A k \in Hosts : v \notin {req[k].id, req[k].disk} \cup req[k].seen}

\* What becomes of a volume when its deletion is accepted.
Deleting(v) == [vol[v] EXCEPT !.st = "deleting"]

\* The provider makes volume v for the request and the driver goes on.
Make(h, v, r, l) ==
    /\ SetVol(v, r)
    /\ req' = [req EXCEPT ![h].id = v, ![h].pc = l]
    /\ Silent

\* An accepted attachment fails in the provider.
AttachFails ==
    \E v \in Vols, h \in Hosts :
       /\ vol[v].att[h] = "attaching"
       /\ faults > 0
       /\ faults' = faults - 1
       /\ vol' = [vol EXCEPT ![v].att[h] = "no"]
       /\ req' = [req EXCEPT ![h].operr = @ \/ req[h].id = v]
       /\ Silent

\* The server of host h dies in the middle of a request and is restarted.
Crash(h) ==
    /\ req[h].pc # "idle"
    /\ faults > 0
    /\ faults' = faults - 1
    /\ Return(h, "crash", {})
    /\ UNCHANGED vol

-----------------------------------------------------------------------------

\* The variables have their types, and nothing is left of a volume that is gone but
\* the export of an Isilon directory.
TypeOK ==
    /\ vol \in [Vols -> [st : {"absent", "creating", "available", "deleting"},
                         name : Names \cup {NoName}, tag : BOOLEAN,
                         zone : Zones, att : [Hosts -> AttStates], raced : BOOLEAN]]
    /\ \A v \in Vols : Exists(v) \/ vol[v] = Absent \/ driver \in {"isilon", "isilonShared"}
    /\ \A h \in Hosts :
          /\ req[h].op \in Ops \cup {"none"} /\ req[h].given \in Given
          /\ req[h].id \in Vols \cup {NoVol}
    /\ reply.res \in Results
    /\ reply.atts \subseteq Hosts \cup Vols
    /\ left \in 0..MaxRequests
    /\ faults \in 0..MaxFaults
=============================================================================
