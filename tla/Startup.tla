------------------------------ MODULE Startup -------------------------------
(***************************************************************************)
(* How a server comes up and how its requests get a session with the       *)
(* storage platform: newServer (api/server/server.go) with its endpoints   *)
(* (server_http.go) and its storage services (services/services.go), the   *)
(* Init functions of the drivers, and the Login functions with the session *)
(* caches that all servers of the process share.                           *)
(*                                                                         *)
(* Several goroutines may start servers, and several requests may log in,  *)
(* at the same time.                                                       *)
(***************************************************************************)
EXTENDS Naturals, Sequences, FiniteSets

CONSTANTS
    Server,       \* one goroutine each that calls Serve
    Service,      \* the services of the configuration
    Client,       \* requests in flight
    Port,         \* TCP ports; the fixed address uses FixedPort
    FixedPort,
    Region,
    USEast,       \* the region of a bucket without a location constraint
    Account,      \* accounts of the storage platform
    Setups,       \* configurations considered
    MaxFaults,    \* bound on errors of the storage platform
    None

VARIABLES
    setup,        \* the configuration all servers are started with
    up,           \* the process has not died
    pc,           \* where the newServer of each server is
    todo,         \* endpoints and services it has still to set up
    port,         \* the port it is about to listen on
    bound,        \* the server whose listener has a port
    drivers,      \* services of a server whose driver is initialized
    writing,      \* the server that holds the write lock of servicesByServer
    registered,   \* the servers in servicesByServer
    seen,         \* the list a server read before it appends itself
    servers,      \* the package's list of servers
    overlap,      \* two servers were started at the same time
    req,          \* the requests
    locked,       \* session caches whose mutex is held
    sessions,     \* the session caches
    svcAccount,   \* the account a gcepd driver has read from its key file
    made,         \* sessions made so far
    told,         \* the session a request was given in the last step
    left, faults

bootvars == <<up, pc, todo, port, bound, drivers, writing, registered, seen, servers, overlap>>
sessvars == <<req, locked, sessions, svcAccount, made, told, left>>
vars == <<setup, bootvars, sessvars, faults>>

NoSession == [n |-> 0, by |-> <<None, None>>, acct |-> None, region |-> None]

NoRequest == [pc |-> "idle", srv |-> None, svc |-> None, place |-> None, region |-> None]

NoAnswer == [res |-> "none", req |-> NoRequest, s |-> NoSession]

Endpoint == {"auto", "fixed", "missing"}

\* The configuration: the servers that the program starts with it and the number
\* of requests it is sent (a bound); the driver of the services; whether it is
\* complete and valid, and the section on logging too; the addresses of the
\* endpoints, if the section is there; libstorage.host, which may be empty; the
\* account of each service, where "default" means the application's default
\* credentials of gcepd; disableSessionCache; and the region.
Configuration ==
    [start : SUBSET Server, requests : Nat,
     driver : {"ebs", "efs", "dobs", "azureud", "gcepd", "fittedcloud", "scaleio",
               "isilon", "vbox", "s3fs"},
     logging : BOOLEAN, complete : BOOLEAN, section : BOOLEAN,
     eps : SUBSET Endpoint, host : Endpoint \cup {"unset"}, acct : [Service -> Account],
     nocache : BOOLEAN, region : Region]

\* None is neither a server nor an account, and finitely many servers are started.
ASSUME StartupAssumption ==
    /\ None \notin Server /\ None \notin Account
    /\ IsFiniteSet(Server)
    /\ FixedPort \in Port
    /\ USEast \in Region
    /\ MaxFaults \in Nat
    /\ Setups \subseteq Configuration

Init ==
    /\ setup \in Setups
    /\ up = TRUE
    /\ pc = [x \in Server |-> "idle"]
    /\ todo = [x \in Server |-> {}]
    /\ port = [x \in Server |-> None]
    /\ bound = [p \in Port |-> None]
    /\ drivers = [x \in Server |-> {}]
    /\ writing = None
    /\ registered = {}
    /\ seen = [x \in Server |-> {}]
    /\ servers = {}
    /\ overlap = FALSE
    /\ req = [c \in Client |-> NoRequest]
    /\ locked = {}
    /\ sessions = << >>
    /\ svcAccount = [d \in Server \X Service |-> None]
    /\ made = 0
    /\ told = NoAnswer
    /\ left = setup.requests
    /\ faults = MaxFaults

-----------------------------------------------------------------------------
(* newServer *)

Ended == {"idle", "serving", "failed"}

Goto(x, l) == pc' = [pc EXCEPT ![x] = l]

\* A missing section gets the default endpoint: the address of libstorage.host, or
\* an automatic one.  An empty section gets it too, but the loop runs over the map
\* that was read before.
initDefaultEndpoint ==
    IF setup.section THEN setup.eps ELSE {IF setup.host = "unset" THEN "auto" ELSE setup.host}

\* Up to the configuration of the log, which may be wrong.
newServer(x) ==
    /\ pc[x] = "idle" /\ x \in setup.start
    /\ Goto(x, IF setup.logging THEN "endpoints" ELSE "failed")
    /\ todo' = [todo EXCEPT ![x] = initDefaultEndpoint]
    /\ overlap' = (overlap \/ \E y \in Server : pc[y] \notin Ended)
    /\ UNCHANGED <<up, port, bound, drivers, writing, registered, seen, servers, faults>>

\* Mutant: a port is chosen for an automatic address whether it is free or not.
initEndpointsBusy(x) ==
    /\ pc[x] = "endpoints"
    /\ \/ /\ todo[x] = {}
          /\ Goto(x, "services")
          /\ todo' = [todo EXCEPT ![x] = Service]
          /\ UNCHANGED port
       \/ /\ \E e \in todo[x] \ {"missing"}, p \in Port :
                /\ e = "fixed" => p = FixedPort
                /\ port' = [port EXCEPT ![x] = p]
                /\ todo' = [todo EXCEPT ![x] = @ \ {e}]
          /\ Goto(x, "listen")
       \/ /\ "missing" \in todo[x]
          /\ Goto(x, "failed")
          /\ UNCHANGED <<port, todo>>
    /\ UNCHANGED <<up, bound, drivers, writing, registered, seen, servers, overlap, faults>>

\* One endpoint, in the order of a map iteration.  A port that is free now is
\* chosen for an automatic address; a missing address, one that cannot
\* be parsed and wrong TLS options are an error.  When all are set up the services
\* follow.
initEndpoints(x) ==
    /\ pc[x] = "endpoints"
    /\ \/ /\ todo[x] = {}
          /\ Goto(x, "services")
          /\ todo' = [todo EXCEPT ![x] = Service]
          /\ UNCHANGED port
       \/ /\ \E e \in todo[x] \ {"missing"}, p \in Port :
                /\ e = "auto" => bound[p] = None
                /\ e = "fixed" => p = FixedPort
                /\ port' = [port EXCEPT ![x] = p]
                /\ todo' = [todo EXCEPT ![x] = @ \ {e}]
          /\ Goto(x, "listen")
       \/ /\ "missing" \in todo[x]
          /\ Goto(x, "failed")
          /\ UNCHANGED <<port, todo>>
    /\ UNCHANGED <<up, bound, drivers, writing, registered, seen, servers, overlap, faults>>

\* Listen.  What was bound before an error stays bound.
newHTTPServer(x) ==
    LET p == port[x] IN
    /\ pc[x] = "listen"
    /\ IF bound[p] = None
       THEN bound' = [bound EXCEPT ![p] = x] /\ Goto(x, "endpoints")
       ELSE Goto(x, "failed") /\ UNCHANGED bound
    /\ port' = [port EXCEPT ![x] = None]
    /\ UNCHANGED <<up, todo, drivers, writing, registered, seen, servers, overlap, faults>>

-----------------------------------------------------------------------------
(* The Init functions of the drivers: what they may return. *)

\* Asking the platform may fail.
Try == {"ok"} \cup (IF faults > 0 THEN {"err"} ELSE {})

\* Only what the configuration says is looked at.
Checked == IF setup.complete THEN {"ok"} ELSE {"err"}

ebsInit == {"ok"}

efsInit == {"ok"}

dobsInit == {"ok"}

azureInit == Checked

\* A key file is checked here; default credentials are asked for.
gceInit(v) ==
    IF setup.complete /\ setup.acct[v] = "default" THEN Try ELSE Checked

\* The agent must answer.
fittedcloudInit == Try

\* Authentication, then system, protection domain and storage pool.
scaleioInit == IF setup.complete THEN Try ELSE {"err"}

isilonInit == Try

vboxInit == Try

\* The session of the configured region is made and kept.
s3fsInit == Try

driverInit(v) ==
    CASE setup.driver = "ebs" -> ebsInit
      [] setup.driver = "efs" -> efsInit
      [] setup.driver = "dobs" -> dobsInit
      [] setup.driver = "azureud" -> azureInit
      [] setup.driver = "gcepd" -> gceInit(v)
      [] setup.driver = "fittedcloud" -> fittedcloudInit
      [] setup.driver = "scaleio" -> scaleioInit
      [] setup.driver = "isilon" -> isilonInit
      [] setup.driver = "vbox" -> vboxInit
      [] setup.driver = "s3fs" -> s3fsInit

-----------------------------------------------------------------------------
(* Session caches *)

HasLogin == setup.driver \in {"ebs", "fittedcloud", "efs", "gcepd", "azureud", "s3fs"}

Cached == setup.driver # "efs" \/ ~setup.nocache

\* The mutex of a session cache: the driver package's, or the s3fs driver's own.
Cache(d) == IF setup.driver = "s3fs" THEN d ELSE << >>

\* Mutant: the region is not part of the key.
KeyAnyRegion(d, r) ==
    CASE setup.driver = "gcepd" ->
            <<"project">> \o (IF svcAccount[d] = None THEN << >> ELSE <<svcAccount[d]>>)
      [] setup.driver = "s3fs" -> <<d[1], d[2], r>>
      [] OTHER -> <<setup.acct[d[2]]>>

\* The key a driver looks a session up with.  gcepd adds the account once it has
\* read the key file; the others hash region, endpoint and account, or, for
\* azureud, the subscription, the storage account and the client.
Key(d, r) ==
    CASE setup.driver = "gcepd" ->
            <<"project">> \o (IF svcAccount[d] = None THEN << >> ELSE <<svcAccount[d]>>)
      [] setup.driver = "azureud" -> <<setup.acct[d[2]]>>
      [] setup.driver = "s3fs" -> <<d[1], d[2], r>>
      [] OTHER -> <<r, setup.acct[d[2]]>>

\* The key it stores a session under: gcepd appends what the key file says to
\* the key it looked up.
StoreKey(d, r) ==
    IF setup.driver = "gcepd" /\ setup.acct[d[2]] # "default"
    THEN Append(Key(d, r), setup.acct[d[2]])
    ELSE Key(d, r)

NewSession(d, r) == [n |-> made + 1, by |-> d, acct |-> setup.acct[d[2]], region |-> r]

Store(k, s) == sessions' = [x \in DOMAIN sessions \cup {k} |-> IF x = k THEN s ELSE sessions[x]]

-----------------------------------------------------------------------------
(* The services of a server *)

\* Mutant: an error of a driver's Init is logged and the next service follows.
initStorageDriverLenient(x) ==
    /\ pc[x] = "services"
    /\ \E v \in todo[x], out \in {"ok", "err"} :
          /\ out \in driverInit(v)
          /\ faults' = IF out = "ok" \/ ~setup.complete THEN faults ELSE faults - 1
          /\ todo' = [todo EXCEPT ![x] = @ \ {v}]
          /\ drivers' = IF out = "err" THEN drivers ELSE [drivers EXCEPT ![x] = @ \cup {v}]
    /\ UNCHANGED <<up, pc, port, bound, writing, registered, seen, servers, overlap, sessions, made>>

\* One service, in the order of a map iteration: NewStorageDriver and the
\* driver's Init.  The first error ends newServer.
initStorageDriver(x) ==
    /\ pc[x] = "services"
    /\ \E v \in todo[x], out \in {"ok", "err"} :
          /\ out \in driverInit(v)
          /\ faults' = IF out = "ok" \/ ~setup.complete THEN faults ELSE faults - 1
          /\ todo' = [todo EXCEPT ![x] = @ \ {v}]
          /\ IF out = "err"
             THEN Goto(x, "failed") /\ UNCHANGED <<drivers, sessions, made>>
             ELSE /\ UNCHANGED pc
                  /\ drivers' = [drivers EXCEPT ![x] = @ \cup {v}]
                  /\ IF setup.driver = "s3fs"
                     THEN /\ Store(Key(<<x, v>>, setup.region), NewSession(<<x, v>>, setup.region))
                          /\ made' = made + 1
                     ELSE UNCHANGED <<sessions, made>>
    /\ UNCHANGED <<up, port, bound, writing, registered, seen, servers, overlap>>

\* All services are there: the container is put into the map under the lock.
initStorageServices(x) ==
    /\ pc[x] = "services" /\ todo[x] = {} /\ writing = None
    /\ writing' = x
    /\ Goto(x, "register")
    /\ UNCHANGED <<up, todo, port, bound, drivers, registered, seen, servers, overlap, faults>>

Register(x) ==
    /\ pc[x] = "register"
    /\ registered' = registered \cup {x}
    /\ writing' = None
    /\ Goto(x, "routers")
    /\ UNCHANGED <<up, todo, port, bound, drivers, seen, servers, overlap, faults>>

\* The routers cannot fail; the list is read for the append that follows.
initRouters(x) ==
    /\ pc[x] = "routers"
    /\ seen' = [seen EXCEPT ![x] = servers]
    /\ Goto(x, "append")
    /\ UNCHANGED <<up, todo, port, bound, drivers, writing, registered, servers, overlap, faults>>

\* No lock covers the append.
AppendServer(x) ==
    /\ pc[x] = "append"
    /\ servers' = seen[x] \cup {x}
    /\ Goto(x, "serving")
    /\ UNCHANGED <<up, todo, port, bound, drivers, writing, registered, seen, overlap, faults>>

Boot(x) ==
    /\ up
    /\ \/ newServer(x) /\ UNCHANGED <<sessions, made>>
       \/ initEndpoints(x) /\ UNCHANGED <<sessions, made>>
       \/ newHTTPServer(x) /\ UNCHANGED <<sessions, made>>
       \/ initStorageDriver(x)
       \/ initStorageServices(x) /\ UNCHANGED <<sessions, made>>
       \/ Register(x) /\ UNCHANGED <<sessions, made>>
       \/ initRouters(x) /\ UNCHANGED <<sessions, made>>
       \/ AppendServer(x) /\ UNCHANGED <<sessions, made>>
    /\ told' = NoAnswer
    /\ UNCHANGED <<setup, req, locked, svcAccount, left>>

-----------------------------------------------------------------------------
(* Requests *)

Answer(c, res, s) ==
    /\ told' = [res |-> res, req |-> req[c], s |-> s]
    /\ req' = [req EXCEPT ![c] = NoRequest]

\* The region s3fs asks a session for: the bucket's location constraint, which is
\* nil for a bucket in USEast and then stands for the configured region.  The other
\* drivers take the region the instance names.
getServiceForBucket(r) == IF setup.driver = "s3fs" /\ r = USEast THEN setup.region ELSE r

\* A request for a service, or for all of them, on a server that can be reached;
\* of the latter only the task for one of the services is followed.  Its place is
\* the region the instance names, or the bucket is in, if the driver looks at it.
Ask(c, x, v, l, r) ==
    /\ pc[x] = "serving" /\ \E p \in Port : bound[p] = x
    /\ l = "all" => r = setup.region
    /\ req' = [req EXCEPT ![c] = [pc |-> l, srv |-> x, svc |-> v, place |-> r,
                                  region |-> getServiceForBucket(r)]]

Arrive(c) ==
    /\ req[c].pc = "idle" /\ left > 0
    /\ left' = left - 1
    /\ \E x \in Server, v \in Service, l \in {"one", "all"},
          r \in (IF HasLogin THEN Region ELSE {setup.region}) : Ask(c, x, v, l, r)
    /\ told' = NoAnswer
    /\ UNCHANGED <<up, locked, sessions, svcAccount, made, faults>>

\* A nil container is dereferenced; a driver without Login needs no session.
UseService(c) ==
    IF req[c].srv \in registered /\ HasLogin
    THEN req' = [req EXCEPT ![c].pc = "login"] /\ told' = NoAnswer
    ELSE Answer(c, IF req[c].srv \in registered THEN "ok" ELSE "panic", NoSession)

\* Under the read lock.
GetStorageService(c) ==
    /\ req[c].pc = "one" /\ writing = None
    /\ UseService(c)
    /\ UNCHANGED <<up, locked, sessions, svcAccount, made, left, faults>>

\* Without the lock: a concurrent write of the map may be noticed by the runtime,
\* which then ends the process.
StorageServices(c) ==
    /\ req[c].pc = "all"
    /\ UseService(c)
    /\ up' \in (IF writing = None THEN {TRUE} ELSE BOOLEAN)
    /\ UNCHANGED <<locked, sessions, svcAccount, made, left, faults>>

Me(c) == <<req[c].srv, req[c].svc>>

\* WithStorageSession: a session in the cache is used as it is.  Otherwise a new
\* one is made with the mutex held.
Login(c) ==
    LET d == Me(c)
        k == Key(d, req[c].region)
    IN
    /\ req[c].pc = "login" /\ Cache(d) \notin locked
    /\ IF Cached /\ k \in DOMAIN sessions
       THEN Answer(c, "ok", sessions[k]) /\ UNCHANGED locked
       ELSE /\ req' = [req EXCEPT ![c].pc = IF setup.driver = "s3fs" THEN "lock" ELSE "connect"]
            /\ locked' = IF setup.driver = "s3fs" THEN locked ELSE locked \cup {Cache(d)}
            /\ told' = NoAnswer
    /\ UNCHANGED <<up, sessions, svcAccount, made, left, faults>>

\* s3fs gives its read lock back before it takes the write lock, and does not look
\* again.
serviceExists(c) ==
    /\ req[c].pc = "lock" /\ Cache(Me(c)) \notin locked
    /\ locked' = locked \cup {Cache(Me(c))}
    /\ req' = [req EXCEPT ![c].pc = "connect"]
    /\ told' = NoAnswer
    /\ UNCHANGED <<up, sessions, svcAccount, made, left, faults>>

\* The session is kept and the mutex given back.
Connected(c) ==
    LET d == Me(c)
        s == NewSession(d, req[c].region)
    IN
    /\ made' = made + 1
    /\ IF Cached THEN Store(StoreKey(d, req[c].region), s) ELSE UNCHANGED sessions
    /\ locked' = locked \ {Cache(d)}
    /\ Answer(c, "ok", s)
    /\ UNCHANGED faults

\* Mutant: the mutex is kept on the error path.
RefusedLocked(c) ==
    /\ faults > 0
    /\ faults' = faults - 1
    /\ Answer(c, "err", NoSession)
    /\ UNCHANGED <<sessions, made, locked>>

Refused(c) ==
    /\ faults > 0
    /\ faults' = faults - 1
    /\ locked' = locked \ {Cache(Me(c))}
    /\ Answer(c, "err", NoSession)
    /\ UNCHANGED <<sessions, made>>

\* ebs, fittedcloud and efs do not ask the platform, so they do not fail.
connectEbs(c) == setup.driver = "ebs" /\ Connected(c) /\ UNCHANGED svcAccount

connectFittedcloud(c) == setup.driver = "fittedcloud" /\ Connected(c) /\ UNCHANGED svcAccount

connectEfs(c) == setup.driver = "efs" /\ Connected(c) /\ UNCHANGED svcAccount

\* The virtual machines are listed before the session is kept.
connectAzure(c) ==
    /\ setup.driver = "azureud"
    /\ Connected(c) \/ Refused(c)
    /\ UNCHANGED svcAccount

\* The buckets are.
connectS3(c) ==
    /\ setup.driver = "s3fs"
    /\ Connected(c) \/ Refused(c)
    /\ UNCHANGED svcAccount

\* The key file may not be readable; the account it names is remembered even when
\* the client cannot be made.
connectGce(c) ==
    LET a == setup.acct[req[c].svc]
        mail == IF a = "default" THEN None ELSE a
    IN
    /\ setup.driver = "gcepd"
    /\ \/ Connected(c) /\ svcAccount' = [svcAccount EXCEPT ![Me(c)] = mail]
       \/ Refused(c) /\ svcAccount' = [svcAccount EXCEPT ![Me(c)] = mail]
       \/ Refused(c) /\ UNCHANGED svcAccount

Connect(c) ==
    /\ req[c].pc = "connect"
    /\ \/ connectEbs(c) \/ connectFittedcloud(c) \/ connectEfs(c)
       \/ connectAzure(c) \/ connectS3(c) \/ connectGce(c)
    /\ UNCHANGED <<up, left>>

Work(c) ==
    /\ up
    /\ \/ GetStorageService(c) \/ StorageServices(c) \/ Login(c) \/ serviceExists(c)
       \/ Connect(c)
    /\ UNCHANGED <<setup, pc, todo, port, bound, drivers, writing, registered, seen, servers, overlap>>

Next ==
    \/ \E x \in Server : Boot(x)
    \/ \E c \in Client :
          up /\ Arrive(c)
          /\ UNCHANGED <<setup, pc, todo, port, bound, drivers, writing, registered, seen, servers, overlap>>
    \/ \E c \in Client : Work(c)

Spec == Init /\ [][Next]_vars

\* A goroutine that can go on does; nobody need start a server, send a request or
\* meet an error.
FairSpec ==
    /\ Spec
    /\ \A x \in Server : WF_vars(Boot(x) /\ pc[x] # "idle" /\ faults' = faults)
    /\ \A c \in Client : WF_vars(Work(c) /\ faults' = faults)

-----------------------------------------------------------------------------
(* Properties *)

\* The variables have their types; the write lock is held where the map is written.
TypeOK ==
    /\ pc \in [Server -> Ended \cup {"endpoints", "listen", "services", "register", "routers", "append"}]
    /\ bound \in [Port -> Server \cup {None}]
    /\ drivers \in [Server -> SUBSET Service]
    /\ servers \subseteq Server /\ registered \subseteq Server
    /\ \A x \in Server : writing = x <=> pc[x] = "register"
    /\ locked \subseteq {Cache(d) : d \in Server \X Service}
    /\ \A c \in Client : req[c].pc \in {"idle", "one", "all", "login", "lock", "connect"}
    /\ told.res \in {"none", "ok", "err", "panic"}

Started == {x \in Server : pc[x] # "idle"}

Listeners(x) == {p \in Port : bound[p] = x}

\* A server that Serve returns has a listener for each endpoint of the
\* configuration and is in the map with all its services initialized, so that no
\* request of its meets a nil container.  The package's Close reaches it, unless
\* two servers were started at the same time and one append was lost.  A program
\* that runs one server does not die of the unlocked map.  The variables have
\* their types.
ReadyMeansServed ==
    /\ TypeOK
    /\ \A x \in Server :
          pc[x] = "serving" =>
             /\ Cardinality(Listeners(x)) = Cardinality(initDefaultEndpoint)
             /\ x \in registered /\ drivers[x] = Service
             /\ x \in servers \/ overlap
    /\ told.res # "panic"
    /\ up \/ Cardinality(Started) > 1

\* Why newServer may fail.
Explained(x) ==
    \/ ~setup.complete \/ ~setup.logging \/ faults < MaxFaults
    \/ "missing" \in initDefaultEndpoint
    \/ "fixed" \in initDefaultEndpoint /\ (Started # {x} \/ "auto" \in initDefaultEndpoint)
    \/ overlap

\* With a valid configuration and a platform that answers, newServer fails only
\* when a port is taken: by another server on the same fixed address, by one that
\* is starting too, or by its own automatic endpoint.
StartFailsExplained == \A x \in Server : pc[x] = "failed" => Explained(x)

\* The session of a request belongs to the account and, where the driver has one
\* per region, to the place of the request.  A gcepd driver with a key file that
\* has not read it yet may be given the session of the default credentials, and a
\* request for a bucket in USEast that of the region s3fs is configured with.
Fits(session, r) ==
    /\ \/ session.acct = setup.acct[r.svc]
       \/ setup.driver = "gcepd" /\ session.acct = "default"
    /\ setup.driver \notin {"gcepd", "azureud"} =>
         \/ session.region = r.place
         \/ setup.driver = "s3fs" /\ r.place = USEast /\ session.region = setup.region

\* What Login gives a request fits it.  Without errors of the platform a driver
\* with a cache connects once per region, or once if its session is good for all.
\* Only a platform that is asked refuses a session, and s3fs is not refused the
\* one of its configured region, whose errors its operations ignore.
SessionsRight ==
    /\ told.res = "ok" /\ told.s # NoSession => Fits(told.s, told.req)
    /\ Cached /\ setup.driver # "s3fs" /\ faults = MaxFaults =>
         \A c \in Client, k \in DOMAIN sessions :
            req[c].pc = "connect" =>
               \/ sessions[k].by # Me(c)
               \/ /\ setup.driver \notin {"gcepd", "azureud"}
                  /\ sessions[k].region # req[c].region
    /\ told.res = "err" =>
         /\ setup.driver \in {"gcepd", "azureud", "s3fs"}
         /\ setup.driver = "s3fs" => told.req.region # setup.region

\* Every start of a server and every request come to an end, unless the process
\* dies.
EverythingEnds ==
    /\ \A x \in Server : pc[x] # "idle" ~> (pc[x] \in {"serving", "failed"} \/ ~up)
    /\ \A c \in Client : req[c].pc # "idle" ~> (req[c].pc = "idle" \/ ~up)
=============================================================================
