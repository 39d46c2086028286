--------------------------- MODULE StartupProofs ----------------------------
(***************************************************************************)
(* Proofs about Startup, for any servers, services, clients, ports and     *)
(* configurations, and for any number of requests and errors.  The first   *)
(* part is about the start of servers, the second about requests and the   *)
(* session caches; the invariant Inv joins them, since a driver's Init may *)
(* fill a cache and a request may end the process.                         *)
(***************************************************************************)
EXTENDS Startup, Integers, TLAPS

\* Most leaves are first-order reasoning about sets, functions and records; the
\* others cite SMT.
USE Zenon

-----------------------------------------------------------------------------
(* The start of servers *)

Types ==
    /\ setup \in Configuration
    /\ overlap \in BOOLEAN
    /\ pc \in [Server -> Ended \cup {"endpoints", "listen", "services", "register", "routers", "append"}]
    /\ todo \in [Server -> SUBSET (Endpoint \cup Service)]
    /\ port \in [Server -> Port \cup {None}]
    /\ bound \in [Port -> Server \cup {None}]
    /\ drivers \in [Server -> SUBSET Service]
    /\ writing \in Server \cup {None}
    /\ \A x \in Server : writing = x <=> pc[x] = "register"
    /\ registered \subseteq Server /\ servers \subseteq Server
    /\ seen \in [Server -> SUBSET Server]
    /\ faults \in Nat /\ faults <= MaxFaults

\* A server that was not started has no listener, and one that is at its endpoints
\* has configured ones to do.
Placed(x) ==
    /\ pc[x] = "idle" => Listeners(x) = {}
    /\ pc[x] \in {"endpoints", "listen"} => todo[x] \subseteq initDefaultEndpoint
    /\ pc[x] = "listen" => port[x] \in Port

\* A service has its driver or is still to do; a server that goes on to the routers
\* is in the map.
Equipped(x) ==
    /\ pc[x] = "services" => todo[x] \subseteq Service /\ Service \subseteq drivers[x] \cup todo[x]
    /\ pc[x] \in {"register", "routers", "append", "serving"} => drivers[x] = Service
    /\ pc[x] \in {"routers", "append", "serving"} => x \in registered

\* As long as no two servers were started at the same time, one at most is between
\* the first step and the last, and nobody else appends after it has read the list.
OneAtATime ==
    ~overlap =>
       /\ \A x, y \in Server : pc[x] \notin Ended /\ pc[y] \notin Ended => x = y
       /\ \A x \in Server : pc[x] = "append" => seen[x] = servers
       /\ \A x \in Server : pc[x] = "serving" => x \in servers

\* A port that was free is still free when it is bound, unless there is a reason.
\* While the fixed address is to do, a listener of the server's own is automatic.
Explains(x) ==
    /\ pc[x] = "failed" => Explained(x)
    /\ pc[x] = "listen" => bound[port[x]] = None \/ Explained(x)
    /\ pc[x] = "listen" /\ "fixed" \in todo[x] => "auto" \in initDefaultEndpoint
    /\ pc[x] = "endpoints" /\ "fixed" \in todo[x] /\ Listeners(x) # {} => "auto" \in initDefaultEndpoint

\* The process dies of a request to one server while another registers.
Alive == up \/ \E x, y \in Started : x # y

\* What a request does leaves the start of the servers alone.
Still == UNCHANGED <<setup, pc, todo, port, bound, drivers, writing, registered, seen, servers, overlap>>

\* The configured endpoints are of the three kinds.
LEMMA EndpointKinds ==
    ASSUME Types
    PROVE  initDefaultEndpoint \subseteq Endpoint
BY DEF Types, Configuration, initDefaultEndpoint, Endpoint

\* A step of newServer does not touch the configuration or the requests.
LEMMA BootStays ==
    ASSUME NEW x \in Server, Boot(x)
    PROVE  UNCHANGED <<setup, up, req, locked, svcAccount, left>> /\ initDefaultEndpoint' = initDefaultEndpoint
BY DEF Boot, newServer, initEndpoints, newHTTPServer, initStorageDriver, initStorageServices,
       Register, initRouters, AppendServer, initDefaultEndpoint

\* Errors of a driver's Init have a reason.
LEMMA InitErrs ==
    ASSUME Types, NEW v, NEW out \in {"ok", "err"}, out \in driverInit(v), out # "ok"
    PROVE  ~setup.complete \/ faults > 0
BY DEF Types, Configuration, driverInit, ebsInit, efsInit, dobsInit, azureInit, gceInit, fittedcloudInit,
       scaleioInit, isilonInit, vboxInit, s3fsInit, Try, Checked

\* Every step of newServer keeps the types.
LEMMA BootTypes ==
    ASSUME Types, NEW x \in Server, Boot(x), Placed(x), Equipped(x)
    PROVE  Types'
<1> USE StartupAssumption
<1>0. setup' = setup /\ setup' \in Configuration /\ initDefaultEndpoint \subseteq Endpoint
  BY BootStays, EndpointKinds DEF Types
<1>1. CASE newServer(x)
  BY <1>0, <1>1 DEF Types, newServer, Goto, Ended
<1>2. CASE initEndpoints(x)
  BY <1>0, <1>2, SMT DEF Types, initEndpoints, Goto, Ended
<1>3. CASE newHTTPServer(x)
  BY <1>0, <1>3, SMT DEF Types, newHTTPServer, Goto, Ended, Placed
<1>4. CASE initStorageDriver(x)
  <2>1. PICK v \in todo[x], out \in {"ok", "err"} :
          /\ out \in driverInit(v)
          /\ faults' = IF out = "ok" \/ ~setup.complete THEN faults ELSE faults - 1
          /\ todo' = [todo EXCEPT ![x] = @ \ {v}]
          /\ IF out = "err"
             THEN Goto(x, "failed") /\ UNCHANGED drivers
             ELSE UNCHANGED pc /\ drivers' = [drivers EXCEPT ![x] = @ \cup {v}]
    BY <1>4 DEF initStorageDriver
  <2>2. faults' \in Nat /\ faults' <= MaxFaults
    BY <2>1, InitErrs, SMT DEF Types
  <2>3. v \in Service /\ pc[x] = "services"
    BY <1>4, <2>1 DEF initStorageDriver, Equipped
  <2>4. UNCHANGED <<overlap, port, bound, writing, registered, seen, servers>>
    BY <1>4 DEF initStorageDriver
  <2>5. todo' \in [Server -> SUBSET (Endpoint \cup Service)] /\ drivers' \in [Server -> SUBSET Service]
    BY <2>1, <2>3, SMT DEF Types
  <2>6. /\ pc' \in [Server -> Ended \cup {"endpoints", "listen", "services", "register", "routers", "append"}]
        /\ \A y \in Server : writing = y <=> pc'[y] = "register"
    BY <2>1, <2>3, SMT DEF Types, Goto, Ended
  <2> QED
    BY <1>0, <2>2, <2>4, <2>5, <2>6 DEF Types
<1>5. CASE initStorageServices(x)
  BY <1>0, <1>5 DEF Types, initStorageServices, Goto, Ended
<1>6. CASE Register(x)
  BY <1>0, <1>6 DEF Types, Register, Goto, Ended
<1>7. CASE initRouters(x)
  BY <1>0, <1>7 DEF Types, initRouters, Goto, Ended
<1>8. CASE AppendServer(x)
  BY <1>0, <1>8 DEF Types, AppendServer, Goto, Ended
<1> QED
  BY <1>1, <1>2, <1>3, <1>4, <1>5, <1>6, <1>7, <1>8 DEF Boot

\* A step of one server leaves the others where they are.
LEMMA OthersStay ==
    ASSUME Types, NEW x \in Server, Boot(x), NEW y \in Server, y # x
    PROVE  /\ pc'[y] = pc[y] /\ todo'[y] = todo[y] /\ port'[y] = port[y]
           /\ drivers'[y] = drivers[y] /\ seen'[y] = seen[y]
           /\ registered \subseteq registered'
<1>1. CASE newServer(x)
  BY <1>1 DEF Types, newServer, Goto
<1>2. CASE initEndpoints(x)
  BY <1>2, ZenonT(60) DEF Types, initEndpoints, Goto
<1>3. CASE newHTTPServer(x)
  BY <1>3 DEF Types, newHTTPServer, Goto
<1>4. CASE initStorageDriver(x)
  BY <1>4 DEF Types, initStorageDriver, Goto
<1>5. CASE initStorageServices(x)
  BY <1>5 DEF Types, initStorageServices, Goto
<1>6. CASE Register(x)
  BY <1>6 DEF Types, Register, Goto
<1>7. CASE initRouters(x)
  BY <1>7 DEF Types, initRouters, Goto
<1>8. CASE AppendServer(x)
  BY <1>8 DEF Types, AppendServer, Goto
<1> QED
  BY <1>1, <1>2, <1>3, <1>4, <1>5, <1>6, <1>7, <1>8 DEF Boot

\* A port that is bound stays bound to the same server, and a step of a server
\* binds ports to that server only.
LEMMA BoundStays ==
    ASSUME Types, NEW x \in Server, Boot(x), Placed(x)
    PROVE  /\ \A p \in Port : bound[p] # None => bound'[p] = bound[p]
           /\ \A y \in Server : y # x => Listeners(y)' = Listeners(y)
           /\ ~newHTTPServer(x) => bound' = bound
<1> USE StartupAssumption
<1>1. CASE newHTTPServer(x)
  <2>1. \A p \in Port : bound'[p] = bound[p] \/ (bound[p] = None /\ bound'[p] = x)
    BY <1>1 DEF newHTTPServer, Types, Placed
  <2> QED
    BY <1>1, <2>1 DEF Listeners
<1>2. CASE ~newHTTPServer(x)
  <2>1. bound' = bound
    BY <1>2 DEF Boot, newServer, initEndpoints, initStorageDriver, initStorageServices, Register, initRouters, AppendServer
  <2> QED
    BY <2>1 DEF Listeners
<1> QED
  BY <1>1, <1>2

\* Every step of newServer keeps account of the services.
LEMMA EquippedStep ==
    ASSUME Types, NEW x \in Server, Boot(x), Equipped(x)
    PROVE  Equipped(x)'
<1>1. CASE newServer(x)
  BY <1>1 DEF newServer, Goto, Types, Equipped
<1>2. CASE initEndpoints(x)
  BY <1>2, ZenonT(60) DEF initEndpoints, Goto, Types, Equipped
<1>3. CASE newHTTPServer(x)
  BY <1>3, ZenonT(60) DEF newHTTPServer, Goto, Types, Equipped
<1>4. CASE initStorageDriver(x)
  BY <1>4, SMT DEF initStorageDriver, Goto, Types, Equipped
<1>5. CASE initStorageServices(x)
  BY <1>5 DEF initStorageServices, Goto, Types, Equipped
<1>6. CASE Register(x)
  BY <1>6 DEF Register, Goto, Types, Equipped
<1>7. CASE initRouters(x)
  BY <1>7 DEF initRouters, Goto, Types, Equipped
<1>8. CASE AppendServer(x)
  BY <1>8 DEF AppendServer, Goto, Types, Equipped
<1> QED
  BY <1>1, <1>2, <1>3, <1>4, <1>5, <1>6, <1>7, <1>8 DEF Boot

\* Where a step of newServer goes, and which steps touch the list of servers.
LEMMA Moves ==
    ASSUME Types, NEW x \in Server, Boot(x)
    PROVE  /\ pc'[x] # "idle"
           /\ pc[x] \notin Ended \/ newServer(x)
           /\ overlap => overlap'
           /\ ~newServer(x) => overlap' = overlap
           /\ ~AppendServer(x) => servers' = servers /\ pc'[x] # "serving"
           /\ ~initRouters(x) => pc'[x] # "append"
           /\ faults' <= faults
<1>1. CASE newServer(x)
  BY <1>1, SMT DEF newServer, Goto, Types, AppendServer, initRouters, Ended
<1>2. CASE initEndpoints(x)
  BY <1>2, SMT DEF initEndpoints, Goto, Types, AppendServer, initRouters, Ended, newServer
<1>3. CASE newHTTPServer(x)
  BY <1>3, SMT DEF newHTTPServer, Goto, Types, AppendServer, initRouters, Ended, newServer
<1>4. CASE initStorageDriver(x)
  BY <1>4, SMT DEF initStorageDriver, Goto, Types, AppendServer, initRouters, Ended, newServer
<1>5. CASE initStorageServices(x)
  BY <1>5, SMT DEF initStorageServices, Goto, Types, AppendServer, initRouters, Ended, newServer
<1>6. CASE Register(x)
  BY <1>6, SMT DEF Register, Goto, Types, AppendServer, initRouters, Ended, newServer
<1>7. CASE initRouters(x)
  BY <1>7, SMT DEF initRouters, Goto, Types, AppendServer, Ended, newServer
<1>8. CASE AppendServer(x)
  BY <1>8, SMT DEF AppendServer, Goto, Types, initRouters, Ended, newServer
<1> QED
  BY <1>1, <1>2, <1>3, <1>4, <1>5, <1>6, <1>7, <1>8 DEF Boot

\* Every step of newServer keeps Placed.
LEMMA PlacedStep ==
    ASSUME Types, NEW x \in Server, Boot(x), Placed(x)
    PROVE  Placed(x)'
<1> USE StartupAssumption
<1>0. initDefaultEndpoint' = initDefaultEndpoint
  BY BootStays
<1>l. pc'[x] # "idle"
  BY Moves
<1>1. CASE newServer(x)
  BY <1>0, <1>l, <1>1, SMT DEF newServer, Goto, Types, Placed
<1>2. CASE initEndpoints(x)
  BY <1>0, <1>l, <1>2, SMT DEF initEndpoints, Goto, Types, Placed
<1>3. CASE newHTTPServer(x)
  BY <1>0, <1>l, <1>3, SMT DEF newHTTPServer, Goto, Types, Placed
<1>4. CASE initStorageDriver(x)
  BY <1>0, <1>l, <1>4, SMT DEF initStorageDriver, Goto, Types, Placed
<1>5. CASE initStorageServices(x)
  BY <1>0, <1>l, <1>5, SMT DEF initStorageServices, Goto, Types, Placed
<1>6. CASE Register(x)
  BY <1>0, <1>l, <1>6, SMT DEF Register, Goto, Types, Placed
<1>7. CASE initRouters(x)
  BY <1>0, <1>l, <1>7, SMT DEF initRouters, Goto, Types, Placed
<1>8. CASE AppendServer(x)
  BY <1>0, <1>l, <1>8, SMT DEF AppendServer, Goto, Types, Placed
<1> QED
  BY <1>1, <1>2, <1>3, <1>4, <1>5, <1>6, <1>7, <1>8 DEF Boot

\* A server that starts alone finds the list as it read it.
LEMMA OneAtATimeStep ==
    ASSUME Types, NEW x \in Server, Boot(x), Types', OneAtATime
    PROVE  OneAtATime'
<1> SUFFICES ASSUME ~overlap'
             PROVE  /\ \A y, z \in Server : pc'[y] \notin Ended /\ pc'[z] \notin Ended => y = z
                    /\ \A y \in Server : pc'[y] = "append" => seen'[y] = servers'
                    /\ \A y \in Server : pc'[y] = "serving" => y \in servers'
  BY DEF OneAtATime
<1>1. ~overlap
  BY Moves
<1>2. /\ \A y, z \in Server : pc[y] \notin Ended /\ pc[z] \notin Ended => y = z
      /\ \A y \in Server : pc[y] = "append" => seen[y] = servers
      /\ \A y \in Server : pc[y] = "serving" => y \in servers
  BY <1>1 DEF OneAtATime
<1>3. \A y \in Server : y # x => pc[y] \in Ended /\ pc'[y] = pc[y] /\ seen'[y] = seen[y]
  <2>1. CASE newServer(x)
    BY <2>1, OthersStay DEF newServer
  <2>2. CASE ~newServer(x)
    BY <1>2, <2>2, Moves, OthersStay
  <2> QED
    BY <2>1, <2>2
<1>4. \A y, z \in Server : pc'[y] \notin Ended /\ pc'[z] \notin Ended => y = z
  BY <1>3
<1>5. CASE AppendServer(x)
  <2>1. pc[x] = "append" /\ pc'[x] = "serving" /\ servers' = seen[x] \cup {x}
    BY <1>5 DEF AppendServer, Goto, Types
  <2>2. servers' = servers \cup {x}
    BY <1>2, <2>1
  <2> QED
    BY <1>2, <1>3, <1>4, <2>1, <2>2 DEF Ended
<1>6. CASE initRouters(x)
  <2>1. pc'[x] = "append" /\ servers' = servers /\ seen'[x] = servers
    BY <1>6 DEF initRouters, Goto, Types
  <2> QED
    BY <1>2, <1>3, <1>4, <2>1 DEF Ended
<1>7. CASE ~AppendServer(x) /\ ~initRouters(x)
  <2>1. servers' = servers /\ pc'[x] # "append" /\ pc'[x] # "serving"
    BY <1>7, Moves
  <2> QED
    BY <1>2, <1>3, <1>4, <2>1 DEF Ended
<1> QED
  BY <1>5, <1>6, <1>7

\* A server that was started stays started.
LEMMA StartedGrows ==
    ASSUME Types, NEW x \in Server, Boot(x)
    PROVE  Started \subseteq Started' /\ x \in Started'
BY OthersStay, Moves DEF Started

\* What explains a failure goes on explaining it.
LEMMA ExplainedStays ==
    ASSUME Types, NEW x \in Server, Boot(x), NEW y \in Server, y \in Started, Explained(y), Types'
    PROVE  Explained(y)'
<1>1. setup' = setup /\ initDefaultEndpoint' = initDefaultEndpoint
  BY BootStays
<1>2. faults < MaxFaults => faults' < MaxFaults
  <2>1. faults' <= faults /\ faults \in Nat /\ faults' \in Nat
    BY Moves DEF Types
  <2> QED
    BY <2>1, StartupAssumption, SMT
<1>3. overlap => overlap'
  BY Moves
<1>4. Started # {y} => Started' # {y}
  BY StartedGrows
<1> QED
  BY <1>1, <1>2, <1>3, <1>4 DEF Explained

\* A step of one server leaves what another is about to do explained.
LEMMA ExplainsOther ==
    ASSUME Types, NEW x \in Server, Boot(x), Types', NEW y \in Server, y # x,
           Placed(x), Explains(y), OneAtATime
    PROVE  Explains(y)'
<1>1. /\ pc'[y] = pc[y] /\ todo'[y] = todo[y] /\ port'[y] = port[y]
      /\ Listeners(y)' = Listeners(y) /\ initDefaultEndpoint' = initDefaultEndpoint
  BY OthersStay, BoundStays, BootStays
<1>2. Explained(y) /\ pc[y] # "idle" => Explained(y)'
  BY ExplainedStays DEF Started
<1>3. ASSUME pc[y] = "listen", bound[port[y]] = None
      PROVE  bound'[port'[y]] = None \/ Explained(y)'
  <2>1. CASE newHTTPServer(x)
    <3>1. pc[x] \notin Ended /\ pc[y] \notin Ended
      BY <1>3, <2>1 DEF newHTTPServer, Ended
    <3>2. overlap
      BY <3>1 DEF OneAtATime
    <3> QED
      BY <3>2, Moves DEF Explained
  <2>2. CASE ~newHTTPServer(x)
    BY <1>1, <1>3, <2>2, BoundStays
  <2> QED
    BY <2>1, <2>2
<1> QED
  BY <1>1, <1>2, <1>3 DEF Explains

\* A server fails for a reason that Explained names.
LEMMA ExplainsSelf ==
    ASSUME Types, NEW x \in Server, Boot(x), Types', Explains(x), OneAtATime,
           \A y \in Server : Placed(y)
    PROVE  Explains(x)'
<1> USE StartupAssumption
<1>0. setup' = setup /\ initDefaultEndpoint' = initDefaultEndpoint /\ initDefaultEndpoint \subseteq Endpoint
  BY BootStays, EndpointKinds
<1>s. x \in Started'
  BY StartedGrows
<1>1. CASE newServer(x)
  <2>1. Listeners(x) = {} /\ Listeners(x)' = {}
    BY <1>1 DEF newServer, Placed, Listeners
  <2>2. pc'[x] = IF setup.logging THEN "endpoints" ELSE "failed"
    BY <1>1 DEF newServer, Goto, Types
  <2>3. CASE setup.logging
    BY <2>1, <2>2, <2>3 DEF Explains
  <2>4. CASE ~setup.logging
    BY <1>0, <2>2, <2>4 DEF Explains, Explained
  <2> QED
    BY <2>3, <2>4
<1>2. CASE initEndpoints(x)
  <2>0. pc[x] = "endpoints" /\ bound' = bound /\ Listeners(x)' = Listeners(x)
        /\ todo[x] \subseteq initDefaultEndpoint
    BY <1>2 DEF initEndpoints, Listeners, Placed
  <2>1. CASE Goto(x, "services")
    <3>1. pc'[x] = "services"
      BY <2>1, ZenonT(60) DEF Goto, Types
    <3> QED
      BY <3>1 DEF Explains
  <2>2. ASSUME NEW e \in todo[x] \ {"missing"}, NEW p \in Port,
               e = "auto" => bound[p] = None, e = "fixed" => p = FixedPort,
               port' = [port EXCEPT ![x] = p], todo' = [todo EXCEPT ![x] = @ \ {e}],
               Goto(x, "listen")
        PROVE  Explains(x)'
    <3>1. pc'[x] = "listen" /\ port'[x] = p /\ todo'[x] = todo[x] \ {e}
      BY <2>2, SMT DEF Goto, Types
    <3>2. e \in {"auto", "fixed"} /\ e \in initDefaultEndpoint
      BY <1>0, <2>0, <2>2 DEF Endpoint
    <3>3. "fixed" \in todo'[x] => "auto" \in initDefaultEndpoint
      BY <3>1, <3>2
    <3>4. bound'[p] = None \/ Explained(x)'
      <4>1. CASE e = "auto"
        BY <2>0, <2>2, <4>1
      <4>2. CASE e = "fixed" /\ bound[p] = x
        <5>1. Listeners(x) # {} /\ "fixed" \in todo[x]
          BY <2>2, <4>2 DEF Listeners
        <5>2. "auto" \in initDefaultEndpoint /\ "fixed" \in initDefaultEndpoint
          BY <2>0, <3>2, <4>2, <5>1 DEF Explains
        <5> QED
          BY <1>0, <5>2 DEF Explained
      <4>3. CASE e = "fixed" /\ bound[p] # None /\ bound[p] # x
        <5>1. PICK y \in Server : y = bound[p] /\ y # x
          BY <4>3 DEF Types
        <5>2. Listeners(y) # {}
          BY <5>1 DEF Listeners
        <5>3. pc[y] # "idle"
          BY <5>2 DEF Placed
        <5>4. y \in Started'
          BY <5>3, StartedGrows DEF Started
        <5>5. Started' # {x}
          BY <5>1, <5>4
        <5> QED
          BY <1>0, <3>2, <4>3, <5>5 DEF Explained
      <4> QED
        BY <2>0, <3>2, <4>1, <4>2, <4>3
    <3> QED
      BY <1>0, <3>1, <3>3, <3>4 DEF Explains
  <2>3. CASE Goto(x, "failed") /\ "missing" \in todo[x]
    <3>1. pc'[x] = "failed" /\ "missing" \in initDefaultEndpoint
      BY <2>0, <2>3, SMT DEF Goto, Types
    <3> QED
      BY <1>0, <3>1 DEF Explains, Explained
  <2> QED
    BY <1>2, <2>1, <2>2, <2>3 DEF initEndpoints
<1>3. CASE newHTTPServer(x)
  <2>0. pc[x] = "listen" /\ todo'[x] = todo[x]
    BY <1>3 DEF newHTTPServer
  <2>1. CASE bound[port[x]] = None
    <3>1. pc'[x] = "endpoints"
      BY <1>3, <2>1, SMT DEF newHTTPServer, Goto, Types
    <3> QED
      BY <1>0, <2>0, <3>1 DEF Explains
  <2>2. CASE bound[port[x]] # None
    <3>1. pc'[x] = "failed"
      BY <1>3, <2>2, ZenonT(60) DEF newHTTPServer, Goto, Types
    <3>2. Explained(x)'
      BY <2>0, <2>2, ExplainedStays DEF Explains, Started
    <3> QED
      BY <3>1, <3>2 DEF Explains
  <2> QED
    BY <2>1, <2>2
<1>4. CASE initStorageDriver(x)
  <2>1. PICK v \in todo[x], out \in {"ok", "err"} :
          /\ out \in driverInit(v)
          /\ faults' = IF out = "ok" \/ ~setup.complete THEN faults ELSE faults - 1
          /\ IF out = "err" THEN Goto(x, "failed") ELSE UNCHANGED pc
    BY <1>4 DEF initStorageDriver
  <2>2. pc[x] = "services"
    BY <1>4 DEF initStorageDriver
  <2>3. CASE out = "err"
    <3>1. ~setup.complete \/ faults > 0
      BY <2>1, <2>3, InitErrs
    <3>2. ~setup.complete \/ faults' < MaxFaults
      BY <2>1, <2>3, <3>1, SMT DEF Types
    <3>3. pc'[x] = "failed"
      BY <2>1, <2>3, SMT DEF Goto, Types
    <3> QED
      BY <1>0, <3>2, <3>3 DEF Explains, Explained
  <2>4. CASE out # "err"
    BY <2>1, <2>2, <2>4 DEF Explains
  <2> QED
    BY <2>3, <2>4
<1>5. CASE initStorageServices(x)
  BY <1>5 DEF initStorageServices, Goto, Types, Explains
<1>6. CASE Register(x)
  BY <1>6, ZenonT(60) DEF Register, Goto, Types, Explains
<1>7. CASE initRouters(x)
  BY <1>7, SMT DEF initRouters, Goto, Types, Explains
<1>8. CASE AppendServer(x)
  BY <1>8, ZenonT(60) DEF AppendServer, Goto, Types, Explains
<1> QED
  BY <1>1, <1>2, <1>3, <1>4, <1>5, <1>6, <1>7, <1>8 DEF Boot

-----------------------------------------------------------------------------
(* Requests and sessions *)

Request == [pc : {"idle", "one", "all", "login", "lock", "connect"}, srv : Server \cup {None},
            svc : Service \cup {None},
            place : Region \cup {None}, region : Region \cup {None}]

\* A request is on a server that serves.  Only drivers with a login go on to it, and
\* s3fs only for another region than its own.  Who connects holds the mutex.  Its
\* region is the one its place stands for.
Asking(c) ==
    /\ req[c].pc # "idle" =>
          req[c].srv \in Server /\ req[c].svc \in Service /\ pc[req[c].srv] = "serving"
    /\ req[c].pc \in {"login", "lock", "connect"} => HasLogin
    /\ req[c].pc = "lock" => setup.driver = "s3fs"
    /\ req[c].pc \in {"lock", "connect"} /\ setup.driver = "s3fs" => req[c].region # setup.region
    /\ req[c].pc = "connect" => Cache(Me(c)) \in locked
    /\ req[c].pc # "idle" => req[c].region = getServiceForBucket(req[c].place)

Requests ==
    /\ req \in [Client -> Request]
    /\ locked \subseteq {Cache(d) : d \in Server \X Service}
    /\ \A c \in Client : Asking(c)
    /\ \A c, e \in Client :
          req[c].pc = "connect" /\ req[e].pc = "connect" /\ Cache(Me(c)) = Cache(Me(e)) => c = e

\* What the key of a session says about it.
Filed(k) ==
    /\ sessions[k].by \in Server \X Service
    /\ sessions[k].acct = setup.acct[sessions[k].by[2]]
    /\ setup.driver = "gcepd" =>
          \/ k = <<"project">> /\ sessions[k].acct = "default"
          \/ k = <<"project", sessions[k].acct>>
          \/ k = <<"project", sessions[k].acct, sessions[k].acct>>
    /\ setup.driver = "azureud" => k = <<sessions[k].acct>>
    /\ setup.driver = "s3fs" => k = <<sessions[k].by[1], sessions[k].by[2], sessions[k].region>>
    /\ setup.driver \notin {"gcepd", "azureud", "s3fs"} => k = <<sessions[k].region, sessions[k].acct>>

\* An initialized s3fs driver has the session of its region.
Caches ==
    /\ svcAccount \in [Server \X Service -> Account \cup {None}]
    /\ \A d \in Server \X Service :
          svcAccount[d] # None => svcAccount[d] = setup.acct[d[2]] /\ setup.acct[d[2]] # "default"
    /\ \A k \in DOMAIN sessions : Filed(k)
    /\ setup.driver = "s3fs" =>
          \A x \in Server : \A v \in drivers[x] : <<x, v, setup.region>> \in DOMAIN sessions

\* Who connects has not found a session.  Without errors a driver finds the one it
\* made, and one that has read its key file has made one.
Once ==
    setup.driver # "s3fs" =>
       /\ Cached => \A c \in Client :
             req[c].pc = "connect" => Key(Me(c), req[c].region) \notin DOMAIN sessions
       /\ faults = MaxFaults =>
             /\ \A k \in DOMAIN sessions : Key(sessions[k].by, sessions[k].region) \in DOMAIN sessions
             /\ setup.driver = "gcepd" =>
                   \A d \in Server \X Service, r \in Region \cup {None} :
                      svcAccount[d] # None => Key(d, r) \in DOMAIN sessions

Told ==
    /\ told.res \in {"none", "ok", "err"}
    /\ told.res = "ok" /\ told.s # NoSession => Fits(told.s, told.req)
    /\ told.res = "err" =>
         /\ setup.driver \in {"gcepd", "azureud", "s3fs"}
         /\ setup.driver = "s3fs" => told.req.region # setup.region

\* A request that goes on keeps its server, service, place and region.
LEMMA Advance ==
    ASSUME req \in [Client -> Request], NEW c \in Client,
           NEW l \in {"idle", "one", "all", "login", "lock", "connect"},
           req' = [req EXCEPT ![c].pc = l]
    PROVE  /\ req' \in [Client -> Request]
           /\ req'[c].pc = l /\ req'[c].srv = req[c].srv /\ req'[c].svc = req[c].svc
           /\ req'[c].region = req[c].region /\ req'[c].place = req[c].place
           /\ \A e \in Client : e # c => req'[e] = req[e]
<1>1. req[c] \in Request /\ req'[c] = [req[c] EXCEPT !.pc = l]
  OBVIOUS
<1>2. [req[c] EXCEPT !.pc = l] \in Request
  BY <1>1 DEF Request
<1>3. req'[c].pc = l /\ req'[c].srv = req[c].srv /\ req'[c].svc = req[c].svc
      /\ req'[c].region = req[c].region /\ req'[c].place = req[c].place
  BY <1>1 DEF Request
<1>4. req' \in [Client -> Request] /\ \A e \in Client : e # c => req'[e] = req[e]
  BY <1>1, <1>2
<1> QED
  BY <1>3, <1>4

\* A request that is answered is gone; the others are as they were.
LEMMA Answered ==
    ASSUME req \in [Client -> Request], NEW c \in Client,
           req' = [req EXCEPT ![c] = NoRequest]
    PROVE  /\ req' \in [Client -> Request] /\ req'[c].pc = "idle"
           /\ \A e \in Client : e # c => req'[e] = req[e]
<1>1. NoRequest \in Request /\ NoRequest.pc = "idle"
  BY DEF NoRequest, Request
<1> QED
  BY <1>1

\* The steps of a connection, whatever the driver.
Remembered(c) ==
    IF setup.driver = "gcepd"
    THEN svcAccount' = [svcAccount EXCEPT ![Me(c)] =
                           IF setup.acct[req[c].svc] = "default" THEN None ELSE setup.acct[req[c].svc]]
    ELSE svcAccount' = svcAccount

\* A connection succeeds or is refused, whatever the driver.
LEMMA ConnectCases ==
    ASSUME NEW c \in Client, Connect(c)
    PROVE  /\ req[c].pc = "connect" /\ up' = up
           /\ \/ Connected(c) /\ Remembered(c)
              \/ /\ Refused(c) /\ setup.driver \in {"gcepd", "azureud", "s3fs"}
                 /\ Remembered(c) \/ svcAccount' = svcAccount
BY DEF Connect, connectEbs, connectFittedcloud, connectEfs, connectAzure, connectS3, connectGce, Remembered

\* What a step of a request may be.
LEMMA WorkCases ==
    ASSUME NEW c \in Client, Work(c)
    PROVE  /\ up /\ Still
           /\ \/ /\ req[c].pc \in {"one", "all"} /\ UseService(c)
                 /\ up' \in (IF writing = None THEN {TRUE} ELSE BOOLEAN)
                 /\ UNCHANGED <<locked, sessions, svcAccount, faults>>
              \/ up' = up /\ Login(c)
              \/ up' = up /\ serviceExists(c)
              \/ /\ req[c].pc = "connect" /\ up' = up
                 /\ \/ Connected(c) /\ Remembered(c)
                    \/ /\ Refused(c) /\ setup.driver \in {"gcepd", "azureud", "s3fs"}
                       /\ Remembered(c) \/ svcAccount' = svcAccount
<1>1. up /\ Still
  BY DEF Work, Still
<1>2. CASE GetStorageService(c)
  BY <1>1, <1>2 DEF GetStorageService
<1>3. CASE StorageServices(c)
  BY <1>1, <1>3 DEF StorageServices
<1>4. CASE Login(c)
  BY <1>1, <1>4 DEF Login
<1>5. CASE serviceExists(c)
  BY <1>1, <1>5 DEF serviceExists
<1>6. CASE Connect(c)
  BY <1>1, <1>6, ConnectCases
<1> QED
  BY <1>2, <1>3, <1>4, <1>5, <1>6 DEF Work

\* A server that serves takes no more steps of newServer.
LEMMA ServingStays ==
    ASSUME Types, NEW x \in Server, Boot(x), NEW y \in Server, pc[y] = "serving"
    PROVE  pc'[y] = "serving" /\ y # x
<1>1. y # x
  BY Moves DEF newServer, Ended
<1> QED
  BY <1>1, OthersStay

\* A step of newServer keeps what is known of the requests.
LEMMA RequestsBoot ==
    ASSUME Types, Requests, NEW x \in Server, Boot(x)
    PROVE  Requests'
<1>1. setup' = setup /\ req' = req /\ locked' = locked
  BY BootStays
<1>2. \A d : Cache(d)' = Cache(d)
  BY <1>1 DEF Cache
<1>3. ASSUME NEW c \in Client
      PROVE  Asking(c)'
  <2>1. Asking(c)
    BY DEF Requests
  <2>2. req[c].pc # "idle" => pc'[req[c].srv] = "serving"
    BY <2>1, ServingStays DEF Asking
  <2> QED
    BY <1>1, <1>2, <2>1, <2>2 DEF Asking, HasLogin, Me, Cache, getServiceForBucket
<1> QED
  BY <1>1, <1>2, <1>3 DEF Requests, Me, Cache

\* A request that takes no part in a step is as it was, if its mutex is.
LEMMA AskingOther ==
    ASSUME Still, NEW e \in Client, Asking(e), req'[e] = req[e],
           req[e].pc = "connect" => Cache(Me(e)) \in locked'
    PROVE  Asking(e)'
<1>1. setup' = setup /\ pc' = pc
  BY DEF Still
<1>2. /\ Me(e)' = Me(e) /\ Cache(Me(e))' = Cache(Me(e)) /\ HasLogin' = HasLogin
      /\ \A r : getServiceForBucket(r)' = getServiceForBucket(r)
  BY <1>1 DEF Me, Cache, HasLogin, getServiceForBucket
<1> QED
  BY <1>1, <1>2 DEF Asking

\* So does the arrival of a request.
LEMMA RequestsArrive ==
    ASSUME Types, Requests, NEW c \in Client, Arrive(c), Still
    PROVE  Requests'
<1>0. /\ setup' = setup /\ pc' = pc /\ locked' = locked /\ \A d : Cache(d)' = Cache(d)
      /\ \A r : getServiceForBucket(r)' = getServiceForBucket(r)
  BY DEF Still, Arrive, Cache, getServiceForBucket
<1>1. PICK x \in Server, v \in Service, l \in {"one", "all"}, r \in Region, q \in Region :
          /\ pc[x] = "serving" /\ q = getServiceForBucket(r)
          /\ req' = [req EXCEPT ![c] = [pc |-> l, srv |-> x, svc |-> v, place |-> r, region |-> q]]
  <2>1. setup.region \in Region
    BY DEF Types, Configuration
  <2>2. PICK x \in Server, v \in Service, l \in {"one", "all"},
             r \in (IF HasLogin THEN Region ELSE {setup.region}) :
          Ask(c, x, v, l, r)
    BY Zenon DEF Arrive
  <2>3. r \in Region /\ getServiceForBucket(r) \in Region
    BY <2>1 DEF getServiceForBucket
  <2> QED
    BY <2>2, <2>3 DEF Ask
<1>2. req \in [Client -> Request] /\ \A e \in Client : Asking(e)
  BY DEF Requests
<1>3. [pc |-> l, srv |-> x, svc |-> v, place |-> r, region |-> q] \in Request
  BY DEF Request
<1>4. req' \in [Client -> Request] /\ \A e \in Client : e # c => req'[e] = req[e]
  BY <1>1, <1>2, <1>3
<1>5. req'[c] = [pc |-> l, srv |-> x, svc |-> v, place |-> r, region |-> q]
  BY <1>1, <1>2
<1>6. Asking(c)'
  BY <1>0, <1>1, <1>5, SMT DEF Asking
<1>7. \A e \in Client : Asking(e)'
  <2> SUFFICES ASSUME NEW e \in Client, e # c
               PROVE  Asking(e)'
    BY <1>6
  <2>1. req[e].pc = "connect" => Cache(Me(e)) \in locked'
    BY <1>0, <1>2 DEF Asking
  <2> QED
    BY <1>2, <1>4, <2>1, AskingOther
<1>8. ASSUME NEW e \in Client, NEW f \in Client, req'[e].pc = "connect", req'[f].pc = "connect",
             Cache(Me(e))' = Cache(Me(f))'
      PROVE  e = f
  <2>1. e # c /\ f # c
    BY <1>5, <1>8, SMT
  <2>2. req'[e] = req[e] /\ req'[f] = req[f]
    BY <1>4, <2>1
  <2>3. Cache(Me(e)) = Cache(Me(f))
    BY <1>0, <1>8, <2>2 DEF Me, Cache
  <2> QED
    BY <1>8, <2>2, <2>3 DEF Requests
<1>9. locked' \subseteq {Cache(d)' : d \in Server \X Service}
  BY <1>0 DEF Requests, Cache
<1> QED
  BY <1>4, <1>7, <1>8, <1>9 DEF Requests

\* The key of s3fs finds the session of the driver's own region.
LEMMA OwnRegion ==
    ASSUME Types, Caches, NEW c \in Client, Asking(c), Equipped(req[c].srv),
           req[c].pc = "login", setup.driver = "s3fs", req[c].region = setup.region
    PROVE  Cached /\ Key(Me(c), req[c].region) \in DOMAIN sessions
<1>1. req[c].srv \in Server /\ req[c].svc \in Service /\ pc[req[c].srv] = "serving"
  BY DEF Asking
<1>2. drivers[req[c].srv] = Service
  BY <1>1 DEF Equipped
<1>3. <<req[c].srv, req[c].svc, setup.region>> \in DOMAIN sessions
  BY <1>1, <1>2 DEF Caches
<1>4. Key(Me(c), req[c].region) = <<req[c].srv, req[c].svc, setup.region>>
  BY DEF Key, Me
<1> QED
  BY <1>3, <1>4 DEF Cached

\* A request that goes on to a place where it does not hold a mutex, or to an
\* answer.
LEMMA RequestsOn ==
    ASSUME Types, Requests, NEW c \in Client, Still, req' \in [Client -> Request],
           \A e \in Client : e # c => req'[e] = req[e],
           Asking(c)', locked' \subseteq locked, req'[c].pc # "connect",
           \A e \in Client : e # c /\ req[e].pc = "connect" => Cache(Me(e)) \in locked'
    PROVE  Requests'
<1>0. setup' = setup /\ \A d : Cache(d)' = Cache(d)
  BY DEF Still, Cache
<1>1. \A e \in Client : Asking(e)'
  BY AskingOther DEF Requests
<1>2. ASSUME NEW e \in Client, NEW f \in Client, req'[e].pc = "connect", req'[f].pc = "connect",
             Cache(Me(e))' = Cache(Me(f))'
      PROVE  e = f
  <2>1. req'[e] = req[e] /\ req'[f] = req[f]
    BY <1>2
  <2>2. Cache(Me(e)) = Cache(Me(f))
    BY <1>0, <1>2, <2>1 DEF Me, Cache
  <2> QED
    BY <1>2, <2>1, <2>2 DEF Requests
<1>3. locked' \subseteq {Cache(d)' : d \in Server \X Service}
  BY <1>0, ZenonT(60) DEF Requests, Cache
<1> QED
  BY <1>1, <1>2, <1>3 DEF Requests

\* A request that takes a mutex nobody holds.
LEMMA RequestsTake ==
    ASSUME Types, Requests, NEW c \in Client, Still, req' = [req EXCEPT ![c].pc = "connect"],
           Cache(Me(c)) \notin locked, locked' = locked \cup {Cache(Me(c))},
           req[c].pc \in {"login", "lock"},
           setup.driver = "s3fs" => req[c].region # setup.region
    PROVE  Requests'
<1>0. /\ setup' = setup /\ pc' = pc /\ HasLogin' = HasLogin /\ \A d : Cache(d)' = Cache(d)
      /\ \A r : getServiceForBucket(r)' = getServiceForBucket(r)
  BY DEF Still, Cache, HasLogin, getServiceForBucket
<1>1. req \in [Client -> Request] /\ \A e \in Client : Asking(e)
  BY DEF Requests
<1>2. /\ req' \in [Client -> Request]
      /\ req'[c].pc = "connect" /\ req'[c].srv = req[c].srv /\ req'[c].svc = req[c].svc
      /\ req'[c].region = req[c].region /\ req'[c].place = req[c].place
      /\ \A e \in Client : e # c => req'[e] = req[e]
  BY <1>1, Advance
<1>3. \A e \in Client : Me(e)' = Me(e) /\ Cache(Me(e))' = Cache(Me(e))
  BY <1>0, <1>2, SMT DEF Me, Cache
<1>4. Asking(c)'
  BY <1>0, <1>1, <1>2, <1>3 DEF Asking
<1>5. \A e \in Client : Asking(e)'
  <2> SUFFICES ASSUME NEW e \in Client, e # c
               PROVE  Asking(e)'
    BY <1>4
  <2>1. req[e].pc = "connect" => Cache(Me(e)) \in locked'
    BY <1>1 DEF Asking
  <2> QED
    BY <1>1, <1>2, <2>1, AskingOther
<1>6. ASSUME NEW e \in Client, NEW f \in Client, req'[e].pc = "connect", req'[f].pc = "connect",
             Cache(Me(e)) = Cache(Me(f))
      PROVE  e = f
  <2>1. \A g \in Client : g # c /\ req'[g].pc = "connect" => req[g].pc = "connect" /\ Cache(Me(g)) \in locked
    BY <1>1, <1>2 DEF Asking
  <2> QED
    BY <1>6, <2>1 DEF Requests
<1>7. locked' \subseteq {Cache(d)' : d \in Server \X Service}
  <2>1. Me(c) \in Server \X Service
    BY <1>1 DEF Asking, Me
  <2>2. locked' \subseteq {Cache(d) : d \in Server \X Service}
    BY <2>1 DEF Requests
  <2> QED
    BY <1>0, <2>2, ZenonT(60) DEF Cache
<1> QED
  BY <1>2, <1>3, <1>5, <1>6, <1>7, SMT DEF Requests

\* So does every step of a request.
LEMMA RequestsWork ==
    ASSUME Types, Requests, Caches, \A x \in Server : Equipped(x), NEW c \in Client, Work(c)
    PROVE  Requests'
<1>0. /\ Still /\ setup' = setup /\ pc' = pc /\ registered' = registered /\ HasLogin' = HasLogin
      /\ \A r : getServiceForBucket(r)' = getServiceForBucket(r)
  BY WorkCases DEF Still, HasLogin, getServiceForBucket
<1>1. req \in [Client -> Request] /\ (\A e \in Client : Asking(e))
  BY DEF Requests
<1>2. \A e \in Client : req[e].pc = "connect" => Cache(Me(e)) \in locked
  BY <1>1 DEF Asking
<1>3. ASSUME req' = [req EXCEPT ![c] = NoRequest], locked' = locked
      PROVE  Requests'
  <2>1. /\ req' \in [Client -> Request] /\ req'[c].pc = "idle"
        /\ \A e \in Client : e # c => req'[e] = req[e]
    BY <1>1, <1>3, Answered
  <2>2. Asking(c)'
    BY <2>1 DEF Asking
  <2> QED
    BY <1>0, <1>2, <1>3, <2>1, <2>2, RequestsOn
<1>4. CASE req[c].pc \in {"one", "all"} /\ UseService(c) /\ locked' = locked
  <2>1. CASE HasLogin /\ req' = [req EXCEPT ![c].pc = "login"]
    <3>1. /\ req' \in [Client -> Request]
          /\ req'[c].pc = "login" /\ req'[c].srv = req[c].srv /\ req'[c].svc = req[c].svc
          /\ req'[c].region = req[c].region /\ req'[c].place = req[c].place
          /\ \A e \in Client : e # c => req'[e] = req[e]
      BY <1>1, <2>1, Advance
    <3>2. Asking(c)'
      BY <1>0, <1>1, <1>4, <2>1, <3>1 DEF Asking
    <3> QED
      BY <1>0, <1>2, <1>4, <3>1, <3>2, RequestsOn
  <2>2. CASE req' = [req EXCEPT ![c] = NoRequest]
    BY <1>3, <1>4, <2>2
  <2> QED
    BY <1>4, <2>1, <2>2 DEF UseService, Answer
<1>5. CASE Login(c)
  <2>1. CASE Cached /\ Key(Me(c), req[c].region) \in DOMAIN sessions
    <3>1. req' = [req EXCEPT ![c] = NoRequest] /\ locked' = locked
      BY <1>5, <2>1 DEF Login, Answer
    <3> QED
      BY <1>3, <3>1
  <2>2. CASE ~(Cached /\ Key(Me(c), req[c].region) \in DOMAIN sessions)
    <3>0. req[c].pc = "login" /\ Cache(Me(c)) \notin locked
          /\ req[c].srv \in Server /\ req[c].svc \in Service /\ pc[req[c].srv] = "serving"
          /\ req[c].region = getServiceForBucket(req[c].place)
      BY <1>1, <1>5 DEF Login, Asking
    <3>1. setup.driver = "s3fs" => req[c].region # setup.region
      BY <1>1, <2>2, <3>0, OwnRegion
    <3>2. CASE setup.driver = "s3fs"
      <4>1. req' = [req EXCEPT ![c].pc = "lock"] /\ locked' = locked
        BY <1>5, <2>2, <3>2 DEF Login
      <4>2. /\ req' \in [Client -> Request]
            /\ req'[c].pc = "lock" /\ req'[c].srv = req[c].srv /\ req'[c].svc = req[c].svc
            /\ req'[c].region = req[c].region /\ req'[c].place = req[c].place
            /\ \A e \in Client : e # c => req'[e] = req[e]
        BY <1>1, <4>1, Advance
      <4>3. HasLogin
        BY <3>2 DEF HasLogin
      <4>4. Asking(c)'
        BY <1>0, <3>0, <3>1, <3>2, <4>2, <4>3 DEF Asking
      <4> QED
        BY <1>0, <1>2, <4>1, <4>2, <4>4, RequestsOn
    <3>3. CASE setup.driver # "s3fs"
      <4>1. req' = [req EXCEPT ![c].pc = "connect"] /\ locked' = locked \cup {Cache(Me(c))}
        BY <1>5, <2>2, <3>3 DEF Login
      <4> QED
        BY <1>0, <3>0, <3>3, <4>1, RequestsTake
    <3> QED
      BY <3>2, <3>3
  <2> QED
    BY <2>1, <2>2
<1>6. CASE serviceExists(c)
  <2>1. /\ req[c].pc = "lock" /\ Cache(Me(c)) \notin locked
        /\ req' = [req EXCEPT ![c].pc = "connect"] /\ locked' = locked \cup {Cache(Me(c))}
    BY <1>6 DEF serviceExists
  <2>2. setup.driver = "s3fs" => req[c].region # setup.region
    BY <1>1, <2>1 DEF Asking
  <2> QED
    BY <1>0, <2>1, <2>2, RequestsTake
<1>7. CASE req[c].pc = "connect" /\ (Connected(c) \/ Refused(c))
  <2>1. req' = [req EXCEPT ![c] = NoRequest] /\ locked' = locked \ {Cache(Me(c))}
    BY <1>7 DEF Connected, Refused, Answer
  <2>2. /\ req' \in [Client -> Request] /\ req'[c].pc = "idle"
        /\ \A e \in Client : e # c => req'[e] = req[e]
    BY <1>1, <2>1, Answered
  <2>3. Asking(c)'
    BY <2>2 DEF Asking
  <2>4. \A e \in Client : e # c /\ req[e].pc = "connect" => Cache(Me(e)) \in locked'
    BY <1>2, <1>7, <2>1 DEF Requests
  <2> QED
    BY <1>0, <2>1, <2>2, <2>3, <2>4, RequestsOn
<1> QED
  BY <1>4, <1>5, <1>6, <1>7, WorkCases

-----------------------------------------------------------------------------
(* Keys *)

\* Sequences with equal elements are equal.
LEMMA SeqEqual ==
    ASSUME NEW S, NEW s \in Seq(S), NEW t \in Seq(S), Len(s) = Len(t),
           \A i \in 1 .. Len(s) : s[i] = t[i]
    PROVE  s = t
<1>1. s = [i \in 1 .. Len(s) |-> s[i]] /\ t = [i \in 1 .. Len(s) |-> t[i]]
  BY SMT
<1> QED
  BY <1>1

\* How short sequences are put together.
LEMMA Sequences ==
    ASSUME NEW S, NEW p \in S, NEW a \in S, NEW b \in S
    PROVE  /\ <<p>> \o << >> = <<p>>
           /\ <<p>> \o <<a>> = <<p, a>>
           /\ Append(<<p>>, a) = <<p, a>>
           /\ Append(<<p, a>>, b) = <<p, a, b>>
<1>1. /\ <<p>> \in Seq(S) /\ Len(<<p>>) = 1 /\ <<p>>[1] = p
      /\ <<a>> \in Seq(S) /\ Len(<<a>>) = 1 /\ <<a>>[1] = a
  BY SMT
<1>2. <<p, a>> \in Seq(S) /\ Len(<<p, a>>) = 2 /\ <<p, a>>[1] = p /\ <<p, a>>[2] = a
  BY SMT
<1>3. /\ <<p, a, b>> \in Seq(S) /\ Len(<<p, a, b>>) = 3
      /\ <<p, a, b>>[1] = p /\ <<p, a, b>>[2] = a /\ <<p, a, b>>[3] = b
  BY SMT
<1>4. <<p>> \o << >> = <<p>>
  BY SMT
<1>5. <<p>> \o <<a>> = <<p, a>>
  <2>1. <<p>> \o <<a>> \in Seq(S) /\ Len(<<p>> \o <<a>>) = 2
    BY <1>1, SMT
  <2>2. (<<p>> \o <<a>>)[1] = p /\ (<<p>> \o <<a>>)[2] = a
    BY <1>1, SMT
  <2>3. \A i \in 1 .. 2 : (<<p>> \o <<a>>)[i] = <<p, a>>[i]
    BY <1>2, <2>2, SMT
  <2> QED
    BY <1>2, <2>1, <2>3, SeqEqual
<1>6. Append(<<p>>, a) = <<p, a>>
  <2>1. Append(<<p>>, a) \in Seq(S) /\ Len(Append(<<p>>, a)) = 2
    BY <1>1, SMT
  <2>2. Append(<<p>>, a)[1] = p /\ Append(<<p>>, a)[2] = a
    BY <1>1, SMT
  <2>3. \A i \in 1 .. 2 : Append(<<p>>, a)[i] = <<p, a>>[i]
    BY <1>2, <2>2, SMT
  <2> QED
    BY <1>2, <2>1, <2>3, SeqEqual
<1>7. Append(<<p, a>>, b) = <<p, a, b>>
  <2>1. Append(<<p, a>>, b) \in Seq(S) /\ Len(Append(<<p, a>>, b)) = 3
    BY <1>2, SMT
  <2>2. Append(<<p, a>>, b)[1] = p /\ Append(<<p, a>>, b)[2] = a /\ Append(<<p, a>>, b)[3] = b
    BY <1>2, SMT
  <2>3. \A i \in 1 .. 3 : Append(<<p, a>>, b)[i] = <<p, a, b>>[i]
    BY <1>3, <2>2, SMT
  <2> QED
    BY <1>3, <2>1, <2>3, SeqEqual
<1> QED
  BY <1>4, <1>5, <1>6, <1>7

\* The keys of gcepd.
LEMMA ProjectKeys ==
    ASSUME NEW a
    PROVE  /\ <<"project">> \o << >> = <<"project">>
           /\ <<"project">> \o <<a>> = <<"project", a>>
           /\ Append(<<"project">>, a) = <<"project", a>>
           /\ Append(<<"project", a>>, a) = <<"project", a, a>>
<1> DEFINE S == {"project", a}
<1>1. "project" \in S /\ a \in S
  OBVIOUS
<1> HIDE DEF S
<1>2. \A p, q \in S : /\ <<p>> \o << >> = <<p>>
                      /\ <<p>> \o <<q>> = <<p, q>>
                      /\ Append(<<p>>, q) = <<p, q>>
                      /\ Append(<<p, q>>, q) = <<p, q, q>>
  BY Sequences
<1> QED
  BY <1>1, <1>2

\* Keys of gcepd with different parts differ.
LEMMA Different ==
    ASSUME NEW a, NEW b, NEW e
    PROVE  /\ <<"project">> # <<"project", a>>
           /\ <<"project">> # <<"project", a, b>>
           /\ <<"project", e>> # <<"project", a, b>>
           /\ <<"project", a>> = <<"project", b>> => a = b
OBVIOUS

\* The key a driver looks a session up with, driver by driver.
LEMMA KeyIs ==
    ASSUME Types, Caches, NEW d \in Server \X Service, NEW r
    PROVE  /\ setup.driver = "gcepd" /\ svcAccount[d] = None => Key(d, r) = <<"project">>
           /\ setup.driver = "gcepd" /\ svcAccount[d] # None =>
                Key(d, r) = <<"project", setup.acct[d[2]]>>
           /\ setup.driver = "azureud" => Key(d, r) = <<setup.acct[d[2]]>>
           /\ setup.driver = "s3fs" => Key(d, r) = <<d[1], d[2], r>>
           /\ setup.driver \notin {"gcepd", "azureud", "s3fs"} => Key(d, r) = <<r, setup.acct[d[2]]>>
<1>1. CASE setup.driver = "gcepd"
  <2>1. Key(d, r) = <<"project">> \o (IF svcAccount[d] = None THEN << >> ELSE <<svcAccount[d]>>)
    BY <1>1 DEF Key
  <2>2. svcAccount[d] # None => svcAccount[d] = setup.acct[d[2]]
    BY DEF Caches
  <2>3. CASE svcAccount[d] = None
    BY <1>1, <2>1, <2>3, ProjectKeys
  <2>4. CASE svcAccount[d] # None
    BY <1>1, <2>1, <2>2, <2>4, ProjectKeys
  <2> QED
    BY <2>3, <2>4
<1>2. CASE setup.driver # "gcepd"
  BY <1>2 DEF Key
<1> QED
  BY <1>1, <1>2

\* The session a key finds fits every driver that looks up with the key.
LEMMA FoundFits ==
    ASSUME Types, Caches, NEW d \in Server \X Service, NEW r, Key(d, r) \in DOMAIN sessions
    PROVE  LET s == sessions[Key(d, r)] IN
           /\ s.acct = setup.acct[d[2]] \/ (setup.driver = "gcepd" /\ s.acct = "default")
           /\ setup.driver \notin {"gcepd", "azureud"} => s.region = r
<1> DEFINE k == Key(d, r)
<1>0. Filed(k)
  BY DEF Caches
<1>1. CASE setup.driver = "gcepd"
  <2>1. k = <<"project">> \/ k = <<"project", setup.acct[d[2]]>>
    BY <1>1, KeyIs
  <2>2. \/ k = <<"project">> /\ sessions[k].acct = "default"
        \/ k = <<"project", sessions[k].acct>>
        \/ k = <<"project", sessions[k].acct, sessions[k].acct>>
    BY <1>0, <1>1 DEF Filed
  <2> HIDE DEF k
  <2>3. sessions[k].acct = setup.acct[d[2]] \/ sessions[k].acct = "default"
    BY <2>1, <2>2, Different
  <2> QED
    BY <1>1, <2>3 DEF k
<1>2. CASE setup.driver = "azureud"
  <2>1. k = <<setup.acct[d[2]]>> /\ k = <<sessions[k].acct>>
    BY <1>0, <1>2, KeyIs DEF Filed
  <2> HIDE DEF k
  <2>2. sessions[k].acct = setup.acct[d[2]]
    BY <2>1
  <2> QED
    BY <1>2, <2>2 DEF k
<1>3. CASE setup.driver = "s3fs"
  <2>1. /\ k = <<d[1], d[2], r>> /\ k = <<sessions[k].by[1], sessions[k].by[2], sessions[k].region>>
        /\ sessions[k].acct = setup.acct[sessions[k].by[2]]
    BY <1>0, <1>3, KeyIs DEF Filed
  <2> HIDE DEF k
  <2>2. sessions[k].by[2] = d[2] /\ sessions[k].region = r
    BY <2>1
  <2> QED
    BY <1>3, <2>1, <2>2 DEF k
<1>4. CASE setup.driver \notin {"gcepd", "azureud", "s3fs"}
  <2>1. k = <<r, setup.acct[d[2]]>> /\ k = <<sessions[k].region, sessions[k].acct>>
    BY <1>0, <1>4, KeyIs DEF Filed
  <2> HIDE DEF k
  <2>2. sessions[k].acct = setup.acct[d[2]] /\ sessions[k].region = r
    BY <2>1
  <2> QED
    BY <1>4, <2>2 DEF k
<1> QED
  BY <1>1, <1>2, <1>3, <1>4

\* What storing a session does to the cache.
LEMMA Stored ==
    ASSUME NEW k, NEW s, Store(k, s)
    PROVE  /\ DOMAIN sessions' = DOMAIN sessions \cup {k}
           /\ sessions'[k] = s
           /\ \A j \in DOMAIN sessions : j # k => sessions'[j] = sessions[j]
BY DEF Store

\* The key a session is stored under.
LEMMA StoreKeyIs ==
    ASSUME Types, Caches, NEW d \in Server \X Service, NEW r
    PROVE  /\ setup.driver # "gcepd" => StoreKey(d, r) = Key(d, r)
           /\ setup.driver = "gcepd" =>
                \/ /\ setup.acct[d[2]] = "default" /\ svcAccount[d] = None
                   /\ StoreKey(d, r) = <<"project">>
                \/ /\ setup.acct[d[2]] # "default" /\ svcAccount[d] = None
                   /\ StoreKey(d, r) = <<"project", setup.acct[d[2]]>>
                \/ /\ setup.acct[d[2]] # "default" /\ svcAccount[d] # None
                   /\ StoreKey(d, r) = <<"project", setup.acct[d[2]], setup.acct[d[2]]>>
<1>1. CASE setup.driver # "gcepd"
  BY <1>1 DEF StoreKey
<1>2. CASE setup.driver = "gcepd"
  <2>0. setup.acct[d[2]] = "default" => svcAccount[d] = None
    BY DEF Caches
  <2>1. CASE setup.acct[d[2]] = "default"
    <3>1. StoreKey(d, r) = Key(d, r)
      BY <2>1 DEF StoreKey
    <3> QED
      BY <1>2, <2>0, <2>1, <3>1, KeyIs
  <2>2. CASE setup.acct[d[2]] # "default"
    <3>1. StoreKey(d, r) = Append(Key(d, r), setup.acct[d[2]])
      BY <1>2, <2>2 DEF StoreKey
    <3>2. CASE svcAccount[d] = None
      <4>1. Key(d, r) = <<"project">>
        BY <1>2, <3>2, KeyIs
      <4>2. StoreKey(d, r) = <<"project", setup.acct[d[2]]>>
        BY <3>1, <4>1, ProjectKeys
      <4> QED
        BY <1>2, <2>2, <3>2, <4>2
    <3>3. CASE svcAccount[d] # None
      <4>1. Key(d, r) = <<"project", setup.acct[d[2]]>>
        BY <1>2, <3>3, KeyIs
      <4>2. StoreKey(d, r) = <<"project", setup.acct[d[2]], setup.acct[d[2]]>>
        BY <3>1, <4>1, ProjectKeys
      <4> QED
        BY <1>2, <2>2, <3>3, <4>2
    <3> QED
      BY <3>2, <3>3
  <2> QED
    BY <2>1, <2>2
<1> QED
  BY <1>1, <1>2

\* A new session is filed as its key says.
LEMMA FiledStep ==
    ASSUME Types, Caches, NEW d \in Server \X Service, NEW r, setup' = setup,
           Store(StoreKey(d, r), NewSession(d, r))
    PROVE  \A k \in DOMAIN sessions' : Filed(k)'
<1> DEFINE k0 == StoreKey(d, r)
           s0 == NewSession(d, r)
<1>1. s0.by = d /\ s0.acct = setup.acct[d[2]] /\ s0.region = r
  BY DEF NewSession
<1>2. /\ DOMAIN sessions' = DOMAIN sessions \cup {k0}
      /\ sessions'[k0] = s0
      /\ \A j \in DOMAIN sessions : j # k0 => sessions'[j] = sessions[j]
  <2> HIDE DEF k0, s0
  <2>1. Store(k0, s0)
    BY DEF k0, s0
  <2> QED
    BY <2>1, Stored
<1>3. /\ setup.driver = "gcepd" =>
          \/ k0 = <<"project">> /\ s0.acct = "default"
          \/ k0 = <<"project", s0.acct>>
          \/ k0 = <<"project", s0.acct, s0.acct>>
      /\ setup.driver = "azureud" => k0 = <<s0.acct>>
      /\ setup.driver = "s3fs" => k0 = <<s0.by[1], s0.by[2], s0.region>>
      /\ setup.driver \notin {"gcepd", "azureud", "s3fs"} => k0 = <<s0.region, s0.acct>>
  <2> HIDE DEF s0
  <2>1. CASE setup.driver = "gcepd"
    BY <1>1, <2>1, StoreKeyIs, ZenonT(60)
  <2>2. CASE setup.driver # "gcepd"
    <3>1. k0 = Key(d, r)
      BY <2>2, StoreKeyIs
    <3> HIDE DEF k0
    <3> QED
      BY <1>1, <2>2, <3>1, KeyIs
  <2> QED
    BY <2>1, <2>2
<1> HIDE DEF k0, s0
<1>4. ASSUME NEW k \in DOMAIN sessions', k = k0
      PROVE  Filed(k)'
  <2>1. sessions'[k] = s0
    BY <1>2, <1>4
  <2> QED
    BY <1>1, <1>3, <1>4, <2>1 DEF Filed
<1>5. ASSUME NEW k \in DOMAIN sessions', k # k0
      PROVE  Filed(k)'
  BY <1>2, <1>5, SMT DEF Filed, Caches
<1> QED
  BY <1>4, <1>5

\* A driver's Init keeps the caches as the keys say, and s3fs keeps its session.
LEMMA CachesBoot ==
    ASSUME Types, Caches, NEW x \in Server, Boot(x), Placed(x), Equipped(x)
    PROVE  Caches'
<1>0. setup' = setup /\ svcAccount' = svcAccount
  BY BootStays
<1>1. CASE initStorageDriver(x) /\ setup.driver = "s3fs" /\ pc'[x] # "failed"
  <2>1. PICK v \in todo[x] :
          /\ drivers' = [drivers EXCEPT ![x] = @ \cup {v}]
          /\ Store(Key(<<x, v>>, setup.region), NewSession(<<x, v>>, setup.region))
    BY <1>1 DEF initStorageDriver, Goto, Types
  <2>2. v \in Service
    BY <1>1, <2>1 DEF initStorageDriver, Equipped
  <2>3. <<x, v>> \in Server \X Service
    BY <2>2
  <2>4. Key(<<x, v>>, setup.region) = StoreKey(<<x, v>>, setup.region)
        /\ Key(<<x, v>>, setup.region) = <<x, v, setup.region>>
    BY <1>1 DEF StoreKey, Key
  <2>5. \A k \in DOMAIN sessions' : Filed(k)'
    BY <1>0, <2>1, <2>3, <2>4, FiledStep
  <2>6. DOMAIN sessions' = DOMAIN sessions \cup {<<x, v, setup.region>>}
    BY <2>1, <2>4, Stored
  <2>7. \A y \in Server : \A w \in drivers'[y] : <<y, w, setup.region>> \in DOMAIN sessions'
    BY <1>1, <2>1, <2>6, ZenonT(60) DEF Caches, Types
  <2> QED
    BY <1>0, <2>5, <2>7 DEF Caches
<1>2. CASE ~(initStorageDriver(x) /\ setup.driver = "s3fs" /\ pc'[x] # "failed")
  <2>1. sessions' = sessions /\ (setup.driver = "s3fs" => drivers' = drivers)
    <3>1. CASE initStorageDriver(x)
      BY <1>2, <3>1 DEF initStorageDriver, Goto, Types
    <3>2. CASE ~initStorageDriver(x)
      BY <3>2 DEF Boot, newServer, initEndpoints, newHTTPServer, initStorageServices, Register, initRouters, AppendServer
    <3> QED
      BY <3>1, <3>2
  <2> QED
    BY <1>0, <2>1 DEF Caches, Filed
<1> QED
  BY <1>1, <1>2

\* Steps that touch no cache.
LEMMA CachesStay ==
    ASSUME Caches, Still, sessions' = sessions, svcAccount' = svcAccount
    PROVE  Caches'
BY DEF Caches, Still, Filed

\* A gcepd driver remembers the account of its own key file.
LEMMA RememberedIs ==
    ASSUME Types, Caches, NEW c \in Client, Me(c) \in Server \X Service, setup' = setup,
           Remembered(c) \/ svcAccount' = svcAccount
    PROVE  /\ svcAccount' \in [Server \X Service -> Account \cup {None}]
           /\ \A d \in Server \X Service :
                 svcAccount'[d] # None => svcAccount'[d] = setup.acct[d[2]] /\ setup.acct[d[2]] # "default"
           /\ \A d \in Server \X Service : d # Me(c) => svcAccount'[d] = svcAccount[d]
           /\ setup.driver # "gcepd" => svcAccount' = svcAccount
<1>1. CASE svcAccount' = svcAccount
  BY <1>1 DEF Caches
<1>2. CASE Remembered(c) /\ setup.driver # "gcepd"
  BY <1>1, <1>2 DEF Remembered
<1>3. CASE Remembered(c) /\ setup.driver = "gcepd"
  <2> DEFINE a == setup.acct[req[c].svc]
             m == IF a = "default" THEN None ELSE a
  <2>1. svcAccount' = [svcAccount EXCEPT ![Me(c)] = m]
    BY <1>3 DEF Remembered
  <2>2. Me(c)[2] = req[c].svc /\ req[c].svc \in Service
    BY DEF Me
  <2>3. a \in Account /\ a = setup.acct[Me(c)[2]]
    BY <2>2 DEF Types, Configuration
  <2>4. m \in Account \cup {None} /\ (m # None => m = a /\ a # "default")
    BY <2>3
  <2> HIDE DEF m, a
  <2>5. svcAccount \in [Server \X Service -> Account \cup {None}]
    BY DEF Caches
  <2>6. /\ svcAccount' \in [Server \X Service -> Account \cup {None}]
        /\ svcAccount'[Me(c)] = m
        /\ \A d \in Server \X Service : d # Me(c) => svcAccount'[d] = svcAccount[d]
    BY <2>1, <2>4, <2>5
  <2> QED
    BY <1>3, <2>3, <2>4, <2>6, ZenonT(60) DEF Caches
<1> QED
  BY <1>1, <1>2, <1>3

\* Every step of a request keeps the caches as the keys say.
LEMMA CachesWork ==
    ASSUME Types, Requests, Caches, NEW c \in Client, Work(c)
    PROVE  Caches'
<1>0. Still /\ setup' = setup /\ drivers' = drivers
  BY WorkCases DEF Still
<1>1. CASE UNCHANGED <<sessions, svcAccount>>
  BY <1>0, <1>1, CachesStay
<1>2. CASE /\ req[c].pc = "connect"
           /\ Connected(c) \/ Refused(c)
           /\ Remembered(c) \/ svcAccount' = svcAccount
  <2>1. Asking(c)
    BY DEF Requests
  <2>2. Me(c) \in Server \X Service
    BY <1>2, <2>1 DEF Asking, Me
  <2>3. /\ svcAccount' \in [Server \X Service -> Account \cup {None}]
        /\ \A d \in Server \X Service :
              svcAccount'[d] # None => svcAccount'[d] = setup.acct[d[2]] /\ setup.acct[d[2]] # "default"
    BY <1>0, <1>2, <2>2, RememberedIs
  <2>4. CASE sessions' = sessions
    BY <1>0, <2>3, <2>4 DEF Caches, Filed
  <2>5. CASE Store(StoreKey(Me(c), req[c].region), NewSession(Me(c), req[c].region))
    <3>1. \A k \in DOMAIN sessions' : Filed(k)'
      BY <1>0, <2>2, <2>5, FiledStep
    <3>2. DOMAIN sessions \subseteq DOMAIN sessions'
      BY <2>5, Stored
    <3> QED
      BY <1>0, <2>3, <3>1, <3>2 DEF Caches
  <2> QED
    BY <1>2, <2>4, <2>5 DEF Connected, Refused
<1> QED
  BY <1>1, <1>2, WorkCases DEF Login, serviceExists

\* Keys change only with what a driver remembers.
LEMMA KeyStays ==
    ASSUME NEW d \in Server \X Service, NEW r, setup' = setup, svcAccount'[d] = svcAccount[d]
    PROVE  Key(d, r)' = Key(d, r)
BY DEF Key

\* A step of newServer makes no session that a Login looks for.
LEMMA OnceBoot ==
    ASSUME Types, Requests, Caches, Once, NEW x \in Server, Boot(x), Types'
    PROVE  Once'
<1>0. setup' = setup /\ svcAccount' = svcAccount /\ req' = req /\ Cached' = Cached
  BY BootStays DEF Cached
<1> SUFFICES ASSUME setup.driver # "s3fs"
             PROVE  Once'
  BY <1>0 DEF Once
<1>1. sessions' = sessions
  BY DEF Boot, initStorageDriver
<1>2. faults' = MaxFaults => faults = MaxFaults
  <2>1. faults' <= faults /\ faults \in Nat /\ faults <= MaxFaults
    BY Moves DEF Types
  <2> QED
    BY <2>1, StartupAssumption, SMT
<1>3. \A d, r : Key(d, r)' = Key(d, r)
  BY <1>0 DEF Key
<1>4. ASSUME Cached, NEW c \in Client, req[c].pc = "connect"
      PROVE  Key(Me(c), req[c].region)' \notin DOMAIN sessions
  <2>1. Key(Me(c), req[c].region)' = Key(Me(c), req[c].region)
    BY <1>0 DEF Key, Me
  <2> QED
    BY <1>4, <2>1 DEF Once
<1>5. ASSUME faults' = MaxFaults, NEW k \in DOMAIN sessions
      PROVE  Key(sessions[k].by, sessions[k].region)' \in DOMAIN sessions
  <2>1. Key(sessions[k].by, sessions[k].region)' = Key(sessions[k].by, sessions[k].region)
    BY <1>0, <1>1 DEF Key
  <2> QED
    BY <1>2, <1>5, <2>1 DEF Once
<1>6. ASSUME faults' = MaxFaults, setup.driver = "gcepd", NEW d \in Server \X Service,
             NEW r \in Region \cup {None}, svcAccount[d] # None
      PROVE  Key(d, r)' \in DOMAIN sessions
  BY <1>2, <1>3, <1>6 DEF Once
<1> QED
  BY <1>0, <1>1, <1>4, <1>5, <1>6 DEF Once

\* A step that changes no session and nothing a driver remembers.
LEMMA OnceStay ==
    ASSUME Once, Still, sessions' = sessions, svcAccount' = svcAccount, faults' = faults,
           setup.driver # "s3fs" /\ Cached =>
              \A c \in Client : req'[c].pc = "connect" =>
                 \/ req'[c] = req[c]
                 \/ Key(Me(c), req[c].region)' \notin DOMAIN sessions
    PROVE  Once'
<1>0. setup' = setup /\ Cached' = Cached
  BY DEF Still, Cached
<1> SUFFICES ASSUME setup.driver # "s3fs"
             PROVE  Once'
  BY <1>0 DEF Once
<1>3. \A d, r : Key(d, r)' = Key(d, r)
  BY <1>0 DEF Key
<1>4. ASSUME Cached, NEW c \in Client, req'[c].pc = "connect"
      PROVE  Key(Me(c), req[c].region)' \notin DOMAIN sessions
  <2>1. CASE req'[c] = req[c]
    <3>1. Key(Me(c), req[c].region)' = Key(Me(c), req[c].region)
      BY <1>0, <2>1 DEF Key, Me
    <3> QED
      BY <1>4, <2>1, <3>1 DEF Once
  <2> QED
    BY <1>4, <2>1
<1>5. ASSUME faults = MaxFaults, NEW k \in DOMAIN sessions
      PROVE  Key(sessions[k].by, sessions[k].region)' \in DOMAIN sessions
  <2>1. Key(sessions[k].by, sessions[k].region)' = Key(sessions[k].by, sessions[k].region)
    BY <1>0 DEF Key
  <2> QED
    BY <1>5, <2>1 DEF Once
<1>6. ASSUME faults = MaxFaults, setup.driver = "gcepd", NEW d \in Server \X Service,
             NEW r \in Region \cup {None}, svcAccount[d] # None
      PROVE  Key(d, r)' \in DOMAIN sessions
  BY <1>3, <1>6 DEF Once
<1> QED
  BY <1>0, <1>4, <1>5, <1>6 DEF Once

\* After a connection nobody is connecting, for the mutex is the package's.
LEMMA NobodyConnects ==
    ASSUME Requests, NEW c \in Client, req[c].pc = "connect", setup.driver # "s3fs",
           req' = [req EXCEPT ![c] = NoRequest]
    PROVE  \A e \in Client : req'[e].pc # "connect"
<1>1. \A e \in Client : req[e].pc = "connect" => e = c
  BY DEF Requests, Cache
<1>2. req \in [Client -> Request]
  BY DEF Requests
<1> QED
  BY <1>1, <1>2, Answered

\* A driver finds the session it has just made.
LEMMA OnceStored ==
    ASSUME Types, Caches, Once, NEW d \in Server \X Service, NEW r \in Region \cup {None},
           setup' = setup, setup.driver # "s3fs", Cached, faults' = faults,
           Key(d, r) \notin DOMAIN sessions,
           Store(StoreKey(d, r), NewSession(d, r)),
           IF setup.driver = "gcepd"
           THEN svcAccount' = [svcAccount EXCEPT ![d] =
                                  IF setup.acct[d[2]] = "default" THEN None ELSE setup.acct[d[2]]]
           ELSE svcAccount' = svcAccount,
           \A e \in Client : req'[e].pc # "connect"
    PROVE  Once'
<1>0. svcAccount \in [Server \X Service -> Account \cup {None}]
  BY DEF Caches
<1> SUFFICES ASSUME faults = MaxFaults
             PROVE  /\ \A k \in DOMAIN sessions' : Key(sessions[k].by, sessions[k].region)' \in DOMAIN sessions'
                    /\ setup.driver = "gcepd" =>
                          \A e \in Server \X Service, q \in Region \cup {None} :
                             svcAccount'[e] # None => Key(e, q)' \in DOMAIN sessions'
  BY DEF Once
<1>1. PICK k0 : k0 = StoreKey(d, r)
  OBVIOUS
<1>2. PICK s0 : s0 = NewSession(d, r)
  OBVIOUS
<1>3. s0.by = d /\ s0.region = r
  BY <1>2 DEF NewSession
<1>4. /\ DOMAIN sessions' = DOMAIN sessions \cup {k0}
      /\ sessions'[k0] = s0
      /\ \A j \in DOMAIN sessions : j # k0 => sessions'[j] = sessions[j]
  <2>1. Store(k0, s0)
    BY <1>1, <1>2
  <2> QED
    BY <2>1, Stored
<1>5. \A e \in Server \X Service : e # d => svcAccount'[e] = svcAccount[e]
  BY <1>0
<1>6. setup.driver = "gcepd" => \A q : Key(d, q)' = k0
  <2> SUFFICES ASSUME setup.driver = "gcepd", NEW q
               PROVE  Key(d, q)' = k0
    OBVIOUS
  <2>1. svcAccount[d] = None
    BY DEF Once
  <2>2. Key(d, q)' = <<"project">> \o (IF svcAccount'[d] = None THEN << >> ELSE <<svcAccount'[d]>>)
    BY DEF Key
  <2>3. CASE setup.acct[d[2]] = "default"
    <3>1. k0 = <<"project">>
      BY <1>1, <2>1, <2>3, StoreKeyIs
    <3>2. svcAccount'[d] = None
      BY <1>0, <2>3
    <3> QED
      BY <2>2, <3>1, <3>2, ProjectKeys
  <2>4. CASE setup.acct[d[2]] # "default"
    <3>1. k0 = <<"project", setup.acct[d[2]]>>
      BY <1>1, <2>1, <2>4, StoreKeyIs
    <3>2. svcAccount'[d] = setup.acct[d[2]]
      BY <1>0, <2>4
    <3>3. setup.acct[d[2]] # None
      BY StartupAssumption, SMT DEF Types, Configuration
    <3> QED
      BY <2>2, <3>1, <3>2, <3>3, ProjectKeys
  <2> QED
    BY <2>3, <2>4
<1>7. setup.driver # "gcepd" => Key(d, r)' = k0
  <2> SUFFICES ASSUME setup.driver # "gcepd"
               PROVE  Key(d, r)' = k0
    OBVIOUS
  <2>1. Key(d, r)' = Key(d, r)
    BY KeyStays
  <2> QED
    BY <1>1, <2>1, StoreKeyIs
<1>8. ASSUME NEW k \in DOMAIN sessions'
      PROVE  Key(sessions[k].by, sessions[k].region)' \in DOMAIN sessions'
  <2>1. PICK e, q : e = sessions'[k].by /\ q = sessions'[k].region
    OBVIOUS
  <2>2. Key(sessions[k].by, sessions[k].region)' = Key(e, q)'
    BY <2>1 DEF Key
  <2>3. CASE k = k0
    <3>1. e = d /\ q = r
      BY <1>3, <1>4, <2>1, <2>3
    <3>2. Key(d, r)' = k0
      BY <1>6, <1>7
    <3> QED
      BY <1>4, <2>2, <3>1, <3>2
  <2>4. CASE k # k0
    <3>1. k \in DOMAIN sessions /\ e = sessions[k].by /\ q = sessions[k].region
      BY <1>4, <2>1, <2>4
    <3>2. Key(e, q) \in DOMAIN sessions /\ e \in Server \X Service
      BY <3>1 DEF Once, Caches, Filed
    <3>3. CASE e = d /\ setup.driver = "gcepd"
      BY <1>4, <1>6, <2>2, <3>3, ZenonT(60)
    <3>4. CASE ~(e = d /\ setup.driver = "gcepd")
      <4>1. svcAccount'[e] = svcAccount[e]
        BY <1>5, <3>2, <3>4
      <4>2. Key(e, q)' = Key(e, q)
        BY <3>2, <4>1, KeyStays
      <4> QED
        BY <1>4, <2>2, <3>2, <4>2
    <3> QED
      BY <3>3, <3>4
  <2> QED
    BY <2>3, <2>4
<1>9. ASSUME setup.driver = "gcepd", NEW e \in Server \X Service, NEW q \in Region \cup {None},
             svcAccount'[e] # None
      PROVE  Key(e, q)' \in DOMAIN sessions'
  <2>1. CASE e = d
    BY <1>4, <1>6, <1>9, <2>1
  <2>2. CASE e # d
    <3>1. svcAccount'[e] = svcAccount[e]
      BY <1>5, <2>2
    <3>2. Key(e, q)' = Key(e, q)
      BY <3>1, KeyStays
    <3>3. Key(e, q) \in DOMAIN sessions
      BY <1>9, <3>1 DEF Once
    <3> QED
      BY <1>4, <3>2, <3>3
  <2> QED
    BY <2>1, <2>2
<1> QED
  BY <1>8, <1>9

\* Every step of a request keeps Once.
LEMMA OnceWork ==
    ASSUME Types, Requests, Caches, Once, NEW c \in Client, Work(c)
    PROVE  Once'
<1>0. Still /\ setup' = setup
  BY WorkCases DEF Still
<1> SUFFICES ASSUME setup.driver # "s3fs"
             PROVE  Once'
  BY <1>0 DEF Once
<1>1. req \in [Client -> Request] /\ Asking(c)
  BY DEF Requests
<1>2. CASE req[c].pc \in {"one", "all"} /\ UseService(c) /\ UNCHANGED <<locked, sessions, svcAccount, faults>>
  <2>1. CASE req' = [req EXCEPT ![c].pc = "login"]
    <3>1. req'[c].pc = "login" /\ \A e \in Client : e # c => req'[e] = req[e]
      BY <1>1, <2>1, Advance
    <3>2. \A e \in Client : req'[e].pc = "connect" => req'[e] = req[e]
      BY <3>1
    <3> QED
      BY <1>0, <1>2, <3>2, OnceStay
  <2>2. CASE req' = [req EXCEPT ![c] = NoRequest]
    <3>1. req'[c].pc = "idle" /\ \A e \in Client : e # c => req'[e] = req[e]
      BY <1>1, <2>2, Answered
    <3>2. \A e \in Client : req'[e].pc = "connect" => req'[e] = req[e]
      BY <3>1
    <3> QED
      BY <1>0, <1>2, <3>2, OnceStay
  <2> QED
    BY <1>2, <2>1, <2>2 DEF UseService, Answer
<1>3. CASE Login(c)
  <2>0. sessions' = sessions /\ svcAccount' = svcAccount /\ faults' = faults
    BY <1>3 DEF Login
  <2>1. CASE Cached /\ Key(Me(c), req[c].region) \in DOMAIN sessions
    <3>0. req' = [req EXCEPT ![c] = NoRequest]
      BY <1>3, <2>1 DEF Login, Answer
    <3>1. req'[c].pc = "idle" /\ \A e \in Client : e # c => req'[e] = req[e]
      BY <1>1, <3>0, Answered
    <3>2. \A e \in Client : req'[e].pc = "connect" => req'[e] = req[e]
      BY <3>1
    <3> QED
      BY <1>0, <2>0, <3>2, OnceStay
  <2>2. CASE ~(Cached /\ Key(Me(c), req[c].region) \in DOMAIN sessions)
    <3>0. req' = [req EXCEPT ![c].pc = "connect"]
      BY <1>3, <2>2 DEF Login
    <3>1. /\ req'[c].pc = "connect" /\ req'[c].srv = req[c].srv /\ req'[c].svc = req[c].svc
          /\ req'[c].region = req[c].region
          /\ \A e \in Client : e # c => req'[e] = req[e]
      BY <1>1, <3>0, Advance
    <3>2. Key(Me(c), req[c].region)' = Key(Me(c), req[c].region)
      BY <1>0, <2>0, <3>1 DEF Key, Me
    <3>3. \A e \in Client : req'[e].pc = "connect" /\ Cached =>
             req'[e] = req[e] \/ Key(Me(e), req[e].region)' \notin DOMAIN sessions
      BY <2>2, <3>1, <3>2
    <3> QED
      BY <1>0, <2>0, <3>3, OnceStay
  <2> QED
    BY <2>1, <2>2
<1>4. CASE serviceExists(c)
  BY <1>1, <1>4 DEF serviceExists, Asking
<1>5. CASE req[c].pc = "connect" /\ Connected(c) /\ Remembered(c)
  <2>0. faults' = faults /\ req' = [req EXCEPT ![c] = NoRequest]
    BY <1>5 DEF Connected, Answer
  <2>1. \A e \in Client : req'[e].pc # "connect"
    BY <1>5, <2>0, NobodyConnects
  <2>2. CASE ~Cached
    <3>1. sessions' = sessions /\ svcAccount' = svcAccount
      BY <1>5, <2>2 DEF Connected, Remembered, Cached
    <3> QED
      BY <1>0, <2>0, <2>1, <3>1, OnceStay
  <2>3. CASE Cached
    <3>1. PICK d, r : d = Me(c) /\ r = req[c].region
      OBVIOUS
    <3>2. d \in Server \X Service /\ r \in Region \cup {None} /\ d[2] = req[c].svc
      BY <1>1, <1>5, <3>1 DEF Asking, Me, Request
    <3>3. Key(d, r) \notin DOMAIN sessions
      BY <1>5, <2>3, <3>1 DEF Once
    <3>4. Store(StoreKey(d, r), NewSession(d, r))
      BY <1>5, <2>3, <3>1 DEF Connected
    <3>5. IF setup.driver = "gcepd"
          THEN svcAccount' = [svcAccount EXCEPT ![d] =
                                 IF setup.acct[d[2]] = "default" THEN None ELSE setup.acct[d[2]]]
          ELSE svcAccount' = svcAccount
      BY <1>5, <3>1, <3>2 DEF Remembered
    <3> QED
      BY <1>0, <2>0, <2>1, <2>3, <3>2, <3>3, <3>4, <3>5, OnceStored, ZenonT(60)
  <2> QED
    BY <2>2, <2>3
<1>6. CASE req[c].pc = "connect" /\ Refused(c)
  <2>0. faults' = faults - 1 /\ req' = [req EXCEPT ![c] = NoRequest]
    BY <1>6 DEF Refused, Answer
  <2>1. \A e \in Client : req'[e].pc # "connect"
    BY <1>6, <2>0, NobodyConnects
  <2>2. faults' # MaxFaults
    BY <2>0, StartupAssumption, SMT DEF Types
  <2> QED
    BY <2>1, <2>2 DEF Once
<1> QED
  BY <1>2, <1>3, <1>4, <1>5, <1>6, WorkCases

-----------------------------------------------------------------------------
(* The answers *)

\* A step that answers nobody.
LEMMA ToldNothing ==
    ASSUME told' = NoAnswer
    PROVE  Told'
<1>1. told'.res = "none"
  BY DEF NoAnswer
<1> QED
  BY <1>1 DEF Told

\* What a step of a request answers is right.
LEMMA ToldWork ==
    ASSUME Types, Requests, Caches, \A x \in Server : Equipped(x), NEW c \in Client, Work(c)
    PROVE  Told'
<1>0. Still /\ setup' = setup
  BY WorkCases DEF Still
<1>1. Asking(c)
  BY DEF Requests
<1>2. ASSUME NEW s, Answer(c, "ok", s),
             req[c].pc # "idle",
             s # NoSession =>
                /\ s.acct = setup.acct[req[c].svc] \/ (setup.driver = "gcepd" /\ s.acct = "default")
                /\ setup.driver \notin {"gcepd", "azureud"} => s.region = req[c].region
      PROVE  Told'
  <2>1. told'.res = "ok" /\ told'.req = req[c] /\ told'.s = s
    BY <1>2 DEF Answer
  <2>2. req[c].region = req[c].place
        \/ (setup.driver = "s3fs" /\ req[c].place = USEast /\ req[c].region = setup.region)
    BY <1>1, <1>2 DEF Asking, getServiceForBucket
  <2> QED
    BY <1>0, <1>2, <2>1, <2>2 DEF Told, Fits
<1>3. CASE req[c].pc \in {"one", "all"} /\ UseService(c)
  <2>1. req[c].srv \in registered
    BY <1>1, <1>3 DEF Asking, Equipped
  <2>2. told' = NoAnswer \/ Answer(c, "ok", NoSession)
    BY <1>3, <2>1 DEF UseService
  <2> QED
    BY <1>2, <1>3, <2>2, ToldNothing
<1>4. CASE Login(c)
  <2>1. Me(c) \in Server \X Service /\ Me(c)[2] = req[c].svc /\ req[c].pc = "login"
    BY <1>1, <1>4 DEF Login, Asking, Me
  <2>2. CASE Cached /\ Key(Me(c), req[c].region) \in DOMAIN sessions
    <3>1. PICK d, r : d = Me(c) /\ r = req[c].region
      OBVIOUS
    <3>2. PICK s : s = sessions[Key(d, r)]
      OBVIOUS
    <3>3. Answer(c, "ok", s)
      BY <1>4, <2>2, <3>1, <3>2 DEF Login
    <3>4. Key(d, r) \in DOMAIN sessions /\ d \in Server \X Service /\ d[2] = req[c].svc
      BY <2>1, <2>2, <3>1
    <3>5. /\ s.acct = setup.acct[d[2]] \/ (setup.driver = "gcepd" /\ s.acct = "default")
          /\ setup.driver \notin {"gcepd", "azureud"} => s.region = r
      BY <3>2, <3>4, FoundFits
    <3> QED
      BY <1>2, <2>1, <3>1, <3>3, <3>4, <3>5
  <2>3. CASE ~(Cached /\ Key(Me(c), req[c].region) \in DOMAIN sessions)
    BY <1>4, <2>3, ToldNothing DEF Login
  <2> QED
    BY <2>2, <2>3
<1>5. CASE serviceExists(c)
  BY <1>5, ToldNothing DEF serviceExists
<1>6. CASE req[c].pc = "connect" /\ Connected(c)
  <2>1. PICK s : s = NewSession(Me(c), req[c].region)
    OBVIOUS
  <2>2. Answer(c, "ok", s)
    BY <1>6, <2>1 DEF Connected
  <2>3. s.acct = setup.acct[req[c].svc] /\ s.region = req[c].region
    BY <2>1 DEF NewSession, Me
  <2> QED
    BY <1>2, <1>6, <2>2, <2>3
<1>7. CASE req[c].pc = "connect" /\ Refused(c) /\ setup.driver \in {"gcepd", "azureud", "s3fs"}
  <2>1. told'.res = "err" /\ told'.req = req[c]
    BY <1>7 DEF Refused, Answer
  <2>2. setup.driver = "s3fs" => req[c].region # setup.region
    BY <1>1, <1>7 DEF Asking
  <2> QED
    BY <1>0, <1>7, <2>1, <2>2 DEF Told
<1> QED
  BY <1>3, <1>4, <1>5, <1>6, <1>7, WorkCases

-----------------------------------------------------------------------------
(* The invariant *)

Boots ==
    /\ Types /\ OneAtATime /\ Alive
    /\ \A x \in Server : Placed(x) /\ Equipped(x) /\ Explains(x)

Inv == Boots /\ Requests /\ Caches /\ Once /\ Told

\* The invariant holds initially.
LEMMA InitInv == Init => Inv
<1> SUFFICES ASSUME Init
             PROVE  Inv
  OBVIOUS
<1> USE StartupAssumption
<1>1. Types
  <2>1. setup \in Configuration /\ faults \in Nat /\ faults <= MaxFaults
    BY SMT DEF Init
  <2>2. \A x \in Server : writing = x <=> pc[x] = "register"
    BY DEF Init
  <2>3. /\ pc \in [Server -> Ended \cup {"endpoints", "listen", "services", "register", "routers", "append"}]
        /\ todo \in [Server -> SUBSET (Endpoint \cup Service)]
        /\ port \in [Server -> Port \cup {None}]
        /\ bound \in [Port -> Server \cup {None}]
        /\ drivers \in [Server -> SUBSET Service]
        /\ seen \in [Server -> SUBSET Server]
    BY DEF Init, Ended
  <2> QED
    BY <2>1, <2>2, <2>3 DEF Init, Types
<1>2. OneAtATime /\ Alive
  BY DEF Init, OneAtATime, Alive, Ended
<1>3. ASSUME NEW x \in Server
      PROVE  Placed(x) /\ Equipped(x) /\ Explains(x)
  <2>1. pc[x] = "idle"
    BY DEF Init
  <2>2. Listeners(x) = {}
    BY DEF Init, Listeners
  <2> QED
    BY <2>1, <2>2 DEF Placed, Equipped, Explains
<1>4. \A c \in Client : req[c].pc = "idle"
  BY DEF Init, NoRequest
<1>5. Requests
  <2>1. NoRequest \in Request
    BY DEF NoRequest, Request
  <2>2. req \in [Client -> Request] /\ locked = {}
    BY <2>1 DEF Init
  <2>3. \A c \in Client : Asking(c)
    BY <1>4 DEF Asking
  <2> QED
    BY <1>4, <2>2, <2>3 DEF Requests
<1>6. DOMAIN sessions = {} /\ drivers = [x \in Server |-> {}] /\ svcAccount = [d \in Server \X Service |-> None]
  BY SMT DEF Init
<1>7. Caches
  BY <1>6 DEF Caches
<1>8. Once
  BY <1>4, <1>6 DEF Once
<1>9. Told
  BY DEF Init, NoAnswer, Told
<1> QED
  BY <1>1, <1>2, <1>3, <1>5, <1>7, <1>8, <1>9 DEF Inv, Boots

\* Steps of newServer keep the invariant.
LEMMA InvBoot ==
    ASSUME Inv, NEW x \in Server, Boot(x)
    PROVE  Inv'
<1>0. Types /\ OneAtATime /\ Alive /\ Requests /\ Caches /\ Once
      /\ \A y \in Server : Placed(y) /\ Equipped(y) /\ Explains(y)
  BY DEF Inv, Boots
<1>1. Types'
  BY <1>0, BootTypes
<1>2. OneAtATime'
  BY <1>0, <1>1, OneAtATimeStep
<1>3. Alive'
  BY <1>0, BootStays, StartedGrows DEF Alive
<1>4. ASSUME NEW y \in Server, y # x
      PROVE  Placed(y)' /\ Equipped(y)' /\ Explains(y)'
  <2>1. /\ pc'[y] = pc[y] /\ todo'[y] = todo[y] /\ port'[y] = port[y]
        /\ drivers'[y] = drivers[y] /\ registered \subseteq registered'
        /\ Listeners(y)' = Listeners(y) /\ initDefaultEndpoint' = initDefaultEndpoint
    BY <1>0, <1>4, OthersStay, BoundStays, BootStays
  <2>2. Placed(y)'
    BY <1>0, <2>1 DEF Placed
  <2>3. Equipped(y)'
    BY <1>0, <2>1 DEF Equipped
  <2> QED
    BY <1>0, <1>1, <1>4, <2>2, <2>3, ExplainsOther
<1>5. Placed(x)' /\ Equipped(x)' /\ Explains(x)'
  BY <1>0, <1>1, PlacedStep, EquippedStep, ExplainsSelf
<1>6. Requests'
  BY <1>0, RequestsBoot
<1>7. Caches'
  BY <1>0, CachesBoot
<1>8. Once'
  BY <1>0, <1>1, OnceBoot
<1>9. Told'
  BY ToldNothing DEF Boot
<1> QED
  BY <1>1, <1>2, <1>3, <1>4, <1>5, <1>6, <1>7, <1>8, <1>9, ZenonT(60) DEF Inv, Boots

\* Requests leave the start of the servers alone, but for errors of the platform and
\* the unlocked map.
LEMMA BootsStill ==
    ASSUME Boots, Still, faults' \in Nat, faults' <= faults, Alive'
    PROVE  Boots'
<1>0. /\ setup' = setup /\ pc' = pc /\ todo' = todo /\ port' = port /\ bound' = bound
      /\ drivers' = drivers /\ writing' = writing /\ registered' = registered /\ seen' = seen
      /\ servers' = servers /\ overlap' = overlap
  BY DEF Still
<1>1. faults \in Nat /\ faults <= MaxFaults
  BY DEF Boots, Types
<1>2. faults' <= MaxFaults /\ (faults < MaxFaults => faults' < MaxFaults)
  BY <1>1, StartupAssumption, SMT
<1>3. Types' /\ OneAtATime'
  BY <1>0, <1>2 DEF Boots, Types, OneAtATime
<1>4. ASSUME NEW x \in Server
      PROVE  Placed(x)' /\ Equipped(x)' /\ Explains(x)'
  <2>1. Listeners(x)' = Listeners(x) /\ initDefaultEndpoint' = initDefaultEndpoint /\ Started' = Started
    BY <1>0 DEF Listeners, initDefaultEndpoint, Started
  <2>2. Placed(x)' /\ Equipped(x)'
    BY <1>0, <2>1 DEF Boots, Placed, Equipped
  <2>3. Explained(x) => Explained(x)'
    BY <1>0, <1>2, <2>1 DEF Explained
  <2>4. Explains(x)'
    BY <1>0, <2>1, <2>3 DEF Boots, Explains
  <2> QED
    BY <2>2, <2>4
<1> QED
  BY <1>3, <1>4 DEF Boots

\* Arrivals keep the invariant.
LEMMA InvArrive ==
    ASSUME Inv, NEW c \in Client, up, Arrive(c), Still
    PROVE  Inv'
<1>0. Types /\ Boots /\ Requests /\ Caches /\ Once /\ req \in [Client -> Request]
  BY DEF Inv, Boots, Requests
<1>1. up' = up /\ UNCHANGED <<sessions, svcAccount, faults>> /\ told' = NoAnswer
  BY DEF Arrive
<1>2. faults' \in Nat /\ faults' <= faults
  BY <1>0, <1>1, SMT DEF Types
<1>3. Boots'
  BY <1>0, <1>1, <1>2, BootsStill DEF Alive
<1>4. Requests'
  BY <1>0, RequestsArrive
<1>5. Caches'
  BY <1>0, <1>1, CachesStay
<1>6. \A e \in Client : req'[e].pc = "connect" => req'[e] = req[e]
  <2>1. PICK x \in Server, v \in Service, l \in {"one", "all"},
             r \in (IF HasLogin THEN Region ELSE {setup.region}) :
          Ask(c, x, v, l, r)
    BY Zenon DEF Arrive
  <2>2. req'[c].pc # "connect" /\ \A e \in Client : e # c => req'[e] = req[e]
    BY <1>0, <2>1 DEF Ask
  <2> QED
    BY <2>2
<1>7. Once'
  BY <1>0, <1>1, <1>6, OnceStay
<1> QED
  BY <1>1, <1>3, <1>4, <1>5, <1>7, ToldNothing DEF Inv

\* Steps of a request keep the invariant.
LEMMA InvWork ==
    ASSUME Inv, NEW c \in Client, Work(c)
    PROVE  Inv'
<1>0. Types /\ Boots /\ Requests /\ Caches /\ Once /\ Still /\ (\A x \in Server : Equipped(x))
  BY WorkCases DEF Inv, Boots
<1>1. faults' \in Nat /\ faults' <= faults
  <2>1. faults \in Nat
    BY <1>0 DEF Types
  <2>2. faults' = faults \/ (faults > 0 /\ faults' = faults - 1)
    BY WorkCases DEF Login, serviceExists, Connected, Refused
  <2> QED
    BY <2>1, <2>2, SMT
<1>2. Alive'
  <2>1. CASE up'
    BY <2>1 DEF Alive
  <2>2. CASE ~up'
    <3>1. req[c].pc \in {"one", "all"} /\ writing # None
      BY <2>2, WorkCases
    <3>2. Asking(c)
      BY <1>0 DEF Requests
    <3>3. writing \in Server /\ pc[writing] = "register"
      BY <1>0, <3>1 DEF Types
    <3>4. req[c].srv \in Server /\ pc[req[c].srv] = "serving"
      BY <3>1, <3>2 DEF Asking
    <3>5. writing \in Started /\ req[c].srv \in Started /\ writing # req[c].srv
      BY <3>3, <3>4 DEF Started
    <3>6. Started' = Started
      BY <1>0 DEF Still, Started
    <3>7. \E x, y \in Started' : x # y
      BY <3>5, <3>6
    <3> QED
      BY <3>7 DEF Alive
  <2> QED
    BY <2>1, <2>2
<1>3. Boots'
  BY <1>0, <1>1, <1>2, BootsStill
<1>4. Requests' /\ Caches' /\ Once' /\ Told'
  BY <1>0, RequestsWork, CachesWork, OnceWork, ToldWork
<1> QED
  BY <1>3, <1>4 DEF Inv

\* The inductive invariant of the start of servers and of their session caches.
THEOREM Invariant == Spec => []Inv
<1>1. Inv /\ [Next]_vars => Inv'
  <2> SUFFICES ASSUME Inv, [Next]_vars
               PROVE  Inv'
    OBVIOUS
  <2>1. ASSUME NEW x \in Server, Boot(x)
        PROVE  Inv'
    BY <2>1, InvBoot
  <2>2. ASSUME NEW c \in Client, up, Arrive(c), Still
        PROVE  Inv'
    BY <2>2, InvArrive
  <2>3. ASSUME NEW c \in Client, Work(c)
        PROVE  Inv'
    BY <2>3, InvWork
  <2>4. CASE UNCHANGED vars
    <3>1. /\ Still /\ up' = up /\ faults' = faults /\ req' = req /\ locked' = locked
          /\ sessions' = sessions /\ svcAccount' = svcAccount /\ told' = told
      BY <2>4 DEF vars, bootvars, sessvars, Still
    <3>2. Boots /\ Requests /\ Caches /\ Once /\ Told
      BY DEF Inv
    <3>3. Boots'
      <4>1. faults \in Nat
        BY <3>2 DEF Boots, Types
      <4>2. Alive'
        BY <3>1, <3>2 DEF Boots, Alive, Started, Still
      <4> QED
        BY <3>1, <3>2, <4>1, <4>2, BootsStill, SMT
    <3>4. Requests'
      BY <3>1, <3>2, ZenonT(60) DEF Requests, Asking, Still, Cache, Me, HasLogin,
             getServiceForBucket
    <3>5. Caches' /\ Once'
      BY <3>1, <3>2, CachesStay, OnceStay
    <3>6. Told'
      BY <3>1, <3>2 DEF Told, Still, Fits
    <3> QED
      BY <3>3, <3>4, <3>5, <3>6 DEF Inv
  <2> QED
    BY <2>1, <2>2, <2>3, <2>4 DEF Next, Still
<1> QED
  BY InitInv, <1>1, PTL DEF Spec

\* newServer fails only for one of the reasons that are named.
THEOREM FailuresAreExplained == Spec => []StartFailsExplained
<1>1. Inv => StartFailsExplained
  BY DEF Inv, Boots, Explains, Explained, StartFailsExplained
<1> QED
  BY Invariant, <1>1, PTL

\* Login gives a request a session that fits it, a driver with a cache does not
\* connect twice without errors, and only a platform that is asked refuses.
THEOREM SessionsAreRight == Spec => []SessionsRight
<1>1. Inv => SessionsRight
  <2> SUFFICES ASSUME Inv
               PROVE  SessionsRight
    OBVIOUS
  <2>0. Told /\ Once
    BY DEF Inv
  <2>1. ASSUME Cached, setup.driver # "s3fs", faults = MaxFaults,
               NEW c \in Client, NEW k \in DOMAIN sessions, req[c].pc = "connect",
               sessions[k].by = Me(c)
        PROVE  /\ setup.driver \notin {"gcepd", "azureud"}
               /\ sessions[k].region # req[c].region
    <3>1. Key(Me(c), req[c].region) \notin DOMAIN sessions
      BY <2>0, <2>1 DEF Once
    <3>2. Key(Me(c), sessions[k].region) \in DOMAIN sessions
      BY <2>0, <2>1 DEF Once
    <3>3. setup.driver \in {"gcepd", "azureud"} =>
             Key(Me(c), sessions[k].region) = Key(Me(c), req[c].region)
      BY DEF Key
    <3> QED
      BY <3>1, <3>2, <3>3
  <2> QED
    BY <2>0, <2>1 DEF SessionsRight, Told
<1> QED
  BY Invariant, <1>1, PTL

=============================================================================
