---------------------------- MODULE ReadyProofs -----------------------------
(***************************************************************************)
(* The rest of the proofs about Startup: that a server which serves has a  *)
(* listener for each configured endpoint, and with the invariant of        *)
(* StartupProofs that it is complete.                                      *)
(***************************************************************************)
EXTENDS StartupProofs, FiniteSetTheorems

USE Zenon

\* A listener for each endpoint that is set up: those that are still to do, the one
\* that is about to be bound and the listeners make up the configured ones.
Counted(x) ==
    /\ IsFiniteSet(Listeners(x))
    /\ pc[x] = "endpoints" =>
         Cardinality(Listeners(x)) + Cardinality(todo[x]) = Cardinality(initDefaultEndpoint)
    /\ pc[x] = "listen" =>
         Cardinality(Listeners(x)) + Cardinality(todo[x]) + 1 = Cardinality(initDefaultEndpoint)
    /\ pc[x] \in {"services", "register", "routers", "append", "serving"} =>
         Cardinality(Listeners(x)) = Cardinality(initDefaultEndpoint)

AllCounted == \A x \in Server : Counted(x)

\* The configured endpoints, and those still to do, are finitely many.
LEMMA EndpointsFinite ==
    ASSUME Types
    PROVE  /\ initDefaultEndpoint \subseteq Endpoint
           /\ IsFiniteSet(initDefaultEndpoint)
           /\ \A T \in SUBSET initDefaultEndpoint : IsFiniteSet(T)
<1>1. initDefaultEndpoint \subseteq Endpoint
  BY DEF Types, Configuration, initDefaultEndpoint, Endpoint
<1>2. IsFiniteSet(Endpoint)
  <2>1. IsFiniteSet({"auto"})
    BY FS_Singleton
  <2>2. IsFiniteSet({"auto"} \cup {"fixed"})
    BY <2>1, FS_AddElement
  <2>3. IsFiniteSet(({"auto"} \cup {"fixed"}) \cup {"missing"})
    BY <2>2, FS_AddElement
  <2> QED
    BY <2>3 DEF Endpoint
<1> QED
  BY <1>1, <1>2, FS_Subset, ZenonT(60)

\* Every step of newServer keeps count of the endpoints.
LEMMA CountedStep ==
    ASSUME Types, NEW x \in Server, Boot(x), Placed(x), Counted(x)
    PROVE  Counted(x)'
<1> USE StartupAssumption
<1> DEFINE E == initDefaultEndpoint
<1>0. /\ initDefaultEndpoint' = initDefaultEndpoint
      /\ E \subseteq Endpoint /\ IsFiniteSet(E) /\ (\A T \in SUBSET E : IsFiniteSet(T))
      /\ Cardinality(E) \in Nat
  BY BootStays, EndpointsFinite, FS_CardinalityType
<1>c. IsFiniteSet(Listeners(x)) /\ Cardinality(Listeners(x)) \in Nat
  BY FS_CardinalityType DEF Counted
<1>l. ASSUME bound' = bound
      PROVE  Listeners(x)' = Listeners(x)
  BY <1>l DEF Listeners
<1> HIDE DEF E
<1>1. CASE newServer(x)
  <2>1. pc[x] = "idle" /\ Listeners(x) = {} /\ Listeners(x)' = {} /\ todo'[x] = E
    BY <1>1, <1>l, ZenonT(60) DEF newServer, Placed, Types, E
  <2>2. pc'[x] \in {"endpoints", "failed"}
    BY <1>1 DEF newServer, Goto, Types
  <2>3. Cardinality({}) = 0 /\ IsFiniteSet({})
    BY FS_EmptySet
  <2>4. Cardinality({}) + Cardinality(E) = Cardinality(E)
    BY <1>0, <2>3, SMTT(30)
  <2> QED
    BY <1>0, <2>1, <2>2, <2>3, <2>4, ZenonT(60) DEF Counted, E
<1>2. CASE initEndpoints(x)
  <2>0. Listeners(x)' = Listeners(x) /\ todo[x] \subseteq E /\ pc[x] = "endpoints"
        /\ Cardinality(Listeners(x)) + Cardinality(todo[x]) = Cardinality(E)
    BY <1>2, <1>l DEF initEndpoints, Placed, Counted, E
  <2>1. CASE todo[x] = {} /\ Goto(x, "services")
    <3>1. Cardinality(Listeners(x)) = Cardinality(E)
      BY <2>0, <2>1, <1>c, FS_EmptySet, SMTT(30)
    <3>2. pc'[x] = "services"
      BY <2>1 DEF Goto, Types
    <3> QED
      BY <1>0, <1>c, <2>0, <3>1, <3>2, ZenonT(60) DEF Counted, E
  <2>2. ASSUME NEW e \in todo[x], NEW p \in Port, port' = [port EXCEPT ![x] = p],
               todo' = [todo EXCEPT ![x] = @ \ {e}], Goto(x, "listen")
        PROVE  Counted(x)'
    <3>1. pc'[x] = "listen" /\ port'[x] = p /\ todo'[x] = todo[x] \ {e}
      BY <2>2, ZenonT(60) DEF Goto, Types
    <3>2. IsFiniteSet(todo[x])
      BY <1>0, <2>0
    <3>3. Cardinality(todo[x] \ {e}) = Cardinality(todo[x]) - 1 /\ Cardinality(todo[x]) \in Nat
          /\ Cardinality(todo[x] \ {e}) \in Nat
      BY <3>2, FS_RemoveElement, FS_CardinalityType
    <3>4. Cardinality(Listeners(x)) + Cardinality(todo[x] \ {e}) + 1 = Cardinality(E)
      BY <1>c, <2>0, <3>3, SMTT(30)
    <3> QED
      BY <1>0, <1>c, <2>0, <3>1, <3>4, ZenonT(60) DEF Counted, E
  <2>3. CASE Goto(x, "failed")
    <3>1. pc'[x] = "failed"
      BY <2>3 DEF Goto, Types
    <3> QED
      BY <1>c, <2>0, <3>1 DEF Counted
  <2> QED
    BY <1>2, <2>1, <2>2, <2>3, ZenonT(60) DEF initEndpoints
<1>3. CASE newHTTPServer(x)
  <2>0. pc[x] = "listen" /\ port[x] \in Port /\ todo[x] \subseteq E /\ todo'[x] = todo[x]
        /\ Cardinality(Listeners(x)) + Cardinality(todo[x]) + 1 = Cardinality(E)
    BY <1>3 DEF newHTTPServer, Placed, Counted, E
  <2>1. CASE bound[port[x]] = None
    <3>1. pc'[x] = "endpoints" /\ bound' = [bound EXCEPT ![port[x]] = x]
      BY <1>3, <2>1, ZenonT(60) DEF newHTTPServer, Goto, Types
    <3>2. Listeners(x)' = Listeners(x) \cup {port[x]} /\ port[x] \notin Listeners(x)
      BY <2>0, <2>1, <3>1, SMTT(30) DEF Listeners, Types
    <3>3. IsFiniteSet(Listeners(x)') /\ Cardinality(Listeners(x)') = Cardinality(Listeners(x)) + 1
      <4>1. IsFiniteSet(Listeners(x) \cup {port[x]}) /\ Cardinality(Listeners(x) \cup {port[x]}) = Cardinality(Listeners(x)) + 1
        BY <1>c, <3>2, FS_AddElement
      <4> QED
        BY <3>2, <4>1
    <3>4. Cardinality(todo[x]) \in Nat
      BY <1>0, <2>0, FS_CardinalityType, ZenonT(60)
    <3>5. Cardinality(Listeners(x)') + Cardinality(todo[x]) = Cardinality(E)
      BY <1>c, <2>0, <3>3, <3>4, SMTT(30)
    <3> QED
      BY <1>0, <2>0, <3>1, <3>3, <3>5, ZenonT(60) DEF Counted, E
  <2>2. CASE bound[port[x]] # None
    <3>1. pc'[x] = "failed" /\ bound' = bound
      BY <1>3, <2>2 DEF newHTTPServer, Goto, Types
    <3> QED
      BY <1>c, <1>l, <3>1 DEF Counted
  <2> QED
    BY <2>1, <2>2
<1>4. CASE initStorageDriver(x)
  <2>1. pc'[x] \in {"services", "failed"} /\ pc[x] = "services" /\ bound' = bound
    BY <1>4, ZenonT(60) DEF initStorageDriver, Goto, Types
  <2> QED
    BY <1>0, <1>c, <1>l, <2>1, ZenonT(60) DEF Counted
<1>5. CASE initStorageServices(x)
  <2>1. pc'[x] = "register" /\ pc[x] = "services" /\ bound' = bound
    BY <1>5 DEF initStorageServices, Goto, Types
  <2> QED
    BY <1>0, <1>c, <1>l, <2>1 DEF Counted
<1>6. CASE Register(x)
  <2>1. pc'[x] = "routers" /\ pc[x] = "register" /\ bound' = bound
    BY <1>6 DEF Register, Goto, Types
  <2> QED
    BY <1>0, <1>c, <1>l, <2>1, ZenonT(60) DEF Counted
<1>7. CASE initRouters(x)
  <2>1. pc'[x] = "append" /\ pc[x] = "routers" /\ bound' = bound
    BY <1>7 DEF initRouters, Goto, Types
  <2> QED
    BY <1>0, <1>c, <1>l, <2>1, ZenonT(60) DEF Counted
<1>8. CASE AppendServer(x)
  <2>1. pc'[x] = "serving" /\ pc[x] = "append" /\ bound' = bound
    BY <1>8 DEF AppendServer, Goto, Types
  <2> QED
    BY <1>0, <1>c, <1>l, <2>1, ZenonT(60) DEF Counted
<1> QED
  BY <1>1, <1>2, <1>3, <1>4, <1>5, <1>6, <1>7, <1>8, ZenonT(60) DEF Boot

\* A finite set with two different elements has more than one.
LEMMA MoreThanOne ==
    ASSUME NEW S, IsFiniteSet(S), NEW x \in S, NEW y \in S, x # y
    PROVE  Cardinality(S) > 1
<1>1. IsFiniteSet(S \ {x}) /\ Cardinality(S \ {x}) = Cardinality(S) - 1
  BY FS_RemoveElement
<1>2. IsFiniteSet((S \ {x}) \ {y}) /\ Cardinality((S \ {x}) \ {y}) = Cardinality(S \ {x}) - 1
  BY <1>1, FS_RemoveElement
<1>3. Cardinality((S \ {x}) \ {y}) \in Nat /\ Cardinality(S) \in Nat /\ Cardinality(S \ {x}) \in Nat
  BY <1>1, <1>2, FS_CardinalityType, ZenonT(60)
<1> QED
  BY <1>1, <1>2, <1>3, SMTT(30)

\* The listeners make up the endpoints in every reachable state.
THEOREM EndpointsCounted == Spec => []AllCounted
<1>1. Init => AllCounted
  <2> SUFFICES ASSUME Init, NEW x \in Server
               PROVE  Counted(x)
    BY DEF AllCounted
  <2>1. pc[x] = "idle"
    BY DEF Init
  <2>2. Listeners(x) = {}
    BY StartupAssumption DEF Init, Listeners
  <2>3. IsFiniteSet(Listeners(x))
    BY <2>2, FS_EmptySet
  <2> QED
    BY <2>1, <2>3 DEF Counted
<1>2. Inv /\ AllCounted /\ [Next]_vars => AllCounted'
  <2> SUFFICES ASSUME Inv, AllCounted, [Next]_vars, NEW y \in Server
               PROVE  Counted(y)'
    BY DEF AllCounted
  <2>0. Types /\ Counted(y) /\ \A x \in Server : Placed(x)
    BY DEF Inv, Boots, AllCounted
  <2>1. ASSUME NEW x \in Server, Boot(x)
        PROVE  Counted(y)'
    <3>1. CASE x = y
      BY <2>0, <2>1, <3>1, CountedStep, ZenonT(60)
    <3>2. CASE x # y
      <4>1. /\ pc'[y] = pc[y] /\ todo'[y] = todo[y]
            /\ Listeners(y)' = Listeners(y) /\ initDefaultEndpoint' = initDefaultEndpoint
        BY <2>0, <2>1, <3>2, OthersStay, BoundStays, BootStays, ZenonT(60)
      <4> QED
        BY <2>0, <4>1 DEF Counted
    <3> QED
      BY <3>1, <3>2
  <2>2. ASSUME Still
        PROVE  Counted(y)'
    <3>1. /\ pc' = pc /\ todo' = todo
          /\ Listeners(y)' = Listeners(y) /\ initDefaultEndpoint' = initDefaultEndpoint
      BY <2>2 DEF Still, Listeners, initDefaultEndpoint
    <3> QED
      BY <2>0, <3>1 DEF Counted
  <2>3. CASE UNCHANGED vars
    BY <2>2, <2>3 DEF vars, bootvars, Still
  <2>4. CASE Next
    <3>1. (\E x \in Server : Boot(x)) \/ Still
      BY <2>4, WorkCases DEF Next, Still
    <3> QED
      BY <2>1, <2>2, <3>1
  <2> QED
    BY <2>3, <2>4
<1> QED
  BY Invariant, <1>1, <1>2, PTL, ZenonT(60) DEF Spec

\* A server that Serve returns is complete and reached by Close, no request of its
\* meets a nil container, and one server alone does not die of the unlocked map.
THEOREM ServersAreComplete == Spec => []ReadyMeansServed
<1>1. Inv /\ AllCounted => ReadyMeansServed
  <2> SUFFICES ASSUME Inv, AllCounted
               PROVE  ReadyMeansServed
    OBVIOUS
  <2>0. Boots /\ Requests /\ Told
    BY DEF Inv
  <2>1. TypeOK
    <3>1. \A c \in Client : req[c].pc \in {"idle", "one", "all", "login", "lock", "connect"}
      BY <2>0 DEF Requests, Request
    <3>2. told.res \in {"none", "ok", "err", "panic"}
      BY <2>0 DEF Told
    <3> QED
      BY <2>0, <3>1, <3>2, ZenonT(60) DEF TypeOK, Boots, Types, Requests
  <2>2. ASSUME NEW x \in Server, pc[x] = "serving"
        PROVE  /\ Cardinality(Listeners(x)) = Cardinality(initDefaultEndpoint)
               /\ x \in registered /\ drivers[x] = Service
               /\ x \in servers \/ overlap
    BY <2>0, <2>2 DEF Boots, AllCounted, Counted, Equipped, OneAtATime
  <2>3. told.res # "panic"
    BY <2>0 DEF Told
  <2>4. up \/ Cardinality(Started) > 1
    <3>1. IsFiniteSet(Started)
      BY StartupAssumption, FS_Subset DEF Started
    <3> QED
      BY <2>0, <3>1, MoreThanOne DEF Boots, Alive
  <2> QED
    BY <2>1, <2>2, <2>3, <2>4, ZenonT(60) DEF ReadyMeansServed
<1> QED
  BY Invariant, EndpointsCounted, <1>1, PTL, ZenonT(60)

=============================================================================
