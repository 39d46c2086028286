----------------------- MODULE ServerLifecycleProofs ------------------------
(***************************************************************************)
(* Proofs about ServerLifecycle, for any number of servers, endpoints and  *)
(* closers.                                                                *)
(***************************************************************************)
EXTENDS ServerLifecycle, TLAPS

(* The head of a closer's queue is a server, and the tail is a queue. *)
LEMMA QueueParts ==
  ASSUME NEW q \in Seq(Server), q # <<>>
  PROVE  Head(q) \in Server /\ Tail(q) \in Seq(Server) /\ (Len(q) > 1 <=> Tail(q) # <<>>)
OBVIOUS

(* Nothing is created, started or closed at first. *)
LEMMA InitInv == Init => TypeOK /\ Stopping
<1> SUFFICES ASSUME Init PROVE TypeOK /\ Stopping
  OBVIOUS
<1>1. TypeOK
  BY DEF Init, TypeOK
<1>2. MonitorInv /\ OnceInv /\ QueueInv
  BY DEF Init, MonitorInv, OnceInv, QueueInv, Inside
<1> QED
  BY <1>1, <1>2 DEF Stopping

(* The steps that move a closer. *)
LEMMA CloserFrame ==
  ASSUME [Next]_vars
  PROVE  \/ UNCHANGED <<once, cpc, queue>>
         \/ \E c \in Closer : CloseCall(c) \/ OnceDo(c) \/ CloseEnd(c) \/ CloseSignal(c) \/ ClosedSignal(c)
BY Zenon DEF Next, Monitor, CloserStep, newServer, Serve, MonitorError, MonitorClose, EndpointFails,
       CloseEndpoint, vars, closeVars

(* Every step keeps the variables within their types. *)
LEMMA TypeStep == TypeOK /\ Stopping /\ [Next]_vars => TypeOK'
<1> SUFFICES ASSUME TypeOK, Stopping, [Next]_vars PROVE TypeOK'
  OBVIOUS
<1>0. \A c \in Closer : cpc[c] \notin {"idle", "done"} => Head(queue[c]) \in Server /\ Tail(queue[c]) \in Seq(Server)
  BY QueueParts DEF TypeOK, Stopping, OnceInv
<1>1. ASSUME NEW s \in Server, newServer(s) \/ Serve(s) PROVE TypeOK'
  <2>1. CASE newServer(s)
    <3>1. servers' \in Seq(Server)
      BY <2>1 DEF TypeOK, newServer
    <3>2. ep' \in [Server -> [Endpoint -> {"none", "bound", "serving", "failed", "closed"}]]
      BY <2>1 DEF TypeOK, newServer
    <3> QED
      BY <2>1, <3>1, <3>2 DEF TypeOK, newServer, closeVars
  <2>2. CASE Serve(s)
    <3>1. [e \in Endpoint |-> IF ep[s][e] = "bound" THEN "serving" ELSE ep[s][e]]
            \in [Endpoint -> {"none", "bound", "serving", "failed", "closed"}]
      BY DEF TypeOK
    <3>2. ep' \in [Server -> [Endpoint -> {"none", "bound", "serving", "failed", "closed"}]]
      BY <2>2, <3>1 DEF TypeOK, Serve
    <3> QED
      BY <2>2, <3>2 DEF TypeOK, Serve, closeVars
  <2> QED
    BY <1>1, <2>1, <2>2
<1>2. ASSUME NEW s \in Server, Monitor(s) PROVE TypeOK'
  <2>1. CASE MonitorError(s)
    <3>1. srvErrs[s] - 1 \in Nat
      BY <2>1 DEF TypeOK, MonitorError
    <3> QED
      BY <2>1, <3>1 DEF TypeOK, MonitorError, closeVars
  <2>2. CASE MonitorClose(s)
    BY <2>2 DEF TypeOK, MonitorClose, closeVars
  <2> QED
    BY <1>2, <2>1, <2>2 DEF Monitor
<1>3. ASSUME NEW s \in Server, NEW e \in Endpoint, EndpointFails(s, e) PROVE TypeOK'
  BY <1>3 DEF TypeOK, EndpointFails, closeVars
<1>4. ASSUME NEW c \in Closer, CloseCall(c) PROVE TypeOK'
  <2>1. (IF Target[c] = All THEN servers ELSE <<Target[c]>>) \in Seq(Server)
    BY ServerLifecycleAssumption DEF TypeOK
  <2> QED
    BY <1>4, <2>1 DEF TypeOK, CloseCall, serverVars
<1>5. ASSUME NEW c \in Closer, OnceDo(c) PROVE TypeOK'
  <2>1. UNCHANGED serverVars /\ once' \in [Server -> {"new", "running", "done"}]
    BY <1>0, <1>5, Zenon DEF TypeOK, OnceDo
  <2>2. /\ cpc' \in [Closer -> {"idle", "do", "close", "send", "receive", "done"}]
        /\ queue' \in [Closer -> Seq(Server)]
    BY <1>0, <1>5, ZenonT(60) DEF TypeOK, OnceDo, NextServer
  <2> QED
    BY <2>1, <2>2 DEF TypeOK, serverVars
<1>6. ASSUME NEW c \in Closer, NEW e \in Endpoint, CloseEndpoint(c, e) PROVE TypeOK'
  BY <1>0, <1>6, Zenon DEF TypeOK, CloseEndpoint, closeVars
<1>7. ASSUME NEW c \in Closer, CloseEnd(c) \/ CloseSignal(c) PROVE TypeOK'
  BY <1>0, <1>7, Zenon DEF TypeOK, CloseEnd, CloseSignal, serverVars
<1>8. ASSUME NEW c \in Closer, ClosedSignal(c) PROVE TypeOK'
  BY <1>0, <1>8, Zenon DEF TypeOK, ClosedSignal, NextServer
<1>9. CASE UNCHANGED vars
  BY <1>9 DEF TypeOK, vars, serverVars, closeVars
<1> QED
  BY <1>1, <1>2, <1>3, <1>4, <1>5, <1>6, <1>7, <1>8, <1>9 DEF Next, CloserStep

(* The steps that close an endpoint or the error channel only close them;  *)
(* no step opens them again.                                               *)
LEMMA StaysStopped ==
  ASSUME TypeOK, Stopping, [Next]_vars, NEW s \in Server
  PROVE  /\ errsClosed[s] => errsClosed'[s]
         /\ \A e \in Endpoint : ep[s][e] = "closed" => ep'[s][e] = "closed"
<1>0. \A c \in Closer : cpc[c] \notin {"idle", "done"} => Head(queue[c]) \in Server
  BY QueueParts DEF TypeOK, Stopping, OnceInv
<1>1. errsClosed[s] => errsClosed'[s]
  BY Zenon DEF TypeOK, Next, Monitor, CloserStep, newServer, Serve, MonitorError, MonitorClose,
         EndpointFails, CloseCall, OnceDo, CloseEndpoint, CloseEnd, CloseSignal, ClosedSignal,
         vars, serverVars
<1>2. ASSUME NEW e \in Endpoint, ep[s][e] = "closed" PROVE ep'[s][e] = "closed"
  <2>1. ASSUME NEW q \in Server, newServer(q) PROVE ep'[s][e] = "closed"
    BY <1>2, <2>1 DEF TypeOK, newServer
  <2>2. ASSUME NEW q \in Server, Serve(q) PROVE ep'[s][e] = "closed"
    BY <1>2, <2>2 DEF TypeOK, Serve
  <2>3. ASSUME NEW q \in Server, NEW f \in Endpoint, EndpointFails(q, f) PROVE ep'[s][e] = "closed"
    BY <1>2, <2>3 DEF TypeOK, EndpointFails
  <2>4. ASSUME NEW c \in Closer, NEW f \in Endpoint, CloseEndpoint(c, f) PROVE ep'[s][e] = "closed"
    BY <1>0, <1>2, <2>4 DEF TypeOK, CloseEndpoint
  <2>5. CASE UNCHANGED ep
    BY <1>2, <2>5
  <2> QED
    BY <2>1, <2>2, <2>3, <2>4, <2>5
    DEF Next, Monitor, CloserStep, MonitorError, MonitorClose, CloseCall, OnceDo, CloseEnd,
        CloseSignal, ClosedSignal, vars, serverVars
<1> QED
  BY <1>1, <1>2

(* The monitor signals only after it has closed the channel. *)
LEMMA MonitorStep == TypeOK /\ Stopping /\ [Next]_vars => MonitorInv'
<1> SUFFICES ASSUME TypeOK, Stopping, [Next]_vars, NEW s \in Server,
                    monitor'[s] \in {"signal", "done"}
             PROVE  errsClosed'[s]
  BY DEF MonitorInv
<1>0. \A c \in Closer : cpc[c] \notin {"idle", "done"} => Head(queue[c]) \in Server
  BY QueueParts DEF TypeOK, Stopping, OnceInv
<1>1. monitor[s] \in {"signal", "done"} => errsClosed'[s]
  BY StaysStopped DEF Stopping, MonitorInv
<1>2. ASSUME NEW q \in Server, MonitorClose(q) PROVE errsClosed'[s]
  BY <1>1, <1>2 DEF TypeOK, MonitorClose
<1>3. ASSUME NEW q \in Server, MonitorError(q) \/ Serve(q) PROVE errsClosed'[s]
  BY <1>1, <1>3 DEF TypeOK, MonitorError, Serve
<1>4. ASSUME NEW c \in Closer, CloseSignal(c) \/ ClosedSignal(c) PROVE errsClosed'[s]
  <2>1. Head(queue[c]) \in Server
    BY <1>0, <1>4 DEF CloseSignal, ClosedSignal
  <2> QED
    BY <1>1, <1>4, <2>1 DEF TypeOK, CloseSignal, ClosedSignal
<1>5. CASE UNCHANGED monitor
  BY <1>1, <1>5
<1> QED
  BY <1>2, <1>3, <1>4, <1>5, Zenon
  DEF Next, Monitor, CloserStep, newServer, EndpointFails, CloseCall, OnceDo, CloseEndpoint,
      CloseEnd, vars, serverVars

(* closeOnce admits one closer and is done only when the server is stopped. *)
LEMMA OnceStep == TypeOK /\ Stopping /\ [Next]_vars => OnceInv'
<1> SUFFICES ASSUME TypeOK, Stopping, [Next]_vars PROVE OnceInv'
  OBVIOUS
<1>0. OnceInv /\ MonitorInv
  BY DEF Stopping
<1>1. \A s \in Server : (errsClosed[s] => errsClosed'[s])
                        /\ \A e \in Endpoint : ep[s][e] = "closed" => ep'[s][e] = "closed"
  BY StaysStopped
<1>2. \A c \in Closer : cpc[c] \notin {"idle", "done"} =>
        /\ Head(queue[c]) \in Server /\ Tail(queue[c]) \in Seq(Server)
        /\ Len(queue[c]) > 1 <=> Tail(queue[c]) # <<>>
  BY <1>0, QueueParts DEF TypeOK, OnceInv
<1>3. CASE UNCHANGED <<once, cpc, queue>>
  BY <1>0, <1>1, <1>2, <1>3 DEF OnceInv, Inside
<1>4. ASSUME NEW c \in Closer, CloseCall(c) PROVE OnceInv'
  <2>1. /\ cpc[c] = "idle" /\ once' = once
        /\ cpc'[c] \in {"do", "done"} /\ (cpc'[c] = "do" => queue'[c] # <<>>)
        /\ \A d \in Closer : d # c => cpc'[d] = cpc[d] /\ queue'[d] = queue[d]
    BY <1>4 DEF CloseCall, TypeOK
  <2> QED
    BY <1>0, <1>1, <1>2, <2>1 DEF OnceInv, Inside
<1>5. ASSUME NEW c \in Closer, OnceDo(c), once[Head(queue[c])] = "new" PROVE OnceInv'
  <2>1. /\ cpc[c] = "do" /\ cpc'[c] = "close" /\ queue' = queue
        /\ \A d \in Closer : d # c => cpc'[d] = cpc[d]
        /\ Head(queue[c]) \in Server /\ once'[Head(queue[c])] = "running"
        /\ \A s \in Server : s # Head(queue[c]) => once'[s] = once[s]
    BY <1>2, <1>5, Zenon DEF OnceDo, TypeOK
  <2>2. \A d \in Closer : d # c /\ Inside(d) => Head(queue[d]) # Head(queue[c])
    BY <1>0, <1>5 DEF OnceInv
  <2> QED
    BY <1>0, <1>1, <1>2, <2>1, <2>2 DEF OnceInv, Inside
<1>6. ASSUME NEW c \in Closer, OnceDo(c), once[Head(queue[c])] # "new" PROVE OnceInv'
  <2>1. /\ cpc[c] = "do" /\ once' = once /\ queue'[c] = Tail(queue[c])
        /\ cpc'[c] = IF Len(queue[c]) > 1 THEN "do" ELSE "done"
        /\ \A d \in Closer : d # c => cpc'[d] = cpc[d] /\ queue'[d] = queue[d]
    BY <1>6 DEF OnceDo, NextServer, TypeOK
  <2>2. cpc'[c] \in {"do", "done"} /\ (cpc'[c] = "do" => queue'[c] # <<>>)
    BY <1>2, <2>1
  <2>3. \A d \in Closer : /\ cpc'[d] \notin {"idle", "done"} => queue'[d] # <<>>
                          /\ Inside(d)' => Inside(d) /\ queue'[d] = queue[d]
    <3>1. \A d \in Closer : cpc[d] \notin {"idle", "done"} => queue[d] # <<>>
      BY <1>0 DEF OnceInv
    <3>2. \A d \in Closer : d # c => cpc'[d] = cpc[d] /\ queue'[d] = queue[d]
      BY <2>1
    <3> QED
      BY <3>1, <3>2, <2>2 DEF Inside
  <2>4. ASSUME NEW d \in Closer, cpc'[d] \in {"send", "receive"}, NEW e \in Endpoint
        PROVE  ep'[Head(queue'[d])][e] = "closed"
    <3>1. d # c /\ cpc[d] \in {"send", "receive"} /\ queue'[d] = queue[d]
      BY <2>1, <2>2, <2>4
    <3>2. Head(queue[d]) \in Server /\ ep[Head(queue[d])][e] = "closed"
      BY <1>0, <1>2, <3>1 DEF OnceInv
    <3> QED
      BY <1>1, <3>1, <3>2
  <2>5. \A d \in Closer : Inside(d)' => once'[Head(queue'[d])] = "running"
    BY <1>0, <2>1, <2>3 DEF OnceInv
  <2>6. \A q \in Server : once'[q] = "done" => errsClosed'[q] /\ \A e \in Endpoint : ep'[q][e] = "closed"
    BY <1>0, <1>1, <2>1 DEF OnceInv
  <2>7. \A d, f \in Closer : Inside(d)' /\ Inside(f)' /\ Head(queue'[d]) = Head(queue'[f]) => d = f
    BY <1>0, <2>3 DEF OnceInv
  <2> QED
    BY <2>3, <2>4, <2>5, <2>6, <2>7 DEF OnceInv
<1>7. ASSUME NEW c \in Closer, CloseEnd(c) PROVE OnceInv'
  <2>1. /\ cpc[c] = "close" /\ cpc'[c] = "send" /\ queue' = queue /\ once' = once
        /\ \A d \in Closer : d # c => cpc'[d] = cpc[d]
        /\ \A e \in Endpoint : ep[Head(queue[c])][e] = "closed"
    BY <1>7 DEF CloseEnd, TypeOK
  <2> QED
    BY <1>0, <1>1, <1>2, <2>1 DEF OnceInv, Inside
<1>8. ASSUME NEW c \in Closer, CloseSignal(c) PROVE OnceInv'
  <2>1. /\ cpc[c] = "send" /\ cpc'[c] = "receive" /\ queue' = queue /\ once' = once
        /\ \A d \in Closer : d # c => cpc'[d] = cpc[d]
    BY <1>8 DEF CloseSignal, TypeOK
  <2> QED
    BY <1>0, <1>1, <1>2, <2>1 DEF OnceInv, Inside
<1>9. ASSUME NEW c \in Closer, ClosedSignal(c) PROVE OnceInv'
  <2>0. PICK s \in Server : s = Head(queue[c])
    BY <1>2, <1>9 DEF ClosedSignal
  <2>1. /\ cpc[c] = "receive" /\ queue'[c] = Tail(queue[c])
        /\ cpc'[c] = IF Len(queue[c]) > 1 THEN "do" ELSE "done"
        /\ \A d \in Closer : d # c => cpc'[d] = cpc[d] /\ queue'[d] = queue[d]
        /\ monitor[s] = "signal" /\ once' = [once EXCEPT ![s] = "done"]
    BY <1>9, <2>0 DEF ClosedSignal, NextServer, TypeOK
  <2>2. \A d \in Closer : d # c /\ Inside(d) => Head(queue[d]) # s
    BY <1>0, <2>0, <2>1 DEF OnceInv, Inside
  <2>3. errsClosed[s] /\ \A e \in Endpoint : ep[s][e] = "closed"
    BY <1>0, <2>0, <2>1 DEF OnceInv, MonitorInv
  <2>4. once'[s] = "done" /\ \A q \in Server : q # s => once'[q] = once[q]
    BY <2>1 DEF TypeOK
  <2>5. cpc'[c] \in {"do", "done"} /\ (cpc'[c] = "do" => queue'[c] # <<>>)
    BY <1>2, <2>1
  <2>6. \A d \in Closer : /\ cpc'[d] \notin {"idle", "done"} => queue'[d] # <<>>
                          /\ Inside(d)' => d # c /\ Inside(d) /\ queue'[d] = queue[d]
    <3>1. \A d \in Closer : cpc[d] \notin {"idle", "done"} => queue[d] # <<>>
      BY <1>0 DEF OnceInv
    <3>2. \A d \in Closer : d # c => cpc'[d] = cpc[d] /\ queue'[d] = queue[d]
      BY <2>1
    <3> QED
      BY <3>1, <3>2, <2>5 DEF Inside
  <2>7. \A d \in Closer : Inside(d)' => once'[Head(queue'[d])] = "running"
    BY <1>0, <1>2, <2>2, <2>4, <2>6 DEF OnceInv, Inside
  <2>8. ASSUME NEW d \in Closer, cpc'[d] \in {"send", "receive"}, NEW e \in Endpoint
        PROVE  ep'[Head(queue'[d])][e] = "closed"
    <3>1. d # c /\ cpc[d] \in {"send", "receive"} /\ queue'[d] = queue[d]
      BY <2>1, <2>5, <2>8
    <3>2. Head(queue[d]) \in Server /\ ep[Head(queue[d])][e] = "closed"
      BY <1>0, <1>2, <3>1 DEF OnceInv
    <3> QED
      BY <1>1, <3>1, <3>2
  <2>9. \A q \in Server : once'[q] = "done" => errsClosed'[q] /\ \A e \in Endpoint : ep'[q][e] = "closed"
    BY <1>0, <1>1, <2>3, <2>4 DEF OnceInv
  <2>10. \A d, f \in Closer : Inside(d)' /\ Inside(f)' /\ Head(queue'[d]) = Head(queue'[f]) => d = f
    BY <1>0, <2>6 DEF OnceInv
  <2> QED
    BY <2>6, <2>7, <2>8, <2>9, <2>10 DEF OnceInv
<1> QED
  BY <1>3, <1>4, <1>5, <1>6, <1>7, <1>8, <1>9, CloserFrame

(* A closer of one server ends when that server's closeOnce is done. *)
LEMMA QueueStep == TypeOK /\ Stopping /\ [Next]_vars => QueueInv'
<1> SUFFICES ASSUME TypeOK, Stopping, [Next]_vars, NEW d \in Closer, Target[d] # All
             PROVE  /\ cpc'[d] \notin {"idle", "done"} => queue'[d] = <<Target[d]>>
                    /\ cpc'[d] = "done" => once'[Target[d]] = "done"
  BY DEF QueueInv
<1>0. OnceInv /\ QueueInv /\ Target[d] \in Server
  BY ServerLifecycleAssumption DEF Stopping
<1>1. \A c \in Closer : cpc[c] \notin {"idle", "done"} => Head(queue[c]) \in Server
  BY <1>0, QueueParts DEF TypeOK, OnceInv
<1>2. \A s \in Server : once[s] = "done" => once'[s] = "done"
  <2>1. ASSUME NEW c \in Closer, OnceDo(c) \/ ClosedSignal(c) PROVE \A s \in Server : once[s] = "done" => once'[s] = "done"
    BY <1>1, <2>1 DEF OnceDo, ClosedSignal, TypeOK
  <2> QED
    BY <2>1, CloserFrame DEF CloseCall, CloseEnd, CloseSignal
<1>3. CASE cpc'[d] = cpc[d] /\ queue'[d] = queue[d]
  BY <1>0, <1>2, <1>3 DEF QueueInv
<1>4. ASSUME NEW c \in Closer, c # d, CloseCall(c) \/ OnceDo(c) \/ CloseEnd(c) \/ CloseSignal(c) \/ ClosedSignal(c)
      PROVE  cpc'[d] = cpc[d] /\ queue'[d] = queue[d]
  BY <1>4 DEF CloseCall, OnceDo, CloseEnd, CloseSignal, ClosedSignal, NextServer, TypeOK
<1>5. CASE CloseCall(d)
  BY <1>0, <1>5 DEF CloseCall, TypeOK
<1>6. CASE CloseEnd(d) \/ CloseSignal(d)
  BY <1>0, <1>6, Zenon DEF CloseEnd, CloseSignal, TypeOK, QueueInv
<1>7. CASE OnceDo(d) \/ ClosedSignal(d)
  <2>1. cpc[d] \notin {"idle", "done"} /\ queue[d] = <<Target[d]>>
    BY <1>0, <1>7 DEF OnceDo, ClosedSignal, QueueInv
  <2>2. Head(queue[d]) = Target[d] /\ ~(Len(queue[d]) > 1)
    BY <1>0, <2>1
  <2>3. \/ cpc'[d] = "close" /\ queue'[d] = queue[d]
        \/ cpc'[d] = "done" /\ once'[Target[d]] = "done"
    BY <1>0, <1>7, <2>2 DEF OnceDo, ClosedSignal, NextServer, TypeOK
  <2> QED
    BY <2>1, <2>3
<1>8. CASE UNCHANGED <<once, cpc, queue>>
  BY <1>3, <1>8
<1> QED
  BY <1>3, <1>4, <1>5, <1>6, <1>7, <1>8, CloserFrame

(* Every reachable state satisfies the inductive invariant. *)
THEOREM AlwaysStopping == Spec => [](TypeOK /\ Stopping)
<1>1. TypeOK /\ Stopping /\ [Next]_vars => TypeOK' /\ Stopping'
  BY TypeStep, MonitorStep, OnceStep, QueueStep DEF Stopping
<1> QED
  BY InitInv, <1>1, PTL DEF Spec

(* Close returns only when the server is stopped: server.Close, also to    *)
(* callers that lose the race for closeOnce.                               *)
THEOREM ClosedIsStopped == Spec => []CloseMeansStopped
<1>1. TypeOK /\ Stopping => CloseMeansStopped
  BY ServerLifecycleAssumption DEF Stopping, OnceInv, QueueInv, CloseMeansStopped
<1> QED
  BY AlwaysStopping, <1>1, PTL
=============================================================================
