-------------------------- MODULE ServerLifecycle ---------------------------
(***************************************************************************)
(* How libStorage servers of one process start, fail and stop              *)
(* (api/server/server.go and the listeners of server_http.go): the list of *)
(* servers, a goroutine per endpoint that serves until it fails or is      *)
(* closed, the goroutine of Serve that waits for the first error or for    *)
(* the close signal, and the goroutines that close one server or all.      *)
(***************************************************************************)
EXTENDS Integers, Sequences

CONSTANTS Server,     \* every server the process may create
          Endpoint,   \* the endpoints of each server
          Closer,     \* goroutines that call Close
          Target,     \* the server a closer closes, or All
          All         \* stands for the package's Close, which closes all

ASSUME ServerLifecycleAssumption ==
  /\ All \notin Server
  /\ Target \in [Closer -> Server \cup {All}]

VARIABLES
  servers,     \* the package's list of servers
  ep,          \* ep[s][e]: endpoint e of server s
  srvErrs,     \* number of errors in the endpoints' channel of a server
  errsClosed,  \* the channel Serve returns is closed
  monitor,     \* program counter of Serve's monitor goroutine
  once,        \* closeOnce: "new", "running" or "done"
  cpc,         \* program counter of a closer
  queue        \* the servers a closer has still to close

serverVars == <<servers, ep, srvErrs, errsClosed, monitor>>
closeVars == <<once, cpc, queue>>
vars == <<serverVars, closeVars>>

Init ==
  /\ servers = <<>>
  /\ ep = [s \in Server |-> [e \in Endpoint |-> "none"]]
  /\ srvErrs = [s \in Server |-> 0]
  /\ errsClosed = [s \in Server |-> FALSE]
  /\ monitor = [s \in Server |-> "none"]
  /\ once = [s \in Server |-> "new"]
  /\ cpc = [c \in Closer |-> "idle"]
  /\ queue = [c \in Closer |-> <<>>]

-----------------------------------------------------------------------------
(* Starting and serving *)

(* newServer binds the listeners of every endpoint, then adds the server   *)
(* to the list.                                                            *)
newServer(s) ==
  /\ monitor[s] = "none" /\ \A e \in Endpoint : ep[s][e] = "none"
  /\ ep' = [ep EXCEPT ![s] = [e \in Endpoint |-> "bound"]]
  /\ servers' = Append(servers, s)
  /\ UNCHANGED <<srvErrs, errsClosed, monitor, closeVars>>

(* Serve starts a goroutine per endpoint and the monitor.  An endpoint     *)
(* that was closed meanwhile fails at once, without an error to report.    *)
Serve(s) ==
  /\ monitor[s] = "none" /\ \A e \in Endpoint : ep[s][e] # "none"
  /\ ep' = [ep EXCEPT ![s] = [e \in Endpoint |-> IF ep[s][e] = "bound" THEN "serving" ELSE ep[s][e]]]
  /\ monitor' = [monitor EXCEPT ![s] = "select"]
  /\ UNCHANGED <<servers, srvErrs, errsClosed, closeVars>>

(* An endpoint stops serving with an error other than "use of closed       *)
(* network connection"; srvErrs has room for one error of each endpoint.   *)
EndpointFails(s, e) ==
  /\ ep[s][e] = "serving"
  /\ ep' = [ep EXCEPT ![s][e] = "failed"]
  /\ srvErrs' = [srvErrs EXCEPT ![s] = @ + 1]
  /\ UNCHANGED <<servers, errsClosed, monitor, closeVars>>

(* The monitor's select receives an endpoint's error and passes it on. *)
MonitorError(s) ==
  /\ monitor[s] = "select"
  /\ srvErrs[s] > 0
  /\ srvErrs' = [srvErrs EXCEPT ![s] = @ - 1]
  /\ monitor' = [monitor EXCEPT ![s] = "close"]
  /\ UNCHANGED <<servers, ep, errsClosed, closeVars>>

(* A mutant: the monitor ends without its last signal. *)
MonitorCloseNoSignal(s) ==
  /\ monitor[s] = "close"
  /\ errsClosed' = [errsClosed EXCEPT ![s] = TRUE]
  /\ monitor' = [monitor EXCEPT ![s] = "done"]
  /\ UNCHANGED <<servers, ep, srvErrs, closeVars>>

(* A mutant: an error leaves the channel of Serve open. *)
MonitorErrorOnly(s) ==
  /\ monitor[s] = "close"
  /\ errsClosed' = [errsClosed EXCEPT ![s] = once[s] # "new"]
  /\ monitor' = [monitor EXCEPT ![s] = "signal"]
  /\ UNCHANGED <<servers, ep, srvErrs, closeVars>>

(* The monitor closes the channel that Serve returned. *)
MonitorClose(s) ==
  /\ monitor[s] = "close"
  /\ errsClosed' = [errsClosed EXCEPT ![s] = TRUE]
  /\ monitor' = [monitor EXCEPT ![s] = "signal"]
  /\ UNCHANGED <<servers, ep, srvErrs, closeVars>>

-----------------------------------------------------------------------------
(* Closing *)

(* A goroutine calls the Close of a server that Serve has started, or the  *)
(* package's Close, whose loop ranges over the list as it is at its start. *)
CloseCall(c) ==
  LET todo == IF Target[c] = All THEN servers ELSE <<Target[c]>> IN
  /\ cpc[c] = "idle"
  /\ Target[c] # All => monitor[Target[c]] # "none"
  /\ queue' = [queue EXCEPT ![c] = todo]
  /\ cpc' = [cpc EXCEPT ![c] = IF todo = <<>> THEN "done" ELSE "do"]
  /\ UNCHANGED <<serverVars, once>>

(* The closer is done with the server at the head of its queue. *)
NextServer(c) ==
  /\ queue' = [queue EXCEPT ![c] = Tail(@)]
  /\ cpc' = [cpc EXCEPT ![c] = IF Len(queue[c]) > 1 THEN "do" ELSE "done"]

(* A mutant: a flag in place of closeOnce, which does not wait for the     *)
(* first caller to finish.                                                 *)
OnceFlag(c) ==
  LET s == Head(queue[c]) IN
  /\ cpc[c] = "do"
  /\ \/ /\ once[s] = "new"
        /\ once' = [once EXCEPT ![s] = "running"]
        /\ cpc' = [cpc EXCEPT ![c] = "close"]
        /\ UNCHANGED queue
     \/ /\ once[s] # "new"
        /\ NextServer(c)
        /\ UNCHANGED once
  /\ UNCHANGED serverVars

(* closeOnce.Do: the first caller runs the function, the others wait until *)
(* it has returned.                                                        *)
OnceDo(c) ==
  LET s == Head(queue[c]) IN
  /\ cpc[c] = "do"
  /\ \/ /\ once[s] = "new"
        /\ once' = [once EXCEPT ![s] = "running"]
        /\ cpc' = [cpc EXCEPT ![c] = "close"]
        /\ UNCHANGED queue
     \/ /\ once[s] = "done"
        /\ NextServer(c)
        /\ UNCHANGED once
  /\ UNCHANGED serverVars

(* close closes the listeners one by one; its own errors are only logged. *)
CloseEndpoint(c, e) ==
  LET s == Head(queue[c]) IN
  /\ cpc[c] = "close"
  /\ ep[s][e] # "closed"
  /\ ep' = [ep EXCEPT ![s][e] = "closed"]
  /\ UNCHANGED <<servers, srvErrs, errsClosed, monitor, closeVars>>

CloseEnd(c) ==
  /\ cpc[c] = "close"
  /\ \A e \in Endpoint : ep[Head(queue[c])][e] = "closed"
  /\ cpc' = [cpc EXCEPT ![c] = "send"]
  /\ UNCHANGED <<serverVars, once, queue>>

(* closeSignal is unbuffered: the closer's send and the monitor's receive  *)
(* are one step.                                                           *)
CloseSignal(c) ==
  LET s == Head(queue[c]) IN
  /\ cpc[c] = "send"
  /\ monitor[s] = "select"
  /\ monitor' = [monitor EXCEPT ![s] = "close"]
  /\ cpc' = [cpc EXCEPT ![c] = "receive"]
  /\ UNCHANGED <<servers, ep, srvErrs, errsClosed, once, queue>>

(* closedSignal is unbuffered: the monitor's send and the closer's receive *)
(* are one step, which ends the function of closeOnce.                     *)
ClosedSignal(c) ==
  LET s == Head(queue[c]) IN
  /\ cpc[c] = "receive"
  /\ monitor[s] = "signal"
  /\ monitor' = [monitor EXCEPT ![s] = "done"]
  /\ once' = [once EXCEPT ![s] = "done"]
  /\ NextServer(c)
  /\ UNCHANGED <<servers, ep, srvErrs, errsClosed>>

-----------------------------------------------------------------------------
Monitor(s) == MonitorError(s) \/ MonitorClose(s)

CloserStep(c) ==
  \/ OnceDo(c)
  \/ \E e \in Endpoint : CloseEndpoint(c, e)
  \/ CloseEnd(c)
  \/ CloseSignal(c)
  \/ ClosedSignal(c)

Next ==
  \/ \E s \in Server : newServer(s) \/ Serve(s) \/ Monitor(s)
  \/ \E s \in Server, e \in Endpoint : EndpointFails(s, e)
  \/ \E c \in Closer : CloseCall(c) \/ CloserStep(c)

Spec == Init /\ [][Next]_vars

(* Goroutines are scheduled fairly; newServer is followed by Serve.        *)
(* Servers need not be created, endpoints need not fail and Close need not *)
(* be called.                                                              *)
Fairness ==
  /\ \A s \in Server : WF_vars(Serve(s)) /\ WF_vars(Monitor(s))
  /\ \A c \in Closer : WF_vars(CloserStep(c))

FairSpec == Spec /\ Fairness

-----------------------------------------------------------------------------
(* Properties *)

(* The values the variables may take. *)
TypeOK ==
  /\ servers \in Seq(Server)
  /\ ep \in [Server -> [Endpoint -> {"none", "bound", "serving", "failed", "closed"}]]
  /\ srvErrs \in [Server -> Nat]
  /\ errsClosed \in [Server -> BOOLEAN]
  /\ monitor \in [Server -> {"none", "select", "close", "signal", "done"}]
  /\ once \in [Server -> {"new", "running", "done"}]
  /\ cpc \in [Closer -> {"idle", "do", "close", "send", "receive", "done"}]
  /\ queue \in [Closer -> Seq(Server)]

(* When a call of a server's Close returns, whether it closed the server   *)
(* or found another call doing so, every endpoint is closed and so is the  *)
(* channel a reader of Serve's errors waits on.                            *)
CloseMeansStopped ==
  \A c \in Closer :
    cpc[c] = "done" /\ Target[c] # All =>
      /\ errsClosed[Target[c]]
      /\ \A e \in Endpoint : ep[Target[c]][e] = "closed"

(* An endpoint's error always releases the reader of Serve's channel. *)
ErrorEndsWait ==
  \A s \in Server : srvErrs[s] > 0 ~> errsClosed[s]

(* As long as no endpoint has failed, every Close returns. *)
CloseReturns ==
  [](\A s \in Server, e \in Endpoint : ep[s][e] # "failed") =>
    \A c \in Closer : cpc[c] # "idle" ~> cpc[c] = "done"

-----------------------------------------------------------------------------
(* The inductive invariant behind CloseMeansStopped *)

(* The monitor has closed the channel before it signals so. *)
MonitorInv ==
  \A s \in Server : monitor[s] \in {"signal", "done"} => errsClosed[s]

(* A closer is inside the function of closeOnce. *)
Inside(c) == cpc[c] \in {"close", "send", "receive"}

(* One closer at a time is inside, and what it leaves is stopped. *)
OnceInv ==
  /\ \A c \in Closer :
       /\ cpc[c] \notin {"idle", "done"} => queue[c] # <<>>
       /\ Inside(c) => once[Head(queue[c])] = "running"
       /\ cpc[c] \in {"send", "receive"} => \A e \in Endpoint : ep[Head(queue[c])][e] = "closed"
  /\ \A c, d \in Closer :
       Inside(c) /\ Inside(d) /\ Head(queue[c]) = Head(queue[d]) => c = d
  /\ \A s \in Server : once[s] = "done" =>
       errsClosed[s] /\ \A e \in Endpoint : ep[s][e] = "closed"

(* A closer of one server has that one in its queue until it is closed. *)
QueueInv ==
  \A c \in Closer : Target[c] # All =>
    /\ cpc[c] \notin {"idle", "done"} => queue[c] = <<Target[c]>>
    /\ cpc[c] = "done" => once[Target[c]] = "done"

Stopping == MonitorInv /\ OnceInv /\ QueueInv

-----------------------------------------------------------------------------
(* Statements of the repository's comments *)

(* server.go:316 says of the package's Close that it "closes all servers". *)
CloseClosesAllServers ==
  \A c \in Closer, s \in Server :
    (\E i \in DOMAIN queue[c] : queue[c][i] = s) ~> \A e \in Endpoint : ep[s][e] = "closed"

(* server.go:182 says of Serve's channel that "reading this channel is     *)
(* also the prescribed manner for clients wishing to block until the       *)
(* server is shutdown".                                                    *)
ErrsOpenWhileServing ==
  \A s \in Server : errsClosed[s] => \A e \in Endpoint : ep[s][e] # "serving"
=============================================================================
