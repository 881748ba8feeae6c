------------------------------- MODULE Server -------------------------------
(***************************************************************************)
(* The connection loop of the server (src/pkg/cmd/server/server.go): the  *)
(* listener goroutine accepts connections; each runs in a goroutine that  *)
(* creates a Handler, binds the Handler's RPC methods with                *)
(* addClientHandlers, starts a jrpc2 server on the connection and, in a   *)
(* third goroutine, waits for that server to stop and calls               *)
(* Handler.Cleanup.  The loop counts the connection goroutines in a       *)
(* WaitGroup and waits for them when Accept fails.                        *)
(*                                                                         *)
(* addClientHandlers receives globServiceMap "by value", but a Go map is  *)
(* a reference: every connection writes its Handler's methods into the    *)
(* one map all jrpc2 servers look their methods up in, at each request.   *)
(* Concurrent writes to a Go map are undefined; the runtime may detect    *)
(* them and abort the process ("concurrent map writes"), which is one of  *)
(* the outcomes modelled.  The jrpc2 servers run with Concurrency = the   *)
(* -max flag, 1 by default: one request at a time per connection.         *)
(***************************************************************************)
EXTENDS Naturals, Sequences, SequencesExt

CONSTANTS
  Conns,         \* client connections; the Handler of connection c is c
  Methods,       \* the per-connection methods addClientHandlers binds, in order
  ServiceMethods,\* the server-wide methods createServiceMap binds
  Service,       \* the ovsdb.Service they run on
  Nil,
  AcceptMayFail  \* whether Accept may return an error other than closing

VARIABLES
  loop,        \* the listener goroutine: "accepting", "waiting" (wg.Wait), "returned"
  conn,        \* [Conns -> "idle", "dialing", "setup", "serving", "stopped", "done"]
  written,     \* [Conns -> methods addClientHandlers has bound so far]
  handlerMap,  \* globServiceMap: [method -> Service, Handler bound to it, or Nil]
  req,         \* [Conns -> request the connection's server runs: [method, handler], or Nil]
  closed,      \* connections the client has closed
  waiter,      \* [Conns -> the Cleanup goroutine: "none", "waiting", "done"]
  cleaned,     \* Handlers Cleanup has run on
  wg,          \* the connection goroutines counted in the WaitGroup
  served,      \* history: <<connection, method, handler>> of every request
  crashed      \* the runtime aborted the process

vars == <<loop, conn, written, handlerMap, req, closed, waiter, cleaned, wg, served, crashed>>

MethodNames == Range(Methods)

\* createServiceMap: the Service's methods; the per-connection methods are
\* not bound yet.
createServiceMap ==
  [m \in ServiceMethods |-> Service] @@ [m \in MethodNames |-> Nil]

Up == ~crashed

(***************************************************************************)
(* The client side                                                         *)
(***************************************************************************)
Dial(c) ==
  /\ Up
  /\ conn[c] = "idle"
  /\ conn' = [conn EXCEPT ![c] = "dialing"]
  /\ UNCHANGED <<loop, written, handlerMap, req, closed, waiter, cleaned, wg, served, crashed>>

\* The client sends a request; the connection's server dispatches it to the
\* method the shared map holds at that moment.
Call(c, m) ==
  /\ Up
  /\ conn[c] = "serving"
  /\ c \notin closed
  /\ req[c] = Nil
  /\ req' = [req EXCEPT ![c] = [method |-> m, handler |-> handlerMap[m]]]
  /\ served' = served \cup {<<c, m, handlerMap[m]>>}
  /\ UNCHANGED <<loop, conn, written, handlerMap, closed, waiter, cleaned, wg, crashed>>

Close(c) ==
  /\ Up
  /\ conn[c] \in {"setup", "serving"}
  /\ c \notin closed
  /\ closed' = closed \cup {c}
  /\ UNCHANGED <<loop, conn, written, handlerMap, req, waiter, cleaned, wg, served, crashed>>

(***************************************************************************)
(* The listener goroutine (loop)                                           *)
(***************************************************************************)
\* lst.Accept succeeds; wg.Add(1), then the connection goroutine starts.
Accept(c) ==
  /\ Up
  /\ loop = "accepting"
  /\ conn[c] = "dialing"
  /\ conn' = [conn EXCEPT ![c] = "setup"]
  /\ wg' = wg \cup {c}
  /\ UNCHANGED <<loop, written, handlerMap, req, closed, waiter, cleaned, served, crashed>>

\* lst.Accept returns an error that is not "closing" (EMFILE, ...): it is
\* logged and the loop goes on to wg.Wait and returns.
AcceptFails ==
  /\ Up
  /\ AcceptMayFail
  /\ loop = "accepting"
  /\ loop' = "waiting"
  /\ UNCHANGED <<conn, written, handlerMap, req, closed, waiter, cleaned, wg, served, crashed>>

LoopReturns ==
  /\ Up
  /\ loop = "waiting"
  /\ wg = {}
  /\ loop' = "returned"
  /\ UNCHANGED <<conn, written, handlerMap, req, closed, waiter, cleaned, wg, served, crashed>>

(***************************************************************************)
(* The connection goroutine                                                *)
(***************************************************************************)
\* addClientHandlers: handlerMap[name] = handler.New(ch.<Method>), one
\* method after the other, into the map it shares with every connection.
AddClientHandler(c) ==
  /\ Up
  /\ conn[c] = "setup"
  /\ written[c] < Len(Methods)
  /\ handlerMap' = [handlerMap EXCEPT ![Methods[written[c] + 1]] = c]
  /\ written' = [written EXCEPT ![c] = @ + 1]
  /\ UNCHANGED <<loop, conn, req, closed, waiter, cleaned, wg, served, crashed>>

\* Mutant: the goroutine that waits for the server is not started.
StartServerNoWaiter(c) ==
  /\ Up
  /\ conn[c] = "setup"
  /\ written[c] = Len(Methods)
  /\ conn' = [conn EXCEPT ![c] = "serving"]
  /\ UNCHANGED <<loop, written, handlerMap, req, closed, waiter, cleaned, wg, served, crashed>>

\* jrpc2.NewServer, SetConnection, srv.Start, and the goroutine that waits
\* for the server and then cleans the Handler up.
StartServer(c) ==
  /\ Up
  /\ conn[c] = "setup"
  /\ written[c] = Len(Methods)
  /\ conn' = [conn EXCEPT ![c] = "serving"]
  /\ waiter' = [waiter EXCEPT ![c] = "waiting"]
  /\ UNCHANGED <<loop, written, handlerMap, req, closed, cleaned, wg, served, crashed>>

\* The method returns and jrpc2 writes the response.
Return(c) ==
  /\ Up
  /\ req[c] # Nil
  /\ req' = [req EXCEPT ![c] = Nil]
  /\ UNCHANGED <<loop, conn, written, handlerMap, closed, waiter, cleaned, wg, served, crashed>>

\* Mutant: the server stops without waiting for the running request.
StopWithRequest(c) ==
  /\ Up
  /\ conn[c] = "serving"
  /\ c \in closed
  /\ conn' = [conn EXCEPT ![c] = "stopped"]
  /\ UNCHANGED <<loop, written, handlerMap, req, closed, waiter, cleaned, wg, served, crashed>>

\* The client has gone and no request runs: the server stops, and
\* srv.Wait and srv.WaitStatus return.
Stop(c) ==
  /\ Up
  /\ conn[c] = "serving"
  /\ c \in closed
  /\ req[c] = Nil
  /\ conn' = [conn EXCEPT ![c] = "stopped"]
  /\ UNCHANGED <<loop, written, handlerMap, req, closed, waiter, cleaned, wg, served, crashed>>

\* The connection goroutine logs the exit status; deferred wg.Done.
ConnExit(c) ==
  /\ Up
  /\ conn[c] = "stopped"
  /\ conn' = [conn EXCEPT ![c] = "done"]
  /\ wg' = wg \ {c}
  /\ UNCHANGED <<loop, written, handlerMap, req, closed, waiter, cleaned, served, crashed>>

\* The waiting goroutine: after srv.Wait, handler.Cleanup, then cancel.
Cleanup(c) ==
  /\ Up
  /\ conn[c] \in {"stopped", "done"}
  /\ waiter[c] = "waiting"
  /\ waiter' = [waiter EXCEPT ![c] = "done"]
  /\ cleaned' = cleaned \cup {c}
  /\ UNCHANGED <<loop, conn, written, handlerMap, req, closed, wg, served, crashed>>

\* Two connection goroutines write the shared map at once: the runtime
\* may detect it and abort the whole process.
ConcurrentMapWrites ==
  /\ Up
  /\ \E c, d \in Conns : c # d /\ conn[c] = "setup" /\ conn[d] = "setup"
  /\ crashed' = TRUE
  /\ UNCHANGED <<loop, conn, written, handlerMap, req, closed, waiter, cleaned, wg, served>>

\* Nothing more can happen: the process aborted, or every connection is
\* over and no dialing client can still be accepted.
Idle ==
  /\ \/ crashed
     \/ \A c \in Conns : \/ conn[c] = "done" /\ waiter[c] # "waiting"
                         \/ conn[c] = "dialing" /\ loop # "accepting"
  /\ UNCHANGED vars

Init ==
  /\ loop = "accepting"
  /\ conn = [c \in Conns |-> "idle"]
  /\ written = [c \in Conns |-> 0]
  /\ handlerMap = createServiceMap
  /\ req = [c \in Conns |-> Nil]
  /\ closed = {}
  /\ waiter = [c \in Conns |-> "none"]
  /\ cleaned = {}
  /\ wg = {}
  /\ served = {}
  /\ crashed = FALSE

Next ==
  \/ \E c \in Conns :
       \/ Dial(c) \/ Close(c) \/ Accept(c) \/ AddClientHandler(c)
       \/ StartServer(c) \/ Return(c) \/ Stop(c) \/ ConnExit(c) \/ Cleanup(c)
  \/ \E c \in Conns, m \in MethodNames \cup ServiceMethods : Call(c, m)
  \/ AcceptFails \/ LoopReturns \/ ConcurrentMapWrites
  \/ Idle

\* The goroutines of the server are scheduled fairly; the clients, etcd's
\* and the kernel's errors are not.
Fairness ==
  /\ \A c \in Conns :
       /\ WF_vars(Accept(c)) /\ WF_vars(AddClientHandler(c)) /\ WF_vars(StartServer(c))
       /\ WF_vars(Return(c)) /\ WF_vars(Stop(c)) /\ WF_vars(ConnExit(c))
       /\ WF_vars(Cleanup(c))
  /\ WF_vars(LoopReturns)

Spec == Init /\ [][Next]_vars /\ Fairness

(***************************************************************************)
(* Properties                                                              *)
(***************************************************************************)
(* The connection and goroutine states have their types; a connection's   *)
(* request runs only while its server serves.                              *)
TypeOK ==
  /\ loop \in {"accepting", "waiting", "returned"}
  /\ conn \in [Conns -> {"idle", "dialing", "setup", "serving", "stopped", "done"}]
  /\ handlerMap \in [MethodNames \cup ServiceMethods -> Conns \cup {Service, Nil}]
  /\ waiter \in [Conns -> {"none", "waiting", "done"}]
  /\ \A c \in Conns : req[c] # Nil => conn[c] = "serving"
  /\ wg \subseteq Conns /\ cleaned \subseteq Conns

(* server.go:210 "we pass handlerMap by value, so the function gets a      *)
(* proprietary copy of it": a request on a connection is served by that    *)
(* connection's own Handler (the Service's methods by the Service).        *)
RequestsServedByOwnHandler ==
  \A x \in served : x[3] = IF x[2] \in ServiceMethods THEN Service ELSE x[1]

(* Every connection the client closes gets its Handler cleaned up         *)
(* (monitors and locks released), unless the process aborts: the waiting   *)
(* goroutine's srv.Wait returns once the last request has finished.        *)
EveryClosedConnectionCleanedUp ==
  \A c \in Conns : c \in closed ~> (c \in cleaned \/ crashed)

=============================================================================
