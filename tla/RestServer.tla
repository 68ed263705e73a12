------------------------------ MODULE RestServer ------------------------------
(***************************************************************************)
(* The threads of the REST server: rest_server of microrestd on top of     *)
(* libmicrohttpd with one thread per connection (rest_server::start with   *)
(* threads = 0, as korektor's server runs it).                             *)
(*                                                                         *)
(* The accept thread (MHD_select_thread) waits for clients, gives each     *)
(* connection a handler thread (MHD_handle_connection) and frees the       *)
(* connections that ended (MHD_cleanup_connections).  The main thread      *)
(* waits for a signal and calls rest_server::stop, which closes the        *)
(* listening socket, frees ended connections as well, and polls the        *)
(* number of connections until it reads zero; only then does               *)
(* MHD_stop_daemon end whatever still runs.                                *)
(*                                                                         *)
(* What the threads share is daemon->socket_fd, ->shutdown, ->connections  *)
(* and the two lists of connections; only the lists are protected by       *)
(* cleanup_connection_mutex.  "connections++" of the accept thread is a    *)
(* load and a store here, and so is "connections--" of either thread: they *)
(* are unsynchronised, so that a store may lose the other one.             *)
(***************************************************************************)
EXTENDS Integers, FiniteSets

CONSTANTS
  Clients,        \* the clients that may connect, each of them once
  Limits,         \* bound: the values of set_max_connections considered
  UnsignedRange,  \* 2^32, the range of daemon->connections
  None            \* no thread, no connection

ASSUME LimitsAssumption == Limits \subseteq Nat \ {0}
ASSUME UnsignedAssumption ==
  UnsignedRange \in Nat \ {0} /\ \A l \in Limits : l < UnsignedRange
ASSUME NoneAssumption == None \notin Clients \cup {"acceptor", "stopper"}

VARIABLES
  limit,        \* daemon->connection_limit
  socketFd,     \* daemon->socket_fd # MHD_INVALID_SOCKET
  listening,    \* the listening socket is not closed
  signalled,    \* something was written to daemon->wpipe (it is never read)
  shutdown,     \* daemon->shutdown
  connections,  \* daemon->connections
  active,       \* the list from daemon->connections_head
  cleanup,      \* the list from daemon->cleanup_head
  mutex,        \* the holder of cleanup_connection_mutex
  conn,         \* what became of each client's connection
  shut,         \* connections whose socket close_all_connections shut down
  joined,       \* connections with thread_joined
  pc,           \* where the accept thread and the main thread are
  polled,       \* the listening socket is in the poll set of the accept thread
  holds,        \* the connection each of the two threads works on
  loaded,       \* daemon->connections as each of the two threads loaded it
  racing,       \* history: the socket was closed while a client was accepted
  cutOff        \* history: connections whose request was ended by shutdown

daemonVars == <<limit, socketFd, listening, signalled, shutdown>>
listVars == <<active, cleanup, mutex>>
historyVars == <<racing, cutOff>>
vars == <<daemonVars, connections, listVars, conn, shut, joined, pc,
          polled, holds, loaded, historyVars>>

Threads == {"acceptor", "stopper"}

(***************************************************************************)
(* A connection waits in the backlog ("pending"), is accepted, and from    *)
(* then on its thread waits for a request or handles one; it is closed,    *)
(* then moved to the cleanup list ("leaving"), then its thread has exited, *)
(* and some other thread frees it.                                         *)
(***************************************************************************)
Running == {"waiting", "handling"}
WithThread == Running \cup {"closed", "leaving"}
ConnStates == {"away", "pending", "refused", "accepted", "exited", "freed"}
              \cup WithThread

CleanSteps == {"clean", "next", "join", "subtract"}
AcceptSteps == {"accept4", "add", "create", "load", "store"}
AcceptorSteps == {"loop", "poll", "accept", "ended"}
                 \cup AcceptSteps \cup CleanSteps
StopperSteps == {"serving", "close", "count", "stop", "join acceptor",
                 "shut sockets", "join handlers", "join handler", "free",
                 "stopped"} \cup CleanSteps

Init ==
  /\ limit \in Limits
  /\ socketFd = TRUE /\ listening = TRUE
  /\ signalled = FALSE /\ shutdown = FALSE
  /\ connections = 0
  /\ active = {} /\ cleanup = {} /\ mutex = None
  /\ conn = [c \in Clients |-> "away"]
  /\ shut = {} /\ joined = {}
  /\ pc = [t \in Threads |-> IF t = "acceptor" THEN "loop" ELSE "serving"]
  /\ polled = FALSE
  /\ holds = [t \in Threads |-> None]
  /\ loaded = [t \in Threads |-> 0]
  /\ racing = FALSE /\ cutOff = {}

Goto(t, step) == pc' = [pc EXCEPT ![t] = step]
Becomes(c, state) == conn' = [conn EXCEPT ![c] = state]
Pending == {c \in Clients : conn[c] = "pending"}

-----------------------------------------------------------------------------
(* A client connects: it is put in the backlog of the listening socket.    *)
Connect(c) ==
  /\ conn[c] = "away" /\ listening
  /\ Becomes(c, "pending")
  /\ UNCHANGED <<daemonVars, connections, listVars, shut, joined, pc,
                 polled, holds, loaded, historyVars>>

-----------------------------------------------------------------------------
(* The accept thread.                                                      *)

(* The poll set leaves the listening socket out at the connection limit.   *)
PollSetAtLimit == socketFd
PollSet == socketFd /\ connections # limit

StartPoll ==
  /\ pc["acceptor"] = "loop"
  /\ polled' = PollSet
  /\ Goto("acceptor", IF shutdown THEN "ended" ELSE "poll")
  /\ UNCHANGED <<daemonVars, connections, listVars, conn, shut,
                 joined, holds, loaded, historyVars>>

(* poll returns for a client, for the pipe, or, without the listening      *)
(* socket, after five milliseconds.                                        *)
PollReturns ==
  /\ pc["acceptor"] = "poll"
  /\ signalled \/ ~polled \/ Pending # {}
  /\ Goto("acceptor",
          IF ~shutdown /\ polled /\ Pending # {} THEN "accept" ELSE "clean")
  /\ UNCHANGED <<daemonVars, connections, listVars, conn, shut,
                 joined, polled, holds, loaded, historyVars>>

(* MHD_accept_connection copies socket_fd before it uses it.               *)
ReadSocket ==
  /\ pc["acceptor"] = "accept"
  /\ Goto("acceptor", IF socketFd THEN "accept4" ELSE "clean")
  /\ UNCHANGED <<daemonVars, connections, listVars, conn, shut,
                 joined, polled, holds, loaded, historyVars>>

Accept ==
  /\ pc["acceptor"] = "accept4"
  /\ \/ /\ listening
        /\ \E c \in Pending :
             /\ Becomes(c, "accepted")
             /\ holds' = [holds EXCEPT !["acceptor"] = c]
        /\ Goto("acceptor", "add")
     \/ /\ ~listening   \* accept4 fails: the descriptor is closed
        /\ Goto("acceptor", "clean")
        /\ UNCHANGED <<conn, holds>>
  /\ UNCHANGED <<daemonVars, connections, listVars, shut, joined,
                 polled, loaded, historyVars>>

(* internal_add_connection, up to the insertion into the list: above the   *)
(* limit the client is rejected.                                           *)
AddConnection ==
  /\ pc["acceptor"] = "add"
  /\ LET c == holds["acceptor"] IN
     IF connections = limit
     THEN /\ Becomes(c, "refused")
          /\ Goto("acceptor", "clean")
          /\ UNCHANGED active
     ELSE /\ mutex = None
          /\ active' = active \cup {c}
          /\ Goto("acceptor", "create")
          /\ UNCHANGED conn
  /\ UNCHANGED <<daemonVars, connections, cleanup, mutex, shut,
                 joined, polled, holds, loaded, historyVars>>

(* Its second part: the handler thread is created, or that fails and the   *)
(* connection is taken back.                                               *)
TakeBackUnlisted(c) == Becomes(c, "refused") /\ UNCHANGED active
TakeBack(c) == Becomes(c, "refused") /\ active' = active \ {c}

CreateThread ==
  /\ pc["acceptor"] = "create"
  /\ LET c == holds["acceptor"] IN
     \/ Becomes(c, "waiting") /\ Goto("acceptor", "load") /\ UNCHANGED active
     \/ mutex = None /\ TakeBack(c) /\ Goto("acceptor", "clean")
  /\ UNCHANGED <<daemonVars, connections, cleanup, mutex, shut,
                 joined, polled, holds, loaded, historyVars>>

(* daemon->connections++, without the mutex and after the handler started. *)
LoadCount ==
  /\ pc["acceptor"] = "load"
  /\ loaded' = [loaded EXCEPT !["acceptor"] = connections]
  /\ Goto("acceptor", "store")
  /\ UNCHANGED <<daemonVars, connections, listVars, conn, shut,
                 joined, polled, holds, historyVars>>

OneMore == (loaded["acceptor"] + 1) % UnsignedRange

StoreCount ==
  /\ pc["acceptor"] = "store"
  /\ connections' = OneMore
  /\ Goto("acceptor", "clean")
  /\ UNCHANGED <<daemonVars, listVars, conn, shut, joined, polled,
                 holds, loaded, historyVars>>

-----------------------------------------------------------------------------
(* MHD_cleanup_connections: at the end of the accept thread's loop, and in *)
(* the main thread from MHD_get_daemon_info and from                       *)
(* close_all_connections.                                                  *)

AfterClean(t) ==
  IF t = "acceptor" THEN "loop" ELSE IF shutdown THEN "free" ELSE "count"

LockLists(t) ==
  /\ pc[t] = "clean" /\ mutex = None
  /\ mutex' = t
  /\ Goto(t, "next")
  /\ UNCHANGED <<daemonVars, connections, active, cleanup, conn, shut,
                 joined, polled, holds, loaded, historyVars>>

NextEnded(t) ==
  /\ pc[t] = "next"
  /\ IF cleanup = {}
     THEN /\ mutex' = None
          /\ Goto(t, AfterClean(t))
          /\ UNCHANGED <<cleanup, holds>>
     ELSE /\ \E c \in cleanup :
               /\ cleanup' = cleanup \ {c}
               /\ holds' = [holds EXCEPT ![t] = c]
          /\ Goto(t, "join")
          /\ UNCHANGED mutex
  /\ UNCHANGED <<daemonVars, connections, active, conn, shut, joined,
                 polled, loaded, historyVars>>

(* Join its thread, unless that was done, and free it; then load the count. *)
JoinAndFree(t) ==
  /\ pc[t] = "join"
  /\ holds[t] \in joined \/ conn[holds[t]] = "exited"
  /\ Becomes(holds[t], "freed")
  /\ loaded' = [loaded EXCEPT ![t] = connections]
  /\ Goto(t, "subtract")
  /\ UNCHANGED <<daemonVars, connections, listVars, shut, joined,
                 polled, holds, historyVars>>

OneLessInStopper(t) ==
  IF t = "acceptor" THEN loaded[t] ELSE (loaded[t] - 1) % UnsignedRange
OneLess(t) == (loaded[t] - 1) % UnsignedRange

SubtractOne(t) ==
  /\ pc[t] = "subtract"
  /\ connections' = OneLess(t)
  /\ Goto(t, "next")
  /\ UNCHANGED <<daemonVars, listVars, conn, shut, joined, polled,
                 holds, loaded, historyVars>>

-----------------------------------------------------------------------------
(* The main thread: rest_server::stop.                                     *)

(* MHD_quiesce_daemon forgets the socket and wakes the accept thread.      *)
Quiesce ==
  /\ pc["stopper"] = "serving"
  /\ socketFd' = FALSE /\ signalled' = TRUE
  /\ racing' = (pc["acceptor"] \in AcceptSteps)
  /\ Goto("stopper", "close")
  /\ UNCHANGED <<limit, listening, shutdown, connections, listVars, conn,
                 shut, joined, polled, holds, loaded, cutOff>>

(* The returned socket is closed; clients in its backlog are turned away.  *)
CloseSocket ==
  /\ pc["stopper"] = "close"
  /\ listening' = FALSE
  /\ conn' = [c \in Clients |->
                IF conn[c] = "pending" THEN "refused" ELSE conn[c]]
  /\ Goto("stopper", "clean")
  /\ UNCHANGED <<limit, socketFd, signalled, shutdown, connections, listVars,
                 shut, joined, polled, holds, loaded, historyVars>>

(* Read the number of connections; sleep and try again until it is zero.   *)
AllEndedButOne == connections <= 1
AllEnded == connections = 0

CountConnections ==
  /\ pc["stopper"] = "count"
  /\ Goto("stopper", IF AllEnded THEN "stop" ELSE "clean")
  /\ UNCHANGED <<daemonVars, connections, listVars, conn, shut,
                 joined, polled, holds, loaded, historyVars>>

(* MHD_stop_daemon.                                                        *)
Shutdown ==
  /\ pc["stopper"] = "stop"
  /\ shutdown' = TRUE /\ signalled' = TRUE
  /\ Goto("stopper", "join acceptor")
  /\ UNCHANGED <<limit, socketFd, listening, connections, listVars, conn,
                 shut, joined, polled, holds, loaded, historyVars>>

AcceptorSignalled == signalled
AcceptorEnded == pc["acceptor"] = "ended"

JoinAcceptor ==
  /\ pc["stopper"] = "join acceptor" /\ AcceptorEnded
  /\ Goto("stopper", "shut sockets")
  /\ UNCHANGED <<daemonVars, connections, listVars, conn, shut,
                 joined, polled, holds, loaded, historyVars>>

(* close_all_connections: wake the handlers, join them one after another   *)
(* (the head of the list is read without the mutex), free what is left.    *)
ShutSockets ==
  /\ pc["stopper"] = "shut sockets" /\ mutex = None
  /\ shut' = active
  /\ Goto("stopper", "join handlers")
  /\ UNCHANGED <<daemonVars, connections, listVars, conn, joined,
                 polled, holds, loaded, historyVars>>

NextHandler ==
  /\ pc["stopper"] = "join handlers"
  /\ IF active = {}
     THEN Goto("stopper", "clean") /\ UNCHANGED holds
     ELSE /\ \E c \in active : holds' = [holds EXCEPT !["stopper"] = c]
          /\ Goto("stopper", "join handler")
  /\ UNCHANGED <<daemonVars, connections, listVars, conn, shut,
                 joined, polled, loaded, historyVars>>

JoinHandler ==
  /\ pc["stopper"] = "join handler" /\ conn[holds["stopper"]] = "exited"
  /\ joined' = joined \cup {holds["stopper"]}
  /\ Goto("stopper", "join handlers")
  /\ UNCHANGED <<daemonVars, connections, listVars, conn, shut,
                 polled, holds, loaded, historyVars>>

FreeDaemon ==
  /\ pc["stopper"] = "free"
  /\ Goto("stopper", "stopped")
  /\ UNCHANGED <<daemonVars, connections, listVars, conn, shut,
                 joined, polled, holds, loaded, historyVars>>

-----------------------------------------------------------------------------
(* The thread of a connection.                                             *)

handlerUnchanged == <<daemonVars, connections, shut, joined, pc, polled,
                      holds, loaded, racing>>

(* A request arrives: handle_request is called.                            *)
Receive(c) ==
  /\ conn[c] = "waiting" /\ c \notin shut
  /\ Becomes(c, "handling")
  /\ UNCHANGED <<handlerUnchanged, listVars, cutOff>>

(* The response is sent (every response of rest_server says "close"), the  *)
(* client leaves, an error occurs, or the timeout passes.                  *)
Close(c) ==
  /\ conn[c] \in Running
  /\ Becomes(c, "closed")
  /\ UNCHANGED <<handlerUnchanged, listVars, cutOff>>

(* The loop of the thread sees the shutdown: at once while it handles a    *)
(* request, when its socket is shut down while it waits for one.           *)
SeeShutdown(c) ==
  /\ shutdown /\ conn[c] \in Running
  /\ conn[c] = "waiting" => c \in shut
  /\ Becomes(c, "closed")
  /\ cutOff' = IF conn[c] = "handling" THEN cutOff \cup {c} ELSE cutOff
  /\ UNCHANGED <<handlerUnchanged, listVars>>

(* cleanup_connection.                                                     *)
MoveToCleanup(c) ==
  /\ conn[c] = "closed" /\ mutex = None
  /\ active' = active \ {c}
  /\ cleanup' = cleanup \cup {c}
  /\ Becomes(c, "leaving")
  /\ UNCHANGED <<handlerUnchanged, mutex, cutOff>>

Exit(c) ==
  /\ conn[c] = "leaving"
  /\ Becomes(c, "exited")
  /\ UNCHANGED <<handlerUnchanged, listVars, cutOff>>

-----------------------------------------------------------------------------
AcceptorNext ==
  \/ StartPoll \/ PollReturns \/ ReadSocket \/ Accept
  \/ AddConnection \/ CreateThread \/ LoadCount \/ StoreCount

CleanNext(t) ==
  LockLists(t) \/ NextEnded(t) \/ JoinAndFree(t) \/ SubtractOne(t)

StopperNext ==
  \/ Quiesce \/ CloseSocket \/ CountConnections \/ Shutdown \/ JoinAcceptor
  \/ ShutSockets \/ NextHandler \/ JoinHandler \/ FreeDaemon

HandlerNext(c) ==
  \/ Receive(c) \/ Close(c) \/ SeeShutdown(c)
  \/ MoveToCleanup(c) \/ Exit(c)

Next ==
  \/ AcceptorNext
  \/ StopperNext
  \/ \E t \in Threads : CleanNext(t)
  \/ \E c \in Clients : Connect(c) \/ HandlerNext(c)

(***************************************************************************)
(* Every thread is scheduled, and one that waits for the mutex gets it     *)
(* when it is free again and again.  A handler answers, or its connection  *)
(* times out: both are bounded by the timeout of rest_server::set_timeout. *)
(* Nobody has to call stop, to connect, or to send a request.              *)
(***************************************************************************)
Fairness ==
  /\ WF_vars(AcceptorNext) /\ SF_vars(AddConnection)
  /\ WF_vars(StopperNext /\ pc["stopper"] # "serving")
  /\ SF_vars(ShutSockets)
  /\ \A t \in Threads : WF_vars(CleanNext(t)) /\ SF_vars(LockLists(t))
  /\ \A c \in Clients :
       /\ WF_vars(Close(c) \/ SeeShutdown(c))
       /\ SF_vars(MoveToCleanup(c)) /\ WF_vars(Exit(c))

Spec == Init /\ [][Next]_vars /\ Fairness

-----------------------------------------------------------------------------
StepsOK ==
  /\ pc \in [Threads -> AcceptorSteps \cup StopperSteps]
  /\ pc["acceptor"] \in AcceptorSteps /\ pc["stopper"] \in StopperSteps

TypeOK ==
  /\ StepsOK
  /\ limit \in Limits
  /\ socketFd \in BOOLEAN /\ listening \in BOOLEAN
  /\ signalled \in BOOLEAN /\ shutdown \in BOOLEAN
  /\ connections \in 0 .. UnsignedRange - 1
  /\ active \subseteq Clients /\ cleanup \subseteq Clients
  /\ mutex \in Threads \cup {None}
  /\ conn \in [Clients -> ConnStates]
  /\ shut \subseteq Clients /\ joined \subseteq Clients
  /\ polled \in BOOLEAN
  /\ holds \in [Threads -> Clients \cup {None}]
  /\ loaded \in [Threads -> 0 .. UnsignedRange - 1]
  /\ racing \in BOOLEAN /\ cutOff \subseteq Clients

(* A connection is in exactly one place from the moment it is listed until *)
(* it is freed: the list of active ones while its thread runs, the cleanup *)
(* list when its thread is done with it, the hands of the one thread that  *)
(* joins and frees it (daemon.cpp:1440, connection.cpp:2249,               *)
(* daemon.cpp:1892).                                                       *)
BeingListed(c) == pc["acceptor"] = "create" /\ holds["acceptor"] = c
BeingFreed(c) == \E t \in Threads : pc[t] = "join" /\ holds[t] = c
EveryConnectionHeldOnce ==
  /\ \A c \in Clients :
       /\ c \in active <=> conn[c] \in Running \cup {"closed"} \/ BeingListed(c)
       /\ c \in cleanup \/ BeingFreed(c) <=> conn[c] \in {"leaving", "exited"}
       /\ ~(c \in cleanup /\ BeingFreed(c))
  /\ \A t \in Threads : pc[t] \in {"next", "join", "subtract"} <=> mutex = t

(* The daemon is freed when no thread and no connection is left that could *)
(* touch it (daemon.cpp:4242).                                             *)
StoppedServerIsEmpty ==
  pc["stopper"] \in {"free", "stopped"} =>
    /\ pc["acceptor"] = "ended"
    /\ \A c \in Clients : conn[c] \in {"away", "refused", "freed"}
    /\ active \cup cleanup = {}

(* At the limit clients stay in the backlog until a connection ends; none  *)
(* is accepted only to be rejected (daemon.cpp:2417).                      *)
NobodyIsRejected == pc["acceptor"] = "add" => connections # limit

(* There are never more connections than the limit, whichever thread frees *)
(* them (daemon.cpp:1242, daemon.cpp:1959).                                *)
WithinLimit ==
  Cardinality({c \in Clients : conn[c] \in WithThread \cup {"exited"}})
    <= limit

(* Both hold: the test of the limit in poll and the one on insertion agree. *)
LimitIsKept == NobodyIsRejected /\ WithinLimit

(* The counter is the number of connections in the lists, but for the one  *)
(* being added or freed, also when the stopping thread and the accepting   *)
(* one free them together: no update is lost (daemon.cpp:1497,             *)
(* daemon.cpp:1959), unless the signal came while a client was accepted.   *)
Uncounted == IF pc["acceptor"] \in {"create", "load", "store"} THEN 1 ELSE 0
Unsubtracted ==
  IF \E t \in Threads : pc[t] \in {"join", "subtract"} THEN 1 ELSE 0
CountIsExact ==
  ~racing =>
    connections + Uncounted = Cardinality(active \cup cleanup) + Unsubtracted

(* "Quiesce the daemon and wait for current requests to be handled"        *)
(* (rest_server.cpp:401): no request is ended by the shutdown.             *)
CurrentRequestsHandled == cutOff = {}

(* The same, unless the signal came while a client was being accepted: the *)
(* count that stop polls misses nobody else (rest_server.cpp:405).         *)
OnlyRacingRequestsCutOff == ~racing => cutOff = {}

(* stop returns (rest_server.cpp:398), unless the signal came while a      *)
(* client was being accepted: then the count may never be zero again.      *)
StopReturns ==
  (pc["stopper"] = "close" /\ ~racing) ~> (pc["stopper"] = "stopped")
=============================================================================
