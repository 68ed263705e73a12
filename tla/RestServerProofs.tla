--------------------------- MODULE RestServerProofs ---------------------------
(***************************************************************************)
(* Proofs about the threads of the REST server, for every set of clients   *)
(* and every limit.                                                        *)
(***************************************************************************)
EXTENDS RestServer, FiniteSetTheorems, TLAPS

LEMMA InRange ==
  ASSUME NEW a \in Int
  PROVE  a % UnsignedRange \in 0 .. UnsignedRange - 1
  BY UnsignedAssumption, SMT

-----------------------------------------------------------------------------
(* Where the two threads are.                                              *)

LEMMA StepsAcceptor ==
  ASSUME StepsOK, AcceptorNext
  PROVE  StepsOK'
<1> USE DEF StepsOK, Goto, Threads, AcceptorSteps, StopperSteps, CleanSteps,
      AcceptSteps
<1>1. CASE StartPoll
  BY <1>1 DEF StartPoll
<1>2. CASE PollReturns
  BY <1>2 DEF PollReturns
<1>3. CASE ReadSocket
  BY <1>3 DEF ReadSocket
<1>4. CASE Accept
  BY <1>4 DEF Accept
<1>5. CASE AddConnection
  BY <1>5 DEF AddConnection
<1>6. CASE CreateThread
  BY <1>6 DEF CreateThread
<1>7. CASE LoadCount
  BY <1>7 DEF LoadCount
<1>8. CASE StoreCount
  BY <1>8 DEF StoreCount
<1> QED
  BY <1>1, <1>2, <1>3, <1>4, <1>5, <1>6, <1>7, <1>8 DEF AcceptorNext

LEMMA StepsClean ==
  ASSUME StepsOK, NEW t \in Threads, CleanNext(t)
  PROVE  StepsOK'
<1> USE DEF StepsOK, Goto, Threads, AcceptorSteps, StopperSteps, CleanSteps,
      AcceptSteps
<1>1. CASE LockLists(t)
  BY <1>1 DEF LockLists
<1>2. CASE NextEnded(t)
  BY <1>2 DEF NextEnded, AfterClean
<1>3. CASE JoinAndFree(t)
  BY <1>3 DEF JoinAndFree
<1>4. CASE SubtractOne(t)
  BY <1>4 DEF SubtractOne
<1> QED
  BY <1>1, <1>2, <1>3, <1>4 DEF CleanNext

LEMMA StepsStopper ==
  ASSUME StepsOK, StopperNext
  PROVE  StepsOK'
<1> USE DEF StepsOK, Goto, Threads, AcceptorSteps, StopperSteps, CleanSteps,
      AcceptSteps
<1>1. CASE Quiesce
  BY <1>1 DEF Quiesce
<1>2. CASE CloseSocket
  BY <1>2 DEF CloseSocket
<1>3. CASE CountConnections
  BY <1>3 DEF CountConnections
<1>4. CASE Shutdown
  BY <1>4 DEF Shutdown
<1>5. CASE JoinAcceptor
  BY <1>5 DEF JoinAcceptor
<1>6. CASE ShutSockets
  BY <1>6 DEF ShutSockets
<1>7. CASE NextHandler
  BY <1>7 DEF NextHandler
<1>8. CASE JoinHandler
  BY <1>8 DEF JoinHandler
<1>9. CASE FreeDaemon
  BY <1>9 DEF FreeDaemon
<1> QED
  BY <1>1, <1>2, <1>3, <1>4, <1>5, <1>6, <1>7, <1>8, <1>9 DEF StopperNext

LEMMA StepsHandler ==
  ASSUME StepsOK, NEW c \in Clients, Connect(c) \/ HandlerNext(c)
  PROVE  StepsOK'
<1>1. pc' = pc
  BY DEF Connect, HandlerNext, Receive, Close, SeeShutdown,
     MoveToCleanup, Exit, handlerUnchanged
<1> QED  BY <1>1 DEF StepsOK

LEMMA StepsInit == Init => StepsOK
  BY DEF Init, StepsOK, Threads, AcceptorSteps, StopperSteps

LEMMA StepsNext ==
  ASSUME StepsOK, [Next]_vars
  PROVE  StepsOK'
<1>1. CASE UNCHANGED vars
  BY <1>1 DEF StepsOK, vars
<1> QED
  BY <1>1, StepsAcceptor, StepsClean, StepsStopper, StepsHandler DEF Next

-----------------------------------------------------------------------------
(* What they hold, and the types of the other variables.                   *)

(* A thread that is to act on a connection has one.                        *)
HoldsInv ==
  /\ active \subseteq Clients /\ cleanup \subseteq Clients
  /\ holds \in [Threads -> Clients \cup {None}]
  /\ pc["acceptor"] \in {"add", "create"} => holds["acceptor"] \in Clients
  /\ pc["stopper"] = "join handler" => holds["stopper"] \in Clients
  /\ \A t \in Threads : pc[t] = "join" => holds[t] \in Clients

LEMMA HoldsAcceptor ==
  ASSUME StepsOK, HoldsInv, AcceptorNext
  PROVE  HoldsInv'
<1> USE DEF StepsOK, HoldsInv, Goto, Threads, listVars
<1>1. CASE StartPoll
  BY <1>1 DEF StartPoll
<1>2. CASE PollReturns
  BY <1>2 DEF PollReturns
<1>3. CASE ReadSocket
  BY <1>3 DEF ReadSocket
<1>4. CASE Accept
  BY <1>4 DEF Accept, Pending
<1>5. CASE AddConnection
  BY <1>5 DEF AddConnection
<1>6. CASE CreateThread
  BY <1>6 DEF CreateThread, TakeBack
<1>7. CASE LoadCount
  BY <1>7 DEF LoadCount
<1>8. CASE StoreCount
  BY <1>8 DEF StoreCount
<1> QED
  BY <1>1, <1>2, <1>3, <1>4, <1>5, <1>6, <1>7, <1>8 DEF AcceptorNext

LEMMA HoldsClean ==
  ASSUME StepsOK, HoldsInv, NEW t \in Threads, CleanNext(t)
  PROVE  HoldsInv'
<1> USE DEF StepsOK, HoldsInv, Goto, Threads, listVars
<1>1. CASE LockLists(t)
  BY <1>1 DEF LockLists
<1>2. CASE NextEnded(t)
  BY <1>2 DEF NextEnded, AfterClean
<1>3. CASE JoinAndFree(t)
  BY <1>3 DEF JoinAndFree
<1>4. CASE SubtractOne(t)
  BY <1>4 DEF SubtractOne
<1> QED
  BY <1>1, <1>2, <1>3, <1>4 DEF CleanNext

LEMMA HoldsStopper ==
  ASSUME StepsOK, HoldsInv, StopperNext
  PROVE  HoldsInv'
<1> USE DEF StepsOK, HoldsInv, Goto, Threads, listVars
<1>1. CASE Quiesce
  BY <1>1 DEF Quiesce
<1>2. CASE CloseSocket
  BY <1>2 DEF CloseSocket
<1>3. CASE CountConnections
  BY <1>3 DEF CountConnections
<1>4. CASE Shutdown
  BY <1>4 DEF Shutdown
<1>5. CASE JoinAcceptor
  BY <1>5 DEF JoinAcceptor
<1>6. CASE ShutSockets
  BY <1>6 DEF ShutSockets
<1>7. CASE NextHandler
  BY <1>7 DEF NextHandler
<1>8. CASE JoinHandler
  BY <1>8 DEF JoinHandler
<1>9. CASE FreeDaemon
  BY <1>9 DEF FreeDaemon
<1> QED
  BY <1>1, <1>2, <1>3, <1>4, <1>5, <1>6, <1>7, <1>8, <1>9 DEF StopperNext

LEMMA HoldsHandler ==
  ASSUME StepsOK, HoldsInv, NEW c \in Clients, Connect(c) \/ HandlerNext(c)
  PROVE  HoldsInv'
<1> USE DEF HoldsInv, handlerUnchanged, listVars
<1>1. CASE Connect(c)
  BY <1>1 DEF Connect
<1>2. CASE Receive(c)
  BY <1>2 DEF Receive
<1>3. CASE Close(c)
  BY <1>3 DEF Close
<1>4. CASE SeeShutdown(c)
  BY <1>4 DEF SeeShutdown
<1>5. CASE MoveToCleanup(c)
  BY <1>5 DEF MoveToCleanup
<1>6. CASE Exit(c)
  BY <1>6 DEF Exit
<1> QED
  BY <1>1, <1>2, <1>3, <1>4, <1>5, <1>6 DEF HandlerNext

LEMMA HoldsNext ==
  ASSUME StepsOK, HoldsInv, [Next]_vars
  PROVE  HoldsInv'
<1>1. CASE UNCHANGED vars
  BY <1>1 DEF HoldsInv, vars, listVars
<1> QED
  BY <1>1, HoldsAcceptor, HoldsClean, HoldsStopper, HoldsHandler DEF Next

LEMMA LoadedRange ==
  ASSUME loaded \in [Threads -> 0 .. UnsignedRange - 1], NEW t \in Threads
  PROVE  /\ (loaded[t] + 1) % UnsignedRange \in 0 .. UnsignedRange - 1
         /\ (loaded[t] - 1) % UnsignedRange \in 0 .. UnsignedRange - 1
<1>1. loaded[t] \in 0 .. UnsignedRange - 1
  OBVIOUS
<1>2. loaded[t] + 1 \in Int /\ loaded[t] - 1 \in Int
  BY <1>1
<1> QED  BY <1>2, InRange

LEMMA RacingType == Quiesce => racing' \in BOOLEAN
  BY DEF Quiesce

LEMMA DataAcceptor ==
  ASSUME TypeOK, HoldsInv, StepsOK', HoldsInv', AcceptorNext
  PROVE  TypeOK'
<1> USE DEF TypeOK, HoldsInv, Becomes, Threads,
      daemonVars, listVars, historyVars, ConnStates, WithThread, Running
<1>1. CASE StartPoll
  BY <1>1 DEF StartPoll, PollSet
<1>2. CASE PollReturns
  BY <1>2 DEF PollReturns
<1>3. CASE ReadSocket
  BY <1>3 DEF ReadSocket
<1>4. CASE Accept
  BY <1>4 DEF Accept, Pending
<1>5. CASE AddConnection
  BY <1>5 DEF AddConnection
<1>6. CASE CreateThread
  BY <1>6 DEF CreateThread, TakeBack
<1>7. CASE LoadCount
  BY <1>7 DEF LoadCount
<1>8. CASE StoreCount
  <2>1. OneMore \in 0 .. UnsignedRange - 1
    BY LoadedRange DEF OneMore
  <2> QED  BY <1>8, <2>1 DEF StoreCount
<1> QED
  BY <1>1, <1>2, <1>3, <1>4, <1>5, <1>6, <1>7, <1>8 DEF AcceptorNext

LEMMA DataClean ==
  ASSUME TypeOK, HoldsInv, StepsOK', HoldsInv',
         NEW t \in Threads, CleanNext(t)
  PROVE  TypeOK'
<1> USE DEF TypeOK, HoldsInv, Becomes, Threads,
      daemonVars, listVars, historyVars, ConnStates, WithThread, Running
<1>1. CASE LockLists(t)
  BY <1>1 DEF LockLists
<1>2. CASE NextEnded(t)
  BY <1>2 DEF NextEnded
<1>3. CASE JoinAndFree(t)
  BY <1>3 DEF JoinAndFree
<1>4. CASE SubtractOne(t)
  <2>1. OneLess(t) \in 0 .. UnsignedRange - 1
    BY LoadedRange DEF OneLess
  <2> QED  BY <1>4, <2>1 DEF SubtractOne
<1> QED
  BY <1>1, <1>2, <1>3, <1>4 DEF CleanNext

LEMMA DataStopper ==
  ASSUME TypeOK, HoldsInv, StepsOK', HoldsInv', StopperNext
  PROVE  TypeOK'
<1> USE DEF TypeOK, HoldsInv, Becomes, Threads,
      daemonVars, listVars, historyVars, ConnStates, WithThread, Running
<1>1. CASE Quiesce
  <2>1. racing' \in BOOLEAN
    BY <1>1, RacingType
  <2> QED  BY <1>1, <2>1 DEF Quiesce
<1>2. CASE CloseSocket
  BY <1>2 DEF CloseSocket
<1>3. CASE CountConnections
  BY <1>3 DEF CountConnections
<1>4. CASE Shutdown
  BY <1>4 DEF Shutdown
<1>5. CASE JoinAcceptor
  BY <1>5 DEF JoinAcceptor
<1>6. CASE ShutSockets
  BY <1>6 DEF ShutSockets
<1>7. CASE NextHandler
  BY <1>7 DEF NextHandler
<1>8. CASE JoinHandler
  BY <1>8 DEF JoinHandler
<1>9. CASE FreeDaemon
  BY <1>9 DEF FreeDaemon
<1> QED
  BY <1>1, <1>2, <1>3, <1>4, <1>5, <1>6, <1>7, <1>8, <1>9 DEF StopperNext

LEMMA DataHandler ==
  ASSUME TypeOK, HoldsInv, StepsOK', HoldsInv',
         NEW c \in Clients, Connect(c) \/ HandlerNext(c)
  PROVE  TypeOK'
<1> USE DEF TypeOK, HoldsInv, Becomes, Threads,
      daemonVars, listVars, historyVars, ConnStates, WithThread, Running,
      handlerUnchanged
<1>1. CASE Connect(c)
  BY <1>1 DEF Connect
<1>2. CASE Receive(c)
  BY <1>2 DEF Receive
<1>3. CASE Close(c)
  BY <1>3 DEF Close
<1>4. CASE SeeShutdown(c)
  BY <1>4 DEF SeeShutdown
<1>5. CASE MoveToCleanup(c)
  BY <1>5 DEF MoveToCleanup
<1>6. CASE Exit(c)
  BY <1>6 DEF Exit
<1> QED
  BY <1>1, <1>2, <1>3, <1>4, <1>5, <1>6 DEF HandlerNext

LEMMA DataInit == Init => StepsOK /\ HoldsInv /\ TypeOK
<1> SUFFICES ASSUME Init PROVE StepsOK /\ HoldsInv /\ TypeOK
  OBVIOUS
<1>1. HoldsInv
  BY DEF Init, HoldsInv, Threads
<1>2. 0 \in 0 .. UnsignedRange - 1
  BY UnsignedAssumption
<1>3. TypeOK
  BY <1>2, StepsInit DEF Init, TypeOK, Threads, ConnStates
<1> QED  BY StepsInit, <1>1, <1>3

LEMMA DataNext ==
  ASSUME StepsOK, HoldsInv, TypeOK, [Next]_vars
  PROVE  StepsOK' /\ HoldsInv' /\ TypeOK'
<1>1. StepsOK' /\ HoldsInv'
  BY StepsNext, HoldsNext
<1>2. CASE UNCHANGED vars
  BY <1>1, <1>2 DEF TypeOK, vars, daemonVars, listVars, historyVars
<1> QED
  BY <1>1, <1>2, DataAcceptor, DataClean, DataStopper, DataHandler DEF Next

(* The variables keep their types; daemon->connections wraps around, as an *)
(* unsigned does (daemon.cpp:1497, daemon.cpp:1959).                       *)
THEOREM TypeCorrectness == Spec => []TypeOK
<1>1. StepsOK /\ HoldsInv /\ TypeOK /\ [Next]_vars
        => (StepsOK /\ HoldsInv /\ TypeOK)'
  BY DataNext
<1> QED  BY DataInit, <1>1, PTL DEF Spec

-----------------------------------------------------------------------------
(* Where the connections are.                                              *)

(* The mutex is held by the thread that goes through the cleanup list.     *)
LockInv == \A t \in Threads : pc[t] \in {"next", "join", "subtract"} <=> mutex = t

(* The place of a connection; one that is accepted and has no thread yet   *)
(* is in the hands of the accept thread.                                   *)
Placed(c) ==
  /\ c \in active <=> conn[c] \in Running \cup {"closed"} \/ BeingListed(c)
  /\ c \in cleanup \/ BeingFreed(c) <=> conn[c] \in {"leaving", "exited"}
  /\ ~(c \in cleanup /\ BeingFreed(c))
  /\ conn[c] = "accepted" <=>
       pc["acceptor"] \in {"add", "create"} /\ holds["acceptor"] = c

PlaceInv == LockInv /\ \A c \in Clients : Placed(c)

LEMMA LockAcceptor ==
  ASSUME StepsOK, LockInv, AcceptorNext
  PROVE  LockInv'
<1> USE NoneAssumption DEF StepsOK, LockInv, Goto, Threads, listVars
<1>1. CASE StartPoll
  BY <1>1 DEF StartPoll
<1>2. CASE PollReturns
  BY <1>2 DEF PollReturns
<1>3. CASE ReadSocket
  BY <1>3 DEF ReadSocket
<1>4. CASE Accept
  BY <1>4 DEF Accept
<1>5. CASE AddConnection
  BY <1>5 DEF AddConnection
<1>6. CASE CreateThread
  BY <1>6 DEF CreateThread
<1>7. CASE LoadCount
  BY <1>7 DEF LoadCount
<1>8. CASE StoreCount
  BY <1>8 DEF StoreCount
<1> QED
  BY <1>1, <1>2, <1>3, <1>4, <1>5, <1>6, <1>7, <1>8 DEF AcceptorNext

LEMMA LockClean ==
  ASSUME StepsOK, LockInv, NEW t \in Threads, CleanNext(t)
  PROVE  LockInv'
<1> USE NoneAssumption DEF StepsOK, LockInv, Goto, Threads, listVars
<1>1. CASE LockLists(t)
  BY <1>1 DEF LockLists
<1>2. CASE NextEnded(t)
  BY <1>2 DEF NextEnded, AfterClean
<1>3. CASE JoinAndFree(t)
  BY <1>3 DEF JoinAndFree
<1>4. CASE SubtractOne(t)
  BY <1>4 DEF SubtractOne
<1> QED
  BY <1>1, <1>2, <1>3, <1>4 DEF CleanNext

LEMMA LockStopper ==
  ASSUME StepsOK, LockInv, StopperNext
  PROVE  LockInv'
<1> USE NoneAssumption DEF StepsOK, LockInv, Goto, Threads, listVars
<1>1. CASE Quiesce
  BY <1>1 DEF Quiesce
<1>2. CASE CloseSocket
  BY <1>2 DEF CloseSocket
<1>3. CASE CountConnections
  BY <1>3 DEF CountConnections
<1>4. CASE Shutdown
  BY <1>4 DEF Shutdown
<1>5. CASE JoinAcceptor
  BY <1>5 DEF JoinAcceptor
<1>6. CASE ShutSockets
  BY <1>6 DEF ShutSockets
<1>7. CASE NextHandler
  BY <1>7 DEF NextHandler
<1>8. CASE JoinHandler
  BY <1>8 DEF JoinHandler
<1>9. CASE FreeDaemon
  BY <1>9 DEF FreeDaemon
<1> QED
  BY <1>1, <1>2, <1>3, <1>4, <1>5, <1>6, <1>7, <1>8, <1>9 DEF StopperNext

LEMMA LockHandler ==
  ASSUME StepsOK, LockInv, NEW c \in Clients, Connect(c) \/ HandlerNext(c)
  PROVE  LockInv'
<1> USE DEF LockInv, listVars, handlerUnchanged
<1>1. CASE Connect(c)
  BY <1>1 DEF Connect
<1>2. CASE Receive(c)
  BY <1>2 DEF Receive
<1>3. CASE Close(c)
  BY <1>3 DEF Close
<1>4. CASE SeeShutdown(c)
  BY <1>4 DEF SeeShutdown
<1>5. CASE MoveToCleanup(c)
  BY <1>5 DEF MoveToCleanup
<1>6. CASE Exit(c)
  BY <1>6 DEF Exit
<1> QED
  BY <1>1, <1>2, <1>3, <1>4, <1>5, <1>6 DEF HandlerNext

LEMMA PlaceHandler ==
  ASSUME conn \in [Clients -> ConnStates], NEW d \in Clients, Placed(d),
         NEW c \in Clients, Connect(c) \/ HandlerNext(c)
  PROVE  Placed(d)'
<1> USE DEF Placed, BeingListed, BeingFreed, Goto, Becomes,
      Threads, Running, ConnStates, WithThread, daemonVars, listVars,
      handlerUnchanged
<1>1. CASE Connect(c)
  BY <1>1 DEF Connect
<1>2. CASE Receive(c)
  BY <1>2 DEF Receive
<1>3. CASE Close(c)
  BY <1>3 DEF Close
<1>4. CASE SeeShutdown(c)
  BY <1>4 DEF SeeShutdown
<1>5. CASE MoveToCleanup(c)
  BY <1>5 DEF MoveToCleanup
<1>6. CASE Exit(c)
  BY <1>6 DEF Exit
<1> QED
  BY <1>1, <1>2, <1>3, <1>4, <1>5, <1>6 DEF HandlerNext

LEMMA PlaceAcceptor ==
  ASSUME conn \in [Clients -> ConnStates], StepsOK, HoldsInv,
         NEW d \in Clients, Placed(d), AcceptorNext
  PROVE  Placed(d)'
<1> USE DEF Placed, BeingListed, BeingFreed, Goto, Becomes,
      Threads, Running, ConnStates, WithThread, daemonVars, listVars,
      StepsOK, HoldsInv
<1>1. CASE StartPoll
  BY <1>1 DEF StartPoll
<1>2. CASE PollReturns
  BY <1>2 DEF PollReturns
<1>3. CASE ReadSocket
  BY <1>3 DEF ReadSocket
<1>4. CASE Accept
  <2>1. CASE ~listening
    BY <1>4, <2>1 DEF Accept
  <2>2. ASSUME NEW c \in Clients, conn[c] = "pending", Becomes(c, "accepted"),
               holds' = [holds EXCEPT !["acceptor"] = c],
               Goto("acceptor", "add")
        PROVE  Placed(d)'
    <3>1. conn' = [conn EXCEPT ![c] = "accepted"]
            /\ active' = active /\ cleanup' = cleanup
      BY <1>4, <2>2 DEF Accept
    <3>2. holds'["acceptor"] = c /\ pc'["acceptor"] = "add"
            /\ pc["acceptor"] = "accept4"
      BY <1>4, <2>2 DEF Accept
    <3>3. BeingFreed(d)' <=> BeingFreed(d)
      BY <1>4, <2>2, <3>2 DEF Accept
    <3> QED  BY <1>4, <2>2, <3>1, <3>2, <3>3
  <2> QED  BY <1>4, <2>1, <2>2 DEF Accept, Pending
<1>5. CASE AddConnection
  BY <1>5 DEF AddConnection
<1>6. CASE CreateThread
  BY <1>6 DEF CreateThread, TakeBack
<1>7. CASE LoadCount
  BY <1>7 DEF LoadCount
<1>8. CASE StoreCount
  BY <1>8 DEF StoreCount
<1> QED
  BY <1>1, <1>2, <1>3, <1>4, <1>5, <1>6, <1>7, <1>8 DEF AcceptorNext

LEMMA PlaceStopper ==
  ASSUME conn \in [Clients -> ConnStates], StepsOK, HoldsInv,
         NEW d \in Clients, Placed(d), StopperNext
  PROVE  Placed(d)'
<1> USE DEF Placed, BeingListed, BeingFreed, Goto, Becomes,
      Threads, Running, ConnStates, WithThread, daemonVars, listVars,
      StepsOK, HoldsInv
<1>1. CASE Quiesce
  BY <1>1 DEF Quiesce
<1>2. CASE CloseSocket
  BY <1>2 DEF CloseSocket
<1>3. CASE CountConnections
  BY <1>3 DEF CountConnections
<1>4. CASE Shutdown
  BY <1>4 DEF Shutdown
<1>5. CASE JoinAcceptor
  BY <1>5 DEF JoinAcceptor
<1>6. CASE ShutSockets
  BY <1>6 DEF ShutSockets
<1>7. CASE NextHandler
  BY <1>7 DEF NextHandler
<1>8. CASE JoinHandler
  BY <1>8 DEF JoinHandler
<1>9. CASE FreeDaemon
  BY <1>9 DEF FreeDaemon
<1> QED
  BY <1>1, <1>2, <1>3, <1>4, <1>5, <1>6, <1>7, <1>8, <1>9 DEF StopperNext

LEMMA PlaceClean ==
  ASSUME conn \in [Clients -> ConnStates], StepsOK, HoldsInv,
         LockInv, LockInv', NEW d \in Clients, Placed(d),
         NEW t \in Threads, CleanNext(t)
  PROVE  Placed(d)'
<1> USE DEF Placed, BeingListed, BeingFreed, Goto, Becomes,
      Threads, Running, ConnStates, WithThread, daemonVars, listVars,
      StepsOK, HoldsInv, LockInv
<1>1. CASE LockLists(t)
  BY <1>1 DEF LockLists
<1>2. CASE NextEnded(t)
  <2>2. CASE cleanup = {}
    <3>1. pc'[t] # "join" /\ pc'[t] # "create" /\ pc'[t] # "add"
      BY <1>2, <2>2 DEF NextEnded, AfterClean
    <3> QED  BY <1>2, <2>2, <3>1 DEF NextEnded
  <2>3. ASSUME NEW c \in cleanup, cleanup' = cleanup \ {c},
               holds' = [holds EXCEPT ![t] = c], Goto(t, "join")
        PROVE  Placed(d)'
    <3>1. BeingFreed(d)' <=> BeingFreed(d) \/ d = c
      BY <1>2, <2>3 DEF NextEnded
    <3>2. BeingListed(d)' <=> BeingListed(d)
      BY <1>2, <2>3 DEF NextEnded
    <3>3. conn' = conn /\ active' = active
      BY <1>2 DEF NextEnded
    <3>4. ~BeingFreed(c)
      BY <1>2, <2>3 DEF NextEnded
    <3> QED  BY <1>2, <2>3, <3>1, <3>2, <3>3, <3>4 DEF NextEnded
  <2> QED  BY <1>2, <2>2, <2>3 DEF NextEnded
<1>3. CASE JoinAndFree(t)
  BY <1>3 DEF JoinAndFree
<1>4. CASE SubtractOne(t)
  BY <1>4 DEF SubtractOne
<1> QED
  BY <1>1, <1>2, <1>3, <1>4 DEF CleanNext

LEMMA PlaceInit == Init => PlaceInv
  BY NoneAssumption DEF Init, PlaceInv, LockInv, Placed, BeingListed, BeingFreed,
     Threads, Running, WithThread, ConnStates

LEMMA PlaceNext ==
  ASSUME StepsOK, HoldsInv, TypeOK, PlaceInv, [Next]_vars
  PROVE  PlaceInv'
<1>1. LockInv'
  <2>1. CASE UNCHANGED vars
    BY <2>1 DEF PlaceInv, LockInv, vars, listVars
  <2> QED
    BY <2>1, LockAcceptor, LockClean, LockStopper, LockHandler DEF Next, PlaceInv
<1>2. ASSUME NEW d \in Clients PROVE Placed(d)'
  <2>1. CASE UNCHANGED vars
    BY <2>1 DEF PlaceInv, Placed, BeingListed, BeingFreed, vars, listVars
  <2>2. conn \in [Clients -> ConnStates]
    BY DEF TypeOK
  <2>3. Placed(d) /\ LockInv
    BY DEF PlaceInv
  <2> QED
    BY <1>1, <2>1, <2>2, <2>3,
       PlaceAcceptor, PlaceClean, PlaceStopper, PlaceHandler DEF Next
<1> QED  BY <1>1, <1>2 DEF PlaceInv

(* The four invariants so far, as one.                                     *)
BaseInv == StepsOK /\ HoldsInv /\ TypeOK /\ PlaceInv

LEMMA BaseInvariance == Init => BaseInv
  BY DataInit, PlaceInit DEF BaseInv

LEMMA BaseNext ==
  ASSUME BaseInv, [Next]_vars
  PROVE  BaseInv'
  BY DataNext, PlaceNext DEF BaseInv

(* No connection is in two lists, freed twice, or freed before its thread  *)
(* has left it (daemon.cpp:1440, connection.cpp:2249, daemon.cpp:1892).    *)
THEOREM ConnectionsHeldOnce == Spec => []EveryConnectionHeldOnce
<1>1. BaseInv /\ [Next]_vars => BaseInv'
  BY BaseNext
<1>2. BaseInv => EveryConnectionHeldOnce
  BY DEF BaseInv, PlaceInv, LockInv, Placed, EveryConnectionHeldOnce
<1> QED  BY BaseInvariance, <1>1, <1>2, PTL DEF Spec

-----------------------------------------------------------------------------
(* How the server stops.                                                   *)

Ending == {"join acceptor", "shut sockets", "join handlers", "join handler",
           "free", "stopped"}

StopInv ==
  /\ socketFd => pc["stopper"] = "serving"
  /\ pc["stopper"] \notin {"serving", "close"} => ~listening
  /\ ~listening => \A c \in Clients : conn[c] # "pending"
  /\ shutdown => pc["stopper"] \in Ending \cup CleanSteps
  /\ pc["stopper"] \in Ending => shutdown
  /\ shutdown /\ pc["stopper"] # "join acceptor" => pc["acceptor"] = "ended"
  /\ shutdown /\ pc["stopper"] \in CleanSteps \cup {"free", "stopped"} =>
       active = {}
  /\ pc["stopper"] \in {"free", "stopped"} => cleanup = {}

LEMMA StopInit == Init => StopInv
  BY DEF Init, StopInv, Ending, CleanSteps, Threads

LEMMA StopAcceptor ==
  ASSUME conn \in [Clients -> ConnStates], StepsOK, HoldsInv, StopInv,
         AcceptorNext
  PROVE  StopInv'
<1> USE DEF StopInv, Goto, Becomes, Ending, CleanSteps, Threads, StepsOK,
      daemonVars, listVars, HoldsInv
<1>1. CASE StartPoll
  BY <1>1 DEF StartPoll
<1>2. CASE PollReturns
  BY <1>2 DEF PollReturns, AcceptorSteps
<1>3. CASE ReadSocket
  BY <1>3 DEF ReadSocket
<1>4. CASE Accept
  BY <1>4 DEF Accept, Pending
<1>5. CASE AddConnection
  BY <1>5 DEF AddConnection
<1>6. CASE CreateThread
  BY <1>6 DEF CreateThread, TakeBack
<1>7. CASE LoadCount
  BY <1>7 DEF LoadCount
<1>8. CASE StoreCount
  BY <1>8 DEF StoreCount
<1> QED
  BY <1>1, <1>2, <1>3, <1>4, <1>5, <1>6, <1>7, <1>8 DEF AcceptorNext

LEMMA StopClean ==
  ASSUME conn \in [Clients -> ConnStates], StepsOK, HoldsInv, StopInv,
         NEW t \in Threads, CleanNext(t)
  PROVE  StopInv'
<1> USE DEF StopInv, Goto, Becomes, Ending, CleanSteps, Threads, StepsOK,
      daemonVars, listVars, HoldsInv
<1>1. CASE LockLists(t)
  BY <1>1 DEF LockLists
<1>2. CASE NextEnded(t)
  BY <1>2 DEF NextEnded, AfterClean
<1>3. CASE JoinAndFree(t)
  BY <1>3 DEF JoinAndFree
<1>4. CASE SubtractOne(t)
  BY <1>4 DEF SubtractOne
<1> QED
  BY <1>1, <1>2, <1>3, <1>4 DEF CleanNext

LEMMA StopStopper ==
  ASSUME conn \in [Clients -> ConnStates], StepsOK, HoldsInv, StopInv,
         StopperNext
  PROVE  StopInv'
<1> USE DEF StopInv, Goto, Becomes, Ending, CleanSteps, Threads, StepsOK,
      daemonVars, listVars, HoldsInv
<1>1. CASE Quiesce
  BY <1>1 DEF Quiesce
<1>2. CASE CloseSocket
  BY <1>2 DEF CloseSocket
<1>3. CASE CountConnections
  BY <1>3 DEF CountConnections
<1>4. CASE Shutdown
  BY <1>4 DEF Shutdown
<1>5. CASE JoinAcceptor
  BY <1>5 DEF JoinAcceptor, AcceptorEnded
<1>6. CASE ShutSockets
  BY <1>6 DEF ShutSockets
<1>7. CASE NextHandler
  BY <1>7 DEF NextHandler
<1>8. CASE JoinHandler
  BY <1>8 DEF JoinHandler
<1>9. CASE FreeDaemon
  BY <1>9 DEF FreeDaemon
<1> QED
  BY <1>1, <1>2, <1>3, <1>4, <1>5, <1>6, <1>7, <1>8, <1>9 DEF StopperNext

LEMMA StopHandler ==
  ASSUME conn \in [Clients -> ConnStates], StopInv, NEW c \in Clients, Placed(c),
         Connect(c) \/ HandlerNext(c)
  PROVE  StopInv'
<1> USE DEF StopInv, Becomes, daemonVars, listVars, handlerUnchanged, Placed,
      Running, WithThread, Ending
<1>1. CASE Connect(c)
  BY <1>1 DEF Connect
<1>2. CASE Receive(c)
  BY <1>2 DEF Receive
<1>3. CASE Close(c)
  BY <1>3 DEF Close
<1>4. CASE SeeShutdown(c)
  BY <1>4 DEF SeeShutdown
<1>5. CASE MoveToCleanup(c)
  BY <1>5 DEF MoveToCleanup
<1>6. CASE Exit(c)
  BY <1>6 DEF Exit
<1> QED
  BY <1>1, <1>2, <1>3, <1>4, <1>5, <1>6 DEF HandlerNext

LEMMA StopNext ==
  ASSUME BaseInv, StopInv, [Next]_vars
  PROVE  StopInv'
<1>1. conn \in [Clients -> ConnStates] /\ StepsOK /\ HoldsInv
  BY DEF BaseInv, TypeOK
<1>2. \A c \in Clients : Placed(c)
  BY DEF BaseInv, PlaceInv
<1>3. CASE UNCHANGED vars
  BY <1>3 DEF StopInv, vars, daemonVars, listVars
<1> QED
  BY <1>1, <1>2, <1>3, StopAcceptor, StopClean, StopStopper, StopHandler DEF Next

(* When the daemon is freed, its threads have ended and its connections    *)
(* are freed (daemon.cpp:4242).                                            *)
THEOREM StopLeavesNothing == Spec => []StoppedServerIsEmpty
<1>1. Init => BaseInv /\ StopInv
  BY BaseInvariance, StopInit
<1>2. BaseInv /\ StopInv /\ [Next]_vars => (BaseInv /\ StopInv)'
  BY BaseNext, StopNext
<1>3. BaseInv /\ StopInv => StoppedServerIsEmpty
  <2> SUFFICES ASSUME BaseInv, StopInv, pc["stopper"] \in {"free", "stopped"}
               PROVE  /\ pc["acceptor"] = "ended" /\ active \cup cleanup = {}
                      /\ \A c \in Clients : conn[c] \in {"away", "refused", "freed"}
    BY DEF StoppedServerIsEmpty
  <2>1. pc["acceptor"] = "ended" /\ active \cup cleanup = {} /\ ~listening
    BY DEF StopInv, Ending
  <2>2. ASSUME NEW c \in Clients PROVE conn[c] \in {"away", "refused", "freed"}
    <3>1. Placed(c) /\ conn[c] \in ConnStates
      BY DEF BaseInv, PlaceInv, TypeOK
    <3>2. ~BeingFreed(c) /\ ~BeingListed(c)
      BY <2>1 DEF BeingFreed, BeingListed, Threads
    <3> QED  BY <2>1, <3>1, <3>2 DEF Placed, StopInv, ConnStates, WithThread, Running
  <2> QED  BY <2>1, <2>2
<1> QED  BY <1>1, <1>2, <1>3, PTL DEF Spec

-----------------------------------------------------------------------------
(* The number of connections.                                              *)

Live == active \cup cleanup

(* A connection being freed is still counted; the one for which the accept *)
(* thread has room will be.                                                *)
Freeing ==
  IF \E t \in Threads : pc[t] \in {"join", "subtract"} THEN 1 ELSE 0
HasRoom ==
  \/ pc["acceptor"] \in {"accept", "accept4", "add"}
  \/ pc["acceptor"] = "poll" /\ polled
Room == IF HasRoom THEN 1 ELSE 0

(* Once the socket is closed nobody is accepted any more, unless it was    *)
(* closed in the middle of that; until then the count is exact.            *)
QuietInv ==
  ~racing /\ pc["stopper"] # "serving" => pc["acceptor"] \notin AcceptSteps
Exact ==
  \/ pc["stopper"] = "serving" \/ ~racing
  \/ pc["acceptor"] \in {"accept4", "add"}

RoomInv == IsFiniteSet(Live) /\ Cardinality(Live) + Freeing + Room <= limit
CountInv ==
  Exact =>
    /\ connections + Uncounted = Cardinality(Live) + Freeing
    /\ \A t \in Threads : pc[t] \in {"subtract", "store"} =>
         loaded[t] = connections

LEMMA QuietInit == Init => QuietInv
  BY DEF Init, QuietInv, Threads

LEMMA QuietNext ==
  ASSUME BaseInv, StopInv, QuietInv, [Next]_vars
  PROVE  QuietInv'
<1> USE DEF QuietInv, Goto, AcceptSteps, CleanSteps, Threads
<1>1. StepsOK /\ (socketFd => pc["stopper"] = "serving")
  BY DEF BaseInv, StopInv
<1>2. CASE UNCHANGED vars
  BY <1>2 DEF vars, historyVars
<1>3. CASE AcceptorNext
  BY <1>1, <1>3 DEF AcceptorNext, StartPoll, PollReturns, ReadSocket, Accept,
     AddConnection, CreateThread, LoadCount, StoreCount, historyVars, StepsOK
<1>4. ASSUME NEW t \in Threads, CleanNext(t) PROVE QuietInv'
  BY <1>1, <1>4 DEF CleanNext, LockLists, NextEnded, JoinAndFree, SubtractOne,
     historyVars, StepsOK, AfterClean
<1>5. CASE StopperNext
  BY <1>1, <1>5 DEF StopperNext, Quiesce, CloseSocket, CountConnections,
     Shutdown, JoinAcceptor, ShutSockets, NextHandler, JoinHandler, FreeDaemon,
     historyVars, StepsOK
<1>6. ASSUME NEW c \in Clients, Connect(c) \/ HandlerNext(c) PROVE QuietInv'
  BY <1>6 DEF Connect, HandlerNext, Receive, Close, SeeShutdown,
     MoveToCleanup, Exit, handlerUnchanged, historyVars
<1> QED  BY <1>2, <1>3, <1>4, <1>5, <1>6 DEF Next

(* A step of a handler or of the stopping thread changes neither the set   *)
(* of live connections nor the count.                                      *)
Frozen == UNCHANGED <<Live, connections, loaded, limit, polled>>

LEMMA HandlerFrozen ==
  ASSUME NEW c \in Clients, Placed(c), Connect(c) \/ HandlerNext(c)
  PROVE  Frozen /\ UNCHANGED <<pc, racing>>
  BY DEF Frozen, Live, Placed, Connect, HandlerNext, Receive, Close, SeeShutdown, MoveToCleanup, Exit, handlerUnchanged,
     daemonVars, listVars, historyVars

LEMMA StopperFrozen ==
  ASSUME StepsOK, StopperNext
  PROVE  /\ Frozen /\ pc'["acceptor"] = pc["acceptor"]
         /\ pc["stopper"] \notin {"join", "subtract"}
         /\ pc'["stopper"] \notin {"join", "subtract", "serving"}
         /\ racing' = racing \/ pc["stopper"] = "serving"
  BY DEF Frozen, Live, StepsOK, StopperNext, Quiesce, CloseSocket,
     CountConnections, Shutdown, JoinAcceptor, ShutSockets, NextHandler,
     JoinHandler, FreeDaemon, daemonVars, listVars, historyVars, Goto, Threads

LEMMA CountFrozen ==
  ASSUME RoomInv, CountInv, Frozen, Freeing' = Freeing,
         pc'["acceptor"] = pc["acceptor"], Exact' => Exact,
         \A t \in Threads : pc'[t] \in {"subtract", "store"} =>
           pc[t] \in {"subtract", "store"}
  PROVE  RoomInv' /\ CountInv'
<1>1. Live' = Live /\ Room' = Room /\ Uncounted' = Uncounted
  BY DEF Frozen, Room, HasRoom, Uncounted
<1>2. RoomInv'
  BY <1>1 DEF RoomInv, Frozen
<1>3. CountInv'
  BY <1>1 DEF CountInv, Frozen
<1> QED  BY <1>2, <1>3

LEMMA CountHandler ==
  ASSUME BaseInv, RoomInv, CountInv,
         NEW c \in Clients, Connect(c) \/ HandlerNext(c)
  PROVE  RoomInv' /\ CountInv'
<1>1. Frozen /\ pc' = pc /\ racing' = racing
  BY HandlerFrozen DEF BaseInv, PlaceInv
<1>2. Freeing' = Freeing /\ (Exact' => Exact)
  BY <1>1 DEF Freeing, Exact
<1> QED  BY <1>1, <1>2, CountFrozen

LEMMA CountStopper ==
  ASSUME BaseInv, RoomInv, CountInv, StopperNext
  PROVE  RoomInv' /\ CountInv'
<1>1. /\ Frozen /\ pc'["acceptor"] = pc["acceptor"]
      /\ pc["stopper"] \notin {"join", "subtract"}
      /\ pc'["stopper"] \notin {"join", "subtract", "serving"}
      /\ racing' = racing \/ pc["stopper"] = "serving"
  BY StopperFrozen DEF BaseInv
<1>2. Freeing' = Freeing /\ (Exact' => Exact)
  BY <1>1 DEF Freeing, Exact, Threads
<1>3. ASSUME NEW t \in Threads, pc'[t] \in {"subtract", "store"}
      PROVE  pc[t] \in {"subtract", "store"}
  <2>1. StepsOK'
    BY StepsStopper DEF BaseInv
  <2> QED  BY <1>1, <1>3, <2>1 DEF Threads, StepsOK, StopperSteps, CleanSteps
<1> QED  BY <1>1, <1>2, <1>3, CountFrozen

LEMMA FreeingBits == Freeing \in {0, 1} /\ Room \in {0, 1} /\ Uncounted \in {0, 1}
  BY DEF Freeing, Room, Uncounted

LEMMA CountAcceptor ==
  ASSUME BaseInv, StopInv, QuietInv, RoomInv, CountInv, AcceptorNext
  PROVE  RoomInv' /\ CountInv'
<1>1. /\ StepsOK /\ StepsOK' /\ HoldsInv /\ LockInv
      /\ \A c \in Clients : Placed(c)
      /\ socketFd => pc["stopper"] = "serving"
      /\ connections \in 0 .. UnsignedRange - 1
      /\ loaded \in [Threads -> 0 .. UnsignedRange - 1]
      /\ limit \in Nat /\ limit < UnsignedRange /\ UnsignedRange \in Nat \ {0}
  BY StepsAcceptor, LimitsAssumption, UnsignedAssumption
     DEF BaseInv, PlaceInv, StopInv, TypeOK
<1>2. IsFiniteSet(Live) /\ Cardinality(Live) \in Nat
  BY FS_CardinalityType DEF RoomInv
<1>3. pc'["stopper"] = pc["stopper"] /\ racing' = racing /\ limit' = limit
  BY <1>1 DEF StepsOK, AcceptorNext, StartPoll, PollReturns, ReadSocket, Accept,
     AddConnection, CreateThread, LoadCount, StoreCount, Goto, historyVars,
     daemonVars, Threads
<1>4. /\ pc["acceptor"] \notin {"join", "subtract", "next"}
      /\ pc'["acceptor"] \notin {"join", "subtract"}
  BY <1>1 DEF StepsOK, AcceptorNext, StartPoll, PollReturns, ReadSocket, Accept,
     AddConnection, CreateThread, LoadCount, StoreCount, Goto, Threads
<1>5. Freeing' = Freeing
  BY <1>3, <1>4 DEF Freeing, Threads
<1>6. Freeing \in {0, 1}
  BY FreeingBits
<1> USE DEF Goto, Threads
<1>7. CASE StartPoll
  <2>1. Live' = Live /\ connections' = connections /\ loaded' = loaded
    BY <1>7 DEF StartPoll, Live, listVars
  <2>2. pc["acceptor"] = "loop" /\ pc'["acceptor"] \in {"poll", "ended"}
    BY <1>1, <1>7 DEF StartPoll, StepsOK
  <2>3. Room = 0 /\ Uncounted = 0 /\ Uncounted' = 0
    BY <2>2 DEF Room, HasRoom, Uncounted
  <2>4. Exact' => Exact
    BY <1>3, <2>2 DEF Exact
  <2>5. CASE Room' = 0
    BY <1>1, <1>2, <1>3, <1>5, <1>6, <2>1, <2>2, <2>3, <2>4, <2>5
       DEF RoomInv, CountInv
  <2>6. CASE Room' = 1
    <3>1. socketFd /\ connections # limit
      <4>1. HasRoom'
        BY <2>6 DEF Room
      <4>2. polled'
        BY <2>2, <4>1 DEF HasRoom
      <4> QED  BY <1>7, <4>2 DEF StartPoll, PollSet
    <3>2. connections = Cardinality(Live) + Freeing
      BY <1>1, <1>2, <2>3, <3>1 DEF CountInv, Exact
    <3> QED
      BY <1>1, <1>2, <1>3, <1>5, <1>6, <2>1, <2>2, <2>3, <2>4, <2>6, <3>1, <3>2
         DEF RoomInv, CountInv
  <2> QED  BY <2>5, <2>6 DEF Room
<1>8. CASE PollReturns \/ ReadSocket \/ Accept
  <2>1. Live' = Live /\ connections' = connections /\ loaded' = loaded
    BY <1>8 DEF PollReturns, ReadSocket, Accept, Live, listVars
  <2>2. /\ pc["acceptor"] \in {"poll", "accept", "accept4"}
        /\ pc'["acceptor"] \in {"accept", "accept4", "add", "clean"}
        /\ pc["acceptor"] # "accept4" => pc'["acceptor"] # "add"
        /\ pc["acceptor"] = "poll" => pc'["acceptor"] # "accept4"
        /\ pc'["acceptor"] = "accept4" => pc["stopper"] = "serving"
        /\ polled' = polled /\ (pc'["acceptor"] = "accept" => polled)
    BY <1>1, <1>8 DEF PollReturns, ReadSocket, Accept, StepsOK
  <2>3. Uncounted = 0 /\ Uncounted' = 0
    BY <2>2 DEF Uncounted
  <2>4. Exact' => Exact
    BY <1>3, <2>2 DEF Exact
  <2>5. Room' <= Room /\ Room \in {0, 1} /\ Room' \in {0, 1}
    <3>1. HasRoom' => HasRoom
      BY <2>2 DEF HasRoom
    <3> QED  BY <3>1 DEF Room
  <2> QED
    BY <1>1, <1>2, <1>3, <1>5, <1>6, <2>1, <2>2, <2>3, <2>4, <2>5
       DEF RoomInv, CountInv
<1>9. CASE AddConnection
  <2> DEFINE c == holds["acceptor"]
  <2>1. /\ pc["acceptor"] = "add" /\ c \in Clients
        /\ connections' = connections /\ loaded' = loaded /\ cleanup' = cleanup
    BY <1>1, <1>9 DEF AddConnection, HoldsInv, listVars
  <2>2. Room = 1 /\ Uncounted = 0 /\ Exact
    BY <2>1 DEF Room, HasRoom, Uncounted, Exact
  <2>3. CASE connections = limit
    <3>1. connections = Cardinality(Live) + Freeing
      BY <1>1, <1>2, <2>2 DEF CountInv
    <3> QED  BY <1>1, <1>2, <1>6, <2>2, <2>3, <3>1 DEF RoomInv
  <2>4. CASE connections # limit
    <3>1. active' = active \cup {c} /\ pc'["acceptor"] = "create"
      BY <1>1, <1>9, <2>4 DEF AddConnection, StepsOK
    <3>2. c \notin Live
      BY <1>1, <2>1 DEF Placed, Live, BeingListed, Running
    <3>3. Live' = Live \cup {c}
      BY <2>1, <3>1 DEF Live
    <3>4. IsFiniteSet(Live') /\ Cardinality(Live') = Cardinality(Live) + 1
      BY <1>2, <3>2, <3>3, FS_AddElement
    <3>5. Room' = 0 /\ Uncounted' = 1
      BY <3>1 DEF Room, HasRoom, Uncounted
    <3> QED
      BY <1>1, <1>2, <1>3, <1>5, <1>6, <2>1, <2>2, <3>1, <3>4, <3>5
         DEF RoomInv, CountInv, Threads
  <2> QED  BY <2>3, <2>4
<1>10. CASE CreateThread
  <2> DEFINE c == holds["acceptor"]
  <2>1. /\ pc["acceptor"] = "create" /\ c \in Clients
        /\ connections' = connections /\ loaded' = loaded /\ cleanup' = cleanup
    BY <1>1, <1>10 DEF CreateThread, HoldsInv, listVars
  <2>2. Uncounted = 1 /\ Room = 0
    BY <2>1 DEF Uncounted, Room, HasRoom
  <2>3. Exact' => Exact
    BY <1>1, <1>3, <1>10, <2>1 DEF Exact, CreateThread, StepsOK
  <2>4. CASE pc'["acceptor"] = "load"
    <3>1. Live' = Live
      BY <1>10, <1>1, <2>1, <2>4 DEF CreateThread, Live, StepsOK
    <3>2. Uncounted' = 1 /\ Room' = 0
      BY <2>4 DEF Uncounted, Room, HasRoom
    <3> QED
      BY <1>1, <1>2, <1>3, <1>5, <1>6, <2>1, <2>2, <2>3, <2>4, <3>1, <3>2
         DEF RoomInv, CountInv
  <2>5. CASE pc'["acceptor"] # "load"
    <3>1. active' = active \ {c} /\ pc'["acceptor"] = "clean"
      BY <1>1, <1>10, <2>5 DEF CreateThread, TakeBack, StepsOK
    <3>2. c \in active /\ c \notin cleanup
      BY <1>1, <2>1 DEF Placed, BeingListed
    <3>3. Live' = Live \ {c} /\ c \in Live
      BY <2>1, <3>1, <3>2 DEF Live
    <3>4. IsFiniteSet(Live') /\ Cardinality(Live') = Cardinality(Live) - 1
      BY <1>2, <3>3, FS_RemoveElement
    <3>5. Room' = 0 /\ Uncounted' = 0
      BY <3>1 DEF Room, HasRoom, Uncounted
    <3> QED
      BY <1>1, <1>2, <1>3, <1>5, <1>6, <2>1, <2>2, <2>3, <3>1, <3>4, <3>5
         DEF RoomInv, CountInv
  <2> QED  BY <2>4, <2>5
<1>11. CASE LoadCount
  <2>1. /\ Live' = Live /\ connections' = connections
        /\ loaded' = [loaded EXCEPT !["acceptor"] = connections]
        /\ pc["acceptor"] = "load" /\ pc'["acceptor"] = "store"
    BY <1>1, <1>11 DEF LoadCount, Live, listVars, StepsOK
  <2>2. Uncounted = 1 /\ Uncounted' = 1 /\ Room = 0 /\ Room' = 0
    BY <2>1 DEF Uncounted, Room, HasRoom
  <2>3. Exact' => Exact
    BY <1>3, <2>1 DEF Exact
  <2> QED
    BY <1>1, <1>2, <1>3, <1>5, <1>6, <2>1, <2>2, <2>3 DEF RoomInv, CountInv
<1>12. CASE StoreCount
  <2>1. /\ Live' = Live /\ loaded' = loaded /\ connections' = OneMore
        /\ pc["acceptor"] = "store" /\ pc'["acceptor"] = "clean"
    BY <1>1, <1>12 DEF StoreCount, Live, listVars, StepsOK
  <2>2. Uncounted = 1 /\ Uncounted' = 0 /\ Room = 0 /\ Room' = 0
    BY <2>1 DEF Uncounted, Room, HasRoom
  <2>3. RoomInv'
    BY <1>2, <1>3, <1>5, <1>6, <2>1, <2>2 DEF RoomInv
  <2>4. ASSUME Exact' PROVE connections' = Cardinality(Live) + Freeing
                             /\ pc["stopper"] = "serving"
    <3>1. Exact /\ pc["stopper"] = "serving"
      BY <1>3, <2>1, <2>4 DEF Exact, QuietInv, AcceptSteps
    <3>2. loaded["acceptor"] + 1 = Cardinality(Live) + Freeing
      BY <1>1, <1>2, <1>6, <2>1, <2>2, <3>1 DEF CountInv
    <3>3. loaded["acceptor"] + 1 < UnsignedRange /\ loaded["acceptor"] + 1 \in Nat
      BY <1>1, <1>2, <1>6, <2>2, <3>2 DEF RoomInv
    <3>4. OneMore = loaded["acceptor"] + 1
      BY <1>1, <3>3 DEF OneMore
    <3> QED  BY <2>1, <3>1, <3>2, <3>4
  <2> QED
    BY <1>1, <1>2, <1>3, <1>5, <1>6, <2>1, <2>2, <2>3, <2>4 DEF CountInv
<1> QED
  BY <1>7, <1>8, <1>9, <1>10, <1>11, <1>12 DEF AcceptorNext

LEMMA CountClean ==
  ASSUME BaseInv, StopInv, QuietInv, RoomInv, CountInv,
         NEW t \in Threads, CleanNext(t)
  PROVE  RoomInv' /\ CountInv'
<1>1. /\ StepsOK /\ LockInv /\ LockInv'
      /\ \A c \in Clients : Placed(c)
      /\ cleanup \subseteq Clients
      /\ connections \in 0 .. UnsignedRange - 1
      /\ loaded \in [Threads -> 0 .. UnsignedRange - 1]
      /\ limit \in Nat /\ limit < UnsignedRange /\ UnsignedRange \in Nat \ {0}
  BY LockClean, LimitsAssumption, UnsignedAssumption
     DEF BaseInv, PlaceInv, TypeOK
<1>2. IsFiniteSet(Live) /\ Cardinality(Live) \in Nat
  BY FS_CardinalityType DEF RoomInv
<1>3. racing' = racing /\ limit' = limit /\ active' = active /\ polled' = polled
  BY DEF CleanNext, LockLists, NextEnded, JoinAndFree, SubtractOne, daemonVars,
     historyVars, listVars
<1>4. \A u \in Threads : u # t => pc'[u] = pc[u]
  BY <1>1 DEF StepsOK, CleanNext, LockLists, NextEnded, JoinAndFree,
     SubtractOne, Goto
<1>5. /\ pc[t] \in CleanSteps
      /\ pc'[t] \in CleanSteps \cup {"loop", "free", "count"}
  BY <1>1 DEF StepsOK, CleanNext, LockLists, NextEnded, JoinAndFree,
     SubtractOne, Goto, AfterClean, CleanSteps
<1>6. Room' = Room /\ Uncounted' = Uncounted
  BY <1>3, <1>4, <1>5 DEF Room, HasRoom, Uncounted, CleanSteps, Threads
<1>7. Exact' => Exact
  BY <1>3, <1>4, <1>5 DEF Exact, CleanSteps, Threads
<1>8. Freeing \in {0, 1} /\ Room \in {0, 1} /\ Uncounted \in {0, 1}
  BY FreeingBits
<1>9. \A u \in Threads : u # t /\ pc'[u] = "store" => loaded'[u] = loaded[u]
  BY <1>1 DEF CleanNext, LockLists, NextEnded, JoinAndFree, SubtractOne
<1> USE DEF Goto
<1>10. CASE LockLists(t)
  <2>1. /\ Live' = Live /\ connections' = connections /\ loaded' = loaded
        /\ pc[t] = "clean" /\ pc'[t] = "next"
    BY <1>1, <1>10 DEF LockLists, Live, StepsOK
  <2>2. Freeing' = Freeing
    BY <1>4, <2>1 DEF Freeing
  <2> QED
    BY <1>1, <1>2, <1>3, <1>4, <1>6, <1>7, <1>8, <2>1, <2>2 DEF RoomInv, CountInv
<1>11. CASE NextEnded(t)
  <2>1. connections' = connections /\ loaded' = loaded /\ pc[t] = "next"
    BY <1>11 DEF NextEnded
  <2>2. \A u \in Threads : pc[u] \notin {"join", "subtract"}
    BY <1>1, <2>1 DEF LockInv
  <2>3. Freeing = 0
    BY <2>2 DEF Freeing
  <2>4. CASE cleanup = {}
    <3>1. Live' = Live /\ pc'[t] \in {"loop", "free", "count"}
      BY <1>1, <1>3, <1>11, <2>4 DEF NextEnded, Live, AfterClean, StepsOK
    <3>2. Freeing' = 0
      BY <1>4, <2>2, <3>1 DEF Freeing
    <3> QED
      BY <1>1, <1>2, <1>3, <1>4, <1>6, <1>7, <1>8, <2>1, <2>3, <3>1, <3>2
         DEF RoomInv, CountInv
  <2>5. CASE cleanup # {}
    <3>1. PICK c \in cleanup : cleanup' = cleanup \ {c}
      BY <1>11, <2>5 DEF NextEnded
    <3>2. pc'[t] = "join"
      BY <1>1, <1>11, <2>5 DEF NextEnded, StepsOK
    <3>3. c \notin active
      <4>1. conn[c] \in {"leaving", "exited"} /\ conn[c] # "accepted"
        BY <1>1, <3>1 DEF Placed
      <4> QED  BY <1>1, <3>1, <4>1 DEF Placed, BeingListed, Running
    <3>4. Live' = Live \ {c} /\ c \in Live
      BY <1>3, <3>1, <3>3 DEF Live
    <3>5. IsFiniteSet(Live') /\ Cardinality(Live') = Cardinality(Live) - 1
      BY <1>2, <3>4, FS_RemoveElement
    <3>6. Freeing' = 1
      BY <3>2 DEF Freeing
    <3> QED
      BY <1>1, <1>2, <1>3, <1>4, <1>6, <1>7, <1>8, <2>1, <2>3, <3>2, <3>5, <3>6
         DEF RoomInv, CountInv
  <2> QED  BY <2>4, <2>5
<1>12. CASE JoinAndFree(t)
  <2>1. /\ Live' = Live /\ connections' = connections
        /\ loaded' = [loaded EXCEPT ![t] = connections]
        /\ pc[t] = "join" /\ pc'[t] = "subtract"
    BY <1>1, <1>12 DEF JoinAndFree, Live, listVars, StepsOK
  <2>2. Freeing = 1 /\ Freeing' = 1
    BY <2>1 DEF Freeing
  <2> QED
    BY <1>1, <1>2, <1>3, <1>4, <1>6, <1>7, <1>8, <2>1, <2>2 DEF RoomInv, CountInv
<1>13. CASE SubtractOne(t)
  <2>1. /\ Live' = Live /\ loaded' = loaded /\ connections' = OneLess(t)
        /\ pc[t] = "subtract" /\ pc'[t] = "next"
    BY <1>1, <1>13 DEF SubtractOne, Live, listVars, StepsOK
  <2>2. Freeing = 1 /\ Freeing' = 0
    <3>1. Freeing = 1
      BY <2>1 DEF Freeing
    <3>2. \A u \in Threads : pc'[u] \notin {"join", "subtract"}
      BY <1>1, <2>1 DEF LockInv
    <3> QED  BY <3>1, <3>2 DEF Freeing
  <2>3. RoomInv'
    BY <1>1, <1>2, <1>3, <1>6, <1>8, <2>1, <2>2 DEF RoomInv
  <2>4. ASSUME Exact'
        PROVE  /\ connections' + Uncounted = Cardinality(Live)
               /\ \A u \in Threads : pc'[u] \notin {"subtract", "store"}
    <3>1. Exact /\ Uncounted = 0
      <4>1. CASE t = "acceptor"
        BY <1>7, <2>1, <2>4, <4>1 DEF Uncounted
      <4>2. CASE t = "stopper"
        BY <1>7, <2>1, <2>4, <4>2 DEF Uncounted, Exact, QuietInv, AcceptSteps
      <4> QED  BY <4>1, <4>2 DEF Threads
    <3>2. loaded[t] = Cardinality(Live) + 1
      BY <1>1, <1>2, <2>1, <2>2, <3>1 DEF CountInv
    <3>3. OneLess(t) = Cardinality(Live)
      <4>1. loaded[t] - 1 \in 0 .. UnsignedRange - 1
        BY <1>1, <1>2, <3>2
      <4>2. (loaded[t] - 1) % UnsignedRange = loaded[t] - 1
        BY <1>1, <4>1
      <4> QED  BY <1>2, <3>2, <4>2 DEF OneLess
    <3>4. ASSUME NEW u \in Threads PROVE pc'[u] \notin {"subtract", "store"}
      <4>1. pc'[u] # "subtract"
        BY <1>1, <2>1 DEF LockInv
      <4>2. pc'[u] # "store"
        <5>1. pc["acceptor"] # "store"
          BY <3>1 DEF Uncounted
        <5>2. pc["stopper"] # "store"
          BY <1>1 DEF StepsOK, StopperSteps, CleanSteps
        <5>3. pc[u] # "store"
          BY <5>1, <5>2 DEF Threads
        <5> QED  BY <1>4, <2>1, <5>3
      <4> QED  BY <4>1, <4>2
    <3> QED  BY <1>2, <2>1, <3>1, <3>3, <3>4
  <2> QED  BY <1>2, <1>6, <2>1, <2>2, <2>3, <2>4 DEF CountInv
<1> QED  BY <1>10, <1>11, <1>12, <1>13 DEF CleanNext

CountingInv == BaseInv /\ StopInv /\ QuietInv /\ RoomInv /\ CountInv

LEMMA CountingInvariance ==
  /\ Init => CountingInv
  /\ CountingInv /\ [Next]_vars => CountingInv'
<1>1. ASSUME Init PROVE CountingInv
  <2>1. Live = {} /\ IsFiniteSet(Live) /\ Cardinality(Live) = 0
    BY <1>1, FS_EmptySet DEF Init, Live
  <2>2. Freeing = 0 /\ Room = 0 /\ Uncounted = 0
    BY <1>1 DEF Init, Freeing, Room, HasRoom, Uncounted, Threads
  <2>3. limit \in Nat
    BY <1>1, LimitsAssumption DEF Init
  <2>4. RoomInv
    BY <2>1, <2>2, <2>3 DEF RoomInv
  <2>5. CountInv
    BY <1>1, <2>1, <2>2 DEF Init, CountInv, Threads
  <2> QED
    BY <1>1, <2>4, <2>5, BaseInvariance, StopInit, QuietInit DEF CountingInv
<1>2. ASSUME CountingInv, [Next]_vars PROVE CountingInv'
  <2>1. BaseInv /\ StopInv /\ QuietInv /\ RoomInv /\ CountInv
    BY <1>2 DEF CountingInv
  <2>2. BaseInv' /\ StopInv' /\ QuietInv'
    BY <1>2, <2>1, BaseNext, StopNext, QuietNext
  <2>3. CASE UNCHANGED vars
    <3>1. Frozen /\ pc' = pc /\ racing' = racing
      BY <2>3 DEF vars, Frozen, Live, listVars, daemonVars, historyVars
    <3>2. Freeing' = Freeing /\ (Exact' => Exact)
      BY <3>1 DEF Freeing, Exact
    <3>3. RoomInv' /\ CountInv'
      BY <2>1, <3>1, <3>2, CountFrozen
    <3> QED  BY <2>2, <3>3 DEF CountingInv
  <2>4. CASE Next
    <3>1. RoomInv' /\ CountInv'
      BY <2>1, <2>4, CountAcceptor, CountClean, CountStopper, CountHandler DEF Next
    <3> QED  BY <2>2, <3>1 DEF CountingInv
  <2> QED  BY <1>2, <2>3, <2>4
<1> QED  BY <1>1, <1>2

(* As long as the socket was not closed in the middle of an accept,        *)
(* daemon->connections is the number of connections, while the server      *)
(* serves and while two threads free its connections, for every limit      *)
(* below 2^32 (daemon.cpp:1497, daemon.cpp:1959).                          *)
THEOREM CountStaysExact == Spec => []CountIsExact
<1>1. CountingInv => CountIsExact
  <2> SUFFICES ASSUME CountingInv, ~racing
               PROVE  connections + Uncounted
                        = Cardinality(active \cup cleanup) + Unsubtracted
    BY DEF CountIsExact
  <2>1. Freeing = Unsubtracted
    BY DEF Freeing, Unsubtracted
  <2> QED  BY <2>1 DEF CountingInv, CountInv, Exact, Live
<1> QED  BY <1>1, CountingInvariance, PTL DEF Spec

(* A connection is only accepted when there is room for it, so that none   *)
(* is rejected afterwards (daemon.cpp:2417, daemon.cpp:1242).              *)
THEOREM RoomForEveryone == Spec => []NobodyIsRejected
<1>1. CountingInv => NobodyIsRejected
  <2> SUFFICES ASSUME CountingInv, pc["acceptor"] = "add", connections = limit
               PROVE  FALSE
    BY DEF NobodyIsRejected
  <2>1. Room = 1 /\ Uncounted = 0 /\ Exact
    BY DEF Room, HasRoom, Uncounted, Exact
  <2>2. connections = Cardinality(Live) + Freeing
    BY <2>1, FreeingBits DEF CountingInv, CountInv, BaseInv, TypeOK
  <2>3. Cardinality(Live) + Freeing + 1 <= limit /\ Cardinality(Live) \in Nat
    BY <2>1, FS_CardinalityType DEF CountingInv, RoomInv
  <2>4. limit \in Nat
    BY LimitsAssumption DEF CountingInv, BaseInv, TypeOK
  <2> QED  BY <2>2, <2>3, <2>4, FreeingBits
<1> QED  BY <1>1, CountingInvariance, PTL DEF Spec

(* There are never more connections than the limit, not even while two     *)
(* threads free them (daemon.cpp:1242, daemon.cpp:1959).                   *)
THEOREM NeverAboveLimit == Spec => []WithinLimit
<1>1. CountingInv => WithinLimit
  <2> SUFFICES ASSUME CountingInv PROVE WithinLimit
    OBVIOUS
  <2> DEFINE Open == {c \in Clients : conn[c] \in WithThread \cup {"exited"}}
  <2>1. /\ LockInv /\ \A c \in Clients : Placed(c)
        /\ IsFiniteSet(Live) /\ Cardinality(Live) + Freeing + Room <= limit
        /\ limit \in Nat
    BY LimitsAssumption
       DEF CountingInv, BaseInv, PlaceInv, RoomInv, TypeOK
  <2>2. Cardinality(Live) \in Nat
    BY <2>1, FS_CardinalityType
  <2>3. \A c \in Open : c \in Live \/ BeingFreed(c)
    BY <2>1 DEF Placed, Live, WithThread
  <2>4. CASE \A t \in Threads : pc[t] # "join"
    <3>1. Open \subseteq Live
      BY <2>3, <2>4 DEF BeingFreed
    <3>2. Cardinality(Open) <= Cardinality(Live)
      BY <2>1, <3>1, FS_Subset
    <3>3. Cardinality(Open) \in Nat
      BY <2>1, <3>1, FS_Subset, FS_CardinalityType
    <3> HIDE DEF Open
    <3>4. Cardinality(Open) <= limit
      BY <2>1, <2>2, <3>2, <3>3, FreeingBits
    <3> QED  BY <3>4 DEF WithinLimit, Open
  <2>5. ASSUME NEW t \in Threads, pc[t] = "join" PROVE WithinLimit
    <3> DEFINE Both == Live \cup {holds[t]}
    <3>1. \A c \in Clients : BeingFreed(c) => c = holds[t]
      BY <2>1, <2>5 DEF BeingFreed, LockInv
    <3>2. Open \subseteq Both
      BY <2>3, <3>1
    <3>3. /\ IsFiniteSet(Both)
          /\ Cardinality(Both) = Cardinality(Live)
             \/ Cardinality(Both) = Cardinality(Live) + 1
      BY <2>1, FS_AddElement
    <3>4. Cardinality(Open) <= Cardinality(Both) /\ IsFiniteSet(Open)
      BY <3>2, <3>3, FS_Subset
    <3>5. Cardinality(Open) \in Nat /\ Freeing = 1
      BY <2>5, <3>4, FS_CardinalityType DEF Freeing
    <3> HIDE DEF Open, Both
    <3>6. Cardinality(Open) <= limit
      BY <2>1, <2>2, <3>3, <3>4, <3>5, FreeingBits
    <3> QED  BY <3>6 DEF WithinLimit, Open
  <2> QED  BY <2>4, <2>5
<1> QED  BY <1>1, CountingInvariance, PTL DEF Spec

-----------------------------------------------------------------------------
(* What stopping cuts off.                                                 *)

CutInv ==
  /\ pc["stopper"] = "serving" => ~racing
  /\ ~racing => cutOff = {}
  /\ ~racing /\ (shutdown \/ pc["stopper"] = "stop") => active = {}

LEMMA CutInit == Init => CutInv
  BY DEF Init, CutInv, Threads

LEMMA CutNext ==
  ASSUME CountingInv, CutInv, [Next]_vars
  PROVE  CutInv'
<1>1. /\ StepsOK /\ StepsOK' /\ QuietInv /\ \A c \in Clients : Placed(c)
      /\ (shutdown => pc["stopper"] \in Ending \cup CleanSteps)
  BY StepsNext DEF CountingInv, BaseInv, PlaceInv, StopInv
<1>2. CASE UNCHANGED vars
  BY <1>2 DEF CutInv, vars, daemonVars, listVars, historyVars
<1>3. CASE AcceptorNext
  <2>1. /\ UNCHANGED <<racing, cutOff, shutdown>>
        /\ pc'["stopper"] = pc["stopper"]
        /\ pc["acceptor"] \notin {"add", "create"} => active' = active
    BY <1>1, <1>3 DEF AcceptorNext, StartPoll, PollReturns, ReadSocket, Accept,
       AddConnection, CreateThread, LoadCount, StoreCount, daemonVars, listVars,
       historyVars, Goto, StepsOK, Threads
  <2> QED  BY <1>1, <2>1 DEF CutInv, QuietInv, AcceptSteps, Ending, CleanSteps
<1>4. ASSUME NEW t \in Threads, CleanNext(t) PROVE CutInv'
  BY <1>1, <1>4 DEF CutInv, CleanNext, LockLists, NextEnded, JoinAndFree,
     SubtractOne, AfterClean, daemonVars, listVars, historyVars, Goto, StepsOK,
     Threads
<1>5. CASE StopperNext
  <2> USE <1>1 DEF CutInv, daemonVars, listVars, historyVars, Goto, StepsOK, Threads
  <2>1. CASE Quiesce
    BY <2>1 DEF Quiesce, CutInv, Ending, CleanSteps
  <2>2. CASE CountConnections
    <3>1. ASSUME ~racing, AllEnded, pc["stopper"] = "count" PROVE active = {}
      <4>1. Exact /\ Uncounted = 0
        BY <3>1 DEF Exact, Uncounted, QuietInv, AcceptSteps
      <4>2. Cardinality(Live) + Freeing = 0
        BY <3>1, <4>1 DEF AllEnded, CountingInv, CountInv
      <4>3. IsFiniteSet(Live) /\ Cardinality(Live) \in Nat
        BY FS_CardinalityType DEF CountingInv, RoomInv
      <4>4. Cardinality(Live) = 0
        BY <4>2, <4>3, FreeingBits
      <4> QED  BY <4>3, <4>4, FS_EmptySet DEF Live
    <3> QED  BY <2>2, <3>1 DEF CountConnections
  <2>3. CASE CloseSocket
    BY <2>3 DEF CloseSocket, Ending, CleanSteps
  <2>4. CASE Shutdown
    BY <2>4 DEF Shutdown, Ending, CleanSteps
  <2>5. CASE JoinAcceptor
    BY <2>5 DEF JoinAcceptor, Ending, CleanSteps
  <2>6. CASE ShutSockets
    BY <2>6 DEF ShutSockets, Ending, CleanSteps
  <2>7. CASE NextHandler
    BY <2>7 DEF NextHandler, Ending, CleanSteps
  <2>8. CASE JoinHandler
    BY <2>8 DEF JoinHandler, Ending, CleanSteps
  <2>9. CASE FreeDaemon
    BY <2>9 DEF FreeDaemon, Ending, CleanSteps
  <2> QED
    BY <1>5, <2>1, <2>2, <2>3, <2>4, <2>5, <2>6, <2>7, <2>8, <2>9 DEF StopperNext
<1>6. ASSUME NEW c \in Clients, Connect(c) \/ HandlerNext(c) PROVE CutInv'
  <2>1. /\ UNCHANGED <<racing, shutdown, pc>>
        /\ active' \subseteq active
    BY <1>6 DEF Connect, HandlerNext, Receive, Close, SeeShutdown,
       MoveToCleanup, Exit, handlerUnchanged, daemonVars, listVars, historyVars
  <2>2. cutOff' = cutOff \/ (shutdown /\ c \in active)
    BY <1>1, <1>6 DEF Connect, HandlerNext, Receive, Close,
       SeeShutdown, MoveToCleanup, Exit, historyVars, Placed, Running
  <2> QED  BY <2>1, <2>2 DEF CutInv
<1> QED  BY <1>2, <1>3, <1>4, <1>5, <1>6 DEF Next

(* Both tests of the connection limit agree, in poll and on insertion, and *)
(* no thread exceeds it (daemon.cpp:2417, daemon.cpp:1233).                *)
THEOREM LimitIsAlwaysKept == Spec => []LimitIsKept
<1>1. NobodyIsRejected /\ WithinLimit => LimitIsKept
  BY DEF LimitIsKept
<1> QED  BY <1>1, RoomForEveryone, NeverAboveLimit, PTL

(* A server that is told to stop while nobody is being accepted answers    *)
(* all requests it has received before it ends (rest_server.cpp:405).      *)
THEOREM QuietStopCutsNobodyOff == Spec => []OnlyRacingRequestsCutOff
<1>1. CountingInv /\ CutInv /\ [Next]_vars => (CountingInv /\ CutInv)'
  BY CountingInvariance, CutNext
<1>2. CutInv => OnlyRacingRequestsCutOff
  BY DEF CutInv, OnlyRacingRequestsCutOff
<1> QED  BY CountingInvariance, CutInit, <1>1, <1>2, PTL DEF Spec
=============================================================================
