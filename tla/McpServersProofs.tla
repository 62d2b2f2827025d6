-------------------------- MODULE McpServersProofs --------------------------
(***************************************************************************)
(* Proofs about McpManager, and about McpServers, which does what          *)
(* McpManager says and keeps the tools of a running server in the box: for *)
(* any callers, any servers, any tools and any number of clients created.  *)
(***************************************************************************)
EXTENDS McpServers, TLAPS

USE ManagerAssumption DEF Ids, NoClient, Goto, Inside

(* The initial state satisfies the invariant.                              *)
LEMMA InitInv == Init => IInv
  BY DEF Init, IInv, TypeOK, MutexInv, MapInv, TrackedInv, CloseInv

(* One call is inside: whoever takes a step there holds the mutex, and     *)
(* every other call is outside.                                            *)
LEMMA Alone ==
  ASSUME IInv, NEW c \in Callers, Inside(c)
  PROVE  mu = c /\ \A d \in Callers : d # c => pc[d] \in {"idle", "lock"}
  BY DEF IInv, MutexInv

(* A call that neither creates nor closes a client holds none.             *)
LEMMA HandsEmpty ==
  ASSUME IInv, NEW c \in Callers, Inside(c), pc[c] \notin {"close", "register"}
  PROVE  cur = NoClient
<1>1. mu = c /\ \A d \in Callers : d # c => pc[d] \in {"idle", "lock"}
  BY Alone
<1> QED
  BY <1>1 DEF IInv, MutexInv

(* What a step of the call that is inside owes the mutex.                  *)
LEMMA StillAlone ==
  ASSUME IInv, NEW c \in Callers, Inside(c), Inside(c)',
         UNCHANGED <<mu, op, arg>>,
         \A d \in Callers : d # c => pc'[d] = pc[d],
         cur' # NoClient => pc'[c] \in {"close", "register"},
         pc'[c] \in {"close", "register"} =>
           /\ cur' \in 1..created' /\ nameOf'[cur'] \in Names
           /\ clients'[nameOf'[cur']] \in {NoClient, cur'}
           /\ op[c] \in {"Start", "Stop"} => nameOf'[cur'] = arg[c],
         pc'[c] \in {"launch", "register"} => op[c] = "Start" /\ clients'[arg[c]] = NoClient,
         pc'[c] = "loop" => op[c] \in {"Status", "Instructions", "Close"}
  PROVE  MutexInv'
<1>1. mu = c /\ \A d \in Callers : d # c => pc'[d] \in {"idle", "lock"}
  BY Alone
<1>2. \A d \in Callers : pc'[d] \in {"close", "register", "launch", "loop"} => d = c
  BY <1>1
<1>3. \A d \in Callers : Inside(d)' <=> mu' = d
  BY <1>1
<1> QED
  BY <1>2, <1>3 DEF MutexInv

(* Steps that touch neither the map nor a client.                          *)
LEMMA CallSteps ==
  ASSUME IInv, NEW c \in Callers,
         Call(c) \/ Lock(c) \/ Unlock(c) \/ Register(c) \/ NotRegistered(c) \/ LaunchFails(c)
         \/ LoopEnds(c)
  PROVE  IInv'
<1> USE DEF IInv, callVars, mapVars, clientVars
<1>1. TypeOK'
  <2> USE DEF TypeOK
  <2>1. CASE Call(c)
    <3>1. \/ \E o \in {"Register", "Start", "Stop"}, n \in Names :
               op' = [op EXCEPT ![c] = o] /\ arg' = [arg EXCEPT ![c] = n]
          \/ \E o \in {"Status", "Instructions", "Close"} :
               op' = [op EXCEPT ![c] = o] /\ arg' = arg
      BY <2>1 DEF Call
    <3>2. op' \in [Callers -> {"none", "Register", "Start", "Stop", "Status", "Instructions",
                               "Close"}]
      <4>1. CASE \E o \in {"Register", "Start", "Stop"} : op' = [op EXCEPT ![c] = o]
        BY <4>1
      <4>2. CASE \E o \in {"Status", "Instructions", "Close"} : op' = [op EXCEPT ![c] = o]
        BY <4>2
      <4> QED
        BY <3>1, <4>1, <4>2
    <3>5. arg' \in [Callers -> Names \cup {NoName}]
      BY <3>1
    <3>3. op'[c] \in {"Register", "Start", "Stop"} => arg'[c] \in Names
      BY <3>1
    <3>4. \A d \in Callers : d # c => op'[d] = op[d] /\ arg'[d] = arg[d] /\ pc'[d] = pc[d]
      BY <2>1, <3>1 DEF Call
    <3> QED
      BY <2>1, <3>2, <3>3, <3>4, <3>5 DEF Call
  <2>2. CASE Lock(c)
    BY <2>2 DEF Lock, Running
  <2>3. CASE Unlock(c)
    BY <2>3 DEF Unlock
  <2>4. CASE Register(c)
    BY <2>4 DEF Register
  <2>5. CASE NotRegistered(c) \/ LaunchFails(c) \/ LoopEnds(c)
    BY <2>5 DEF NotRegistered, LaunchFails, LoopEnds
  <2> QED
    BY <2>1, <2>2, <2>3, <2>4, <2>5
<1>2. UNCHANGED <<clients, created, nameOf, session, connected, offered, cur>>
  BY DEF Call, Lock, Unlock, Register, NotRegistered, LaunchFails, LoopEnds
<1>3. (MapInv /\ TrackedInv)'
  BY <1>2 DEF MapInv, TrackedInv
<1>4. MutexInv'
  <2> USE <1>2 DEF TypeOK, MutexInv
  <2>1. CASE Call(c)
    <3>1. /\ mu' = mu /\ pc[c] = "idle" /\ pc'[c] = "lock"
          /\ \A d \in Callers : d # c =>
               op'[d] = op[d] /\ arg'[d] = arg[d] /\ pc'[d] = pc[d]
      BY <2>1 DEF Call
    <3> QED
      BY <3>1, ZenonT(30)
  <2>2. CASE Lock(c)
    BY <2>2 DEF Lock
  <2>3. CASE Unlock(c)
    <3>1. mu = c /\ \A d \in Callers : d # c => pc[d] \in {"idle", "lock"}
      BY <2>3, Alone DEF Unlock
    <3>2. cur = NoClient
      BY <2>3, HandsEmpty DEF Unlock
    <3>3. mu' = NoOne /\ \A d \in Callers : pc'[d] \in {"idle", "lock"}
      BY <2>3, <3>1 DEF Unlock
    <3> QED
      BY <3>2, <3>3
  <2>4. CASE Register(c) \/ NotRegistered(c) \/ LaunchFails(c) \/ LoopEnds(c)
    <3>1. /\ mu' = mu /\ UNCHANGED <<op, arg>> /\ Inside(c) /\ pc'[c] = "unlock"
          /\ pc[c] \notin {"close", "register"}
          /\ \A d \in Callers : d # c => pc'[d] = pc[d]
      BY <2>4 DEF Register, NotRegistered, LaunchFails, LoopEnds
    <3> QED
      BY <3>1
  <2> QED
    BY <2>1, <2>2, <2>3, <2>4
<1>5. CloseInv'
  <2> USE <1>2 DEF TypeOK, CloseInv
  <2>1. CASE Call(c)
    BY <2>1 DEF Call
  <2>2. CASE Lock(c)
    <3>1. \A d \in Callers : d # c => ~Inside(d)'
      BY <2>2 DEF Lock, MutexInv
    <3>2. op[c] = "Close" => pc'[c] = "loop" /\ todo' = Running
      BY <2>2 DEF Lock
    <3> QED
      BY <2>2, <3>1, <3>2 DEF Lock, Running
  <2>3. CASE Unlock(c) \/ Register(c) \/ NotRegistered(c) \/ LaunchFails(c) \/ LoopEnds(c)
    <3>1. Inside(c) /\ (op[c] = "Close" => pc[c] \in {"loop", "unlock"})
      BY <2>3 DEF Unlock, Register, NotRegistered, LaunchFails, LoopEnds, MutexInv
    <3>2. \A d \in Callers : d # c => ~Inside(d)'
      BY <2>3, <3>1, Alone DEF Unlock, Register, NotRegistered, LaunchFails, LoopEnds
    <3>3. \/ pc'[c] = "idle"
          \/ op' = op /\ (op[c] = "Close" =>
               pc[c] = "loop" /\ pc'[c] = "unlock" /\ todo = {} /\ todo' = {})
      BY <2>3, <3>1 DEF Unlock, Register, NotRegistered, LaunchFails, LoopEnds
    <3> QED
      BY <3>1, <3>2, <3>3
  <2> QED
    BY <2>1, <2>2, <2>3
<1> QED
  BY <1>1, <1>3, <1>4, <1>5

(* Steps that choose a client to close, or to keep.                        *)
LEMMA ChoiceSteps ==
  ASSUME IInv, NEW c \in Callers, Stop(c) \/ Start(c) \/ Round(c) \/ RegisterFails(c)
  PROVE  IInv'
<1> USE DEF IInv, mapVars, clientVars
<1>1. TypeOK'
  <2> USE DEF TypeOK, Client
  <2>1. CASE Stop(c)
    BY <2>1 DEF Stop
  <2>2. CASE Start(c)
    <3>1. /\ pc' = [pc EXCEPT ![c] = pc'[c]]
          /\ pc'[c] \in {"unlock", "close", "launch"}
      BY <2>2 DEF Start
    <3>3. cur' \in Ids \cup {NoClient}
      BY <2>2 DEF Start
    <3>4. \A d \in Callers : pc'[d] # "idle" /\ op'[d] \in {"Register", "Start", "Stop"} =>
            arg'[d] \in Names
      BY <2>2 DEF Start
    <3>5. pc' \in [Callers -> {"idle", "lock", "run", "loop", "close", "launch", "register",
                              "unlock"}]
      BY <3>1
    <3> QED
      BY <2>2, <3>3, <3>4, <3>5 DEF Start
  <2>3. CASE Round(c)
    <3>1. PICK n \in todo :
            /\ todo' = todo \ {n}
            /\ (cur' = clients[n] /\ Goto(c, "close")) \/ UNCHANGED <<cur, pc>>
      BY <2>3 DEF Round
    <3>2. pc' \in [Callers -> {"idle", "lock", "run", "loop", "close", "launch", "register",
                              "unlock"}]
      BY <2>3, <3>1 DEF Round
    <3>3. cur' \in Ids \cup {NoClient} /\ todo' \subseteq Names
      BY <2>3, <3>1 DEF Round
    <3>4. \A d \in Callers : pc'[d] # "idle" /\ op'[d] \in {"Register", "Start", "Stop"} =>
            arg'[d] \in Names
      BY <2>3, <3>1 DEF Round
    <3> QED
      BY <2>3, <3>2, <3>3, <3>4 DEF Round
  <2>4. CASE RegisterFails(c)
    BY <2>4 DEF RegisterFails
  <2> QED
    BY <2>1, <2>2, <2>3, <2>4
<1>2. UNCHANGED <<clients, created, nameOf, session, connected, offered, mu, op, arg>>
  BY DEF Stop, Start, Round, RegisterFails
<1>3. cur = NoClient \/ cur' = cur
  BY HandsEmpty DEF TypeOK, Stop, Start, Round, RegisterFails
<1>4. MapInv'
  BY <1>2 DEF MapInv
<1>5. TrackedInv'
  BY <1>2, <1>3 DEF TypeOK, MapInv, TrackedInv
<1>6. MutexInv'
  <2>1. Inside(c) /\ Inside(c)'
    BY DEF TypeOK, Stop, Start, Round, RegisterFails
  <2>2. \A d \in Callers : d # c => pc'[d] = pc[d]
    BY DEF TypeOK, Stop, Start, Round, RegisterFails
  <2>3. cur' # NoClient => pc'[c] \in {"close", "register"}
    <3>1. CASE RegisterFails(c)
      BY <3>1 DEF TypeOK, RegisterFails
    <3>2. CASE Stop(c) \/ Start(c) \/ Round(c)
      <4>1. cur = NoClient
        BY <3>2, HandsEmpty DEF Stop, Start, Round
      <4> QED
        BY <3>2, <4>1 DEF TypeOK, Stop, Start, Round, Client
    <3> QED
      BY <3>1, <3>2
  <2>4. pc'[c] \in {"close", "register"} =>
          /\ cur' \in 1..created /\ nameOf[cur'] \in Names
          /\ clients[nameOf[cur']] \in {NoClient, cur'}
          /\ op[c] \in {"Start", "Stop"} => nameOf[cur'] = arg[c]
    <3>1. CASE Stop(c)
      BY <3>1 DEF TypeOK, MapInv, Stop, Client
    <3>2. CASE Start(c)
      BY <3>2 DEF TypeOK, MapInv, Start, Client
    <3>3. CASE Round(c)
      <4>1. op[c] \notin {"Start", "Stop"}
        BY <3>3 DEF MutexInv, Round
      <4> QED
        BY <3>3, <4>1 DEF TypeOK, MapInv, Round
    <3>4. CASE RegisterFails(c)
      BY <3>4 DEF TypeOK, MutexInv, RegisterFails
    <3> QED
      BY <3>1, <3>2, <3>3, <3>4
  <2>5. /\ pc'[c] \in {"launch", "register"} => op[c] = "Start" /\ clients[arg[c]] = NoClient
        /\ pc'[c] = "loop" => op[c] \in {"Status", "Instructions", "Close"}
    BY DEF TypeOK, MutexInv, Stop, Start, Round, RegisterFails, Client
  <2> QED
    BY <1>2, <2>1, <2>2, <2>3, <2>4, <2>5, StillAlone
<1>7. CloseInv'
  <2>1. Inside(c)
    BY DEF Stop, Start, Round, RegisterFails
  <2>2. \A d \in Callers : d # c => ~Inside(d)'
    BY <2>1, Alone DEF TypeOK, Stop, Start, Round, RegisterFails
  <2>3. CASE op[c] # "Close"
    BY <1>2, <2>2, <2>3 DEF CloseInv
  <2>4. CASE op[c] = "Close"
    <3>1. Round(c)
      BY <2>1, <2>4 DEF MutexInv, CloseInv, Stop, Start, RegisterFails
    <3>2. cur = NoClient
      BY <2>1, <3>1, HandsEmpty DEF Round
    <3> QED
      BY <1>2, <2>1, <2>2, <2>4, <3>1, <3>2 DEF TypeOK, CloseInv, Round
  <2> QED
    BY <2>3, <2>4
<1> QED
  BY <1>1, <1>4, <1>5, <1>6, <1>7

(* A new client, returned or closed.                                       *)
LEMMA ClientSteps ==
  ASSUME IInv, NEW c \in Callers, Launch(c) \/ Registered(c) \/ CloseClient(c)
  PROVE  IInv'
<1> USE DEF IInv, mapVars
<1>1. CASE Launch(c)
  <2> USE <1>1 DEF Launch
  <2>1. TypeOK'
    BY DEF TypeOK
  <2>2. cur = NoClient
    BY HandsEmpty
  <2>6. MutexInv'
    <3>1. op[c] = "Start" /\ clients[arg[c]] = NoClient /\ arg[c] \in Names
      BY DEF TypeOK, MutexInv
    <3>2. cur' \in 1..created' /\ nameOf'[cur'] = arg[c] /\ pc'[c] = "register"
      BY DEF TypeOK
    <3>3. \A d \in Callers : d # c => pc'[d] = pc[d]
      BY DEF TypeOK
    <3> QED
      BY <3>1, <3>2, <3>3, StillAlone
  <2>3. MapInv'
    BY DEF TypeOK, MapInv
  <2>4. TrackedInv'
    BY <2>2 DEF TypeOK, MutexInv, MapInv, TrackedInv
  <2>5. CloseInv'
    BY <2>2 DEF TypeOK, MutexInv, CloseInv
  <2> QED
    BY <2>1, <2>3, <2>4, <2>5, <2>6
<1>2. CASE Registered(c)
  <2> USE <1>2 DEF Registered
  <2>1. TypeOK'
    BY DEF TypeOK, MutexInv
  <2>2. MutexInv'
    <3>1. cur' = NoClient /\ pc'[c] = "unlock" /\ \A d \in Callers : d # c => pc'[d] = pc[d]
      BY DEF TypeOK
    <3> QED
      BY <3>1, StillAlone
  <2>3. MapInv'
    BY DEF TypeOK, MutexInv, MapInv
  <2>4. TrackedInv'
    BY DEF TypeOK, MutexInv, MapInv, TrackedInv
  <2>5. CloseInv'
    BY DEF TypeOK, MutexInv, CloseInv
  <2> QED
    BY <2>1, <2>2, <2>3, <2>4, <2>5
<1>3. CASE CloseClient(c)
  <2> USE <1>3 DEF CloseClient, AfterClose
  <2>1. TypeOK'
    BY DEF TypeOK, MutexInv
  <2>2. MutexInv'
    <3>1. cur' = NoClient /\ \A d \in Callers : d # c => pc'[d] = pc[d]
      BY DEF TypeOK
    <3>2. /\ pc'[c] \in {"loop", "launch", "unlock"}
          /\ pc'[c] = "loop" => op[c] \in {"Status", "Instructions", "Close"}
          /\ pc'[c] = "launch" => op[c] = "Start" /\ clients[arg[c]] = cur
      BY DEF TypeOK
    <3>3. pc'[c] = "launch" => clients'[arg[c]] = NoClient
      BY <3>2 DEF TypeOK
    <3> QED
      BY <3>1, <3>2, <3>3, StillAlone
  <2>3. MapInv'
    BY DEF TypeOK, MutexInv, MapInv
  <2>4. TrackedInv'
    BY DEF TypeOK, MutexInv, MapInv, TrackedInv
  <2>5. CloseInv'
    BY DEF TypeOK, MutexInv, CloseInv
  <2> QED
    BY <2>1, <2>2, <2>3, <2>4, <2>5
<1> QED
  BY <1>1, <1>2, <1>3

(* The end of a server, and of its client.                                 *)
LEMMA ServerSteps ==
  ASSUME IInv, NEW i \in Ids, ServerDies(i) \/ Disconnected(i)
  PROVE  IInv'
<1> USE DEF IInv, callVars, mapVars
<1>1. UNCHANGED <<mu, pc, op, arg, todo, cur, clients, configs, created, nameOf>>
  BY DEF ServerDies, Disconnected
<1>2. TypeOK'
  BY <1>1 DEF TypeOK, ServerDies, Disconnected
<1>3. (MutexInv /\ CloseInv)'
  BY <1>1 DEF MutexInv, CloseInv
<1>4. CASE ServerDies(i)
  BY <1>1, <1>2, <1>3, <1>4 DEF TypeOK, MapInv, TrackedInv, ServerDies
<1>5. CASE Disconnected(i)
  <2>1. MapInv'
    BY <1>1, <1>5 DEF TypeOK, MapInv, Disconnected
  <2>2. TrackedInv'
    BY <1>1, <1>5 DEF TypeOK, TrackedInv, Disconnected
  <2> QED
    BY <1>2, <1>3, <2>1, <2>2
<1> QED
  BY <1>4, <1>5

(* Every step keeps the invariant.                                         *)
LEMMA StepInv ==
  ASSUME IInv, [Next]_vars
  PROVE  IInv'
<1>1. CASE UNCHANGED vars
  BY <1>1 DEF vars, callVars, mapVars, clientVars, IInv, TypeOK, MutexInv, MapInv,
              TrackedInv, CloseInv
<1> QED
  BY <1>1, CallSteps, ChoiceSteps, ClientSteps, ServerSteps DEF Next, Step

(* The invariant holds of every reachable state.                           *)
THEOREM Invariance == Spec => []IInv
<1>1. IInv /\ [Next]_vars => IInv'
  BY StepInv
<1> QED
  BY <1>1, InitInv, PTL DEF Spec

(* A name never has two servers.                                           *)
THEOREM SingleServer == Spec => []OneServerPerName
<1>1. IInv => OneServerPerName
  <2> SUFFICES ASSUME IInv, NEW i \in Ids, NEW j \in Ids,
                      session[i] = "up", session[j] = "up", nameOf[i] = nameOf[j]
               PROVE  i = j
    BY DEF OneServerPerName
  <2>1. connected[i] /\ connected[j]
    BY DEF IInv, MapInv
  <2> QED
    BY <2>1 DEF IInv, TypeOK, MutexInv, MapInv, TrackedInv
<1> QED
  BY <1>1, Invariance, PTL

(* Between calls, every server that runs is known to the map.              *)
THEOREM ServersTracked == Spec => []NoServerLost
<1>1. IInv => NoServerLost
  <2> SUFFICES ASSUME IInv, mu = NoOne, NEW i \in Ids, session[i] = "up" \/ offered[i]
               PROVE  clients[nameOf[i]] = i
    BY DEF NoServerLost
  <2>1. connected[i]
    BY DEF IInv, MapInv
  <2>2. cur = NoClient
    BY DEF IInv, MutexInv
  <2> QED
    BY <2>1, <2>2 DEF IInv, TrackedInv
<1> QED
  BY <1>1, Invariance, PTL

(* When Close is done, before the next call, nothing runs.                 *)
THEOREM CloseIsComplete == Spec => []CloseStopsAll
<1>1. IInv => CloseStopsAll
  <2> SUFFICES ASSUME IInv, NEW c \in Callers, pc[c] = "unlock", op[c] = "Close", NEW i \in Ids
               PROVE  session[i] # "up" /\ ~offered[i]
    BY DEF CloseStopsAll
  <2>1. cur = NoClient
    BY HandsEmpty
  <2>2. \A n \in Names : clients[n] = NoClient
    BY <2>1 DEF IInv, CloseInv
  <2>3. ~connected[i]
    BY <2>1, <2>2 DEF IInv, TrackedInv
  <2> QED
    BY <2>3 DEF IInv, MapInv
<1> QED
  BY <1>1, Invariance, PTL

-----------------------------------------------------------------------------
(* The servers: the tools, the box and the requests.                       *)

USE ServersAssumption DEF Free, Without

(* The manager inside.                                                     *)

(* A step of the servers is a step of the manager, or none.                *)
LEMMA StepRefines ==
  ASSUME IInv, [ServersNext]_serversVars
  PROVE  [Next]_vars
<1> USE DEF Next, Step
<1>1. ASSUME NEW c \in Callers, Call(c) \/ Lock(c) \/ OutsideBox(c)  PROVE Next
  BY <1>1 DEF OutsideBox
<1>2. ASSUME NEW c \in Callers, Registering(c)  PROVE [Next]_vars
  BY <1>2 DEF Registering, LaunchWatched, LockToRegister, FindFree, AddOne, AddFails,
              RollbackOne, RegisteredAll, RegisterFailed
<1>3. ASSUME NEW i \in Ids, DropOne(i) \/ Disconnecting(i) \/ ServerDies(i)  PROVE [Next]_vars
  BY <1>3 DEF Disconnecting, LockToDisconnect, DropOne, DisconnectDone
<1>4. ASSUME NEW c \in Callers, Closing(c)  PROVE [Next]_vars
  <2>1. CASE CloseSession(c)
    <3>1. cur \in Ids
      BY <2>1 DEF CloseSession, IInv, TypeOK, MutexInv
    <3> QED
      BY <2>1, <1>3, <3>1 DEF CloseSession
  <2>2. CASE LockToClose(c) \/ CloseDone(c) \/ (pc[c] = "close" /\ DropOne(cur))
    BY <2>2 DEF LockToClose, CloseDone, DropOne
  <2> QED
    BY <1>4, <2>1, <2>2 DEF Closing
<1>5. CASE UNCHANGED serversVars
  BY <1>5 DEF serversVars
<1> QED
  BY <1>1, <1>2, <1>3, <1>4, <1>5 DEF ServersNext, ServersStep

(* Nor do they have more states to begin in.                               *)
LEMMA InitRefines == ServersInit => Init
  BY DEF ServersInit

(* The manager inside keeps its inductive invariant.                       *)
THEOREM ManagerInvariance == ServersSpec => []IInv
<1>1. ServersInit => IInv
  BY InitRefines, InitInv
<1>2. IInv /\ [ServersNext]_serversVars => IInv'
  BY StepRefines, StepInv
<1> QED
  BY <1>1, <1>2, PTL DEF ServersSpec

(* The servers and their box implement McpManager: what is proved of the   *)
(* manager holds for them.                                                 *)
THEOREM Implements == ServersSpec => Spec
<1>1. IInv /\ [ServersNext]_serversVars => [Next]_vars
  BY StepRefines
<1> QED
  BY InitRefines, <1>1, ManagerInvariance, PTL DEF ServersSpec, Spec

-----------------------------------------------------------------------------
(* The tool box.                                                           *)

(* Two clients that are connected have two names.                          *)
LEMMA Distinct ==
  ASSUME IInv, NEW i \in Ids, NEW j \in Ids, i # j, connected[i], connected[j]
  PROVE  nameOf[i] # nameOf[j]
<1>1. /\ cur = i \/ (nameOf[i] \in Names /\ clients[nameOf[i]] = i)
      /\ cur = j \/ (nameOf[j] \in Names /\ clients[nameOf[j]] = j)
  BY DEF IInv, TrackedInv
<1>2. cur # NoClient => clients[nameOf[cur]] \in {NoClient, cur}
  BY DEF IInv, MutexInv
<1> QED
  BY <1>1, <1>2

(* What the call inside knows: it is alone, and a client in hand is its.   *)
LEMMA InHand ==
  ASSUME IInv, NEW c \in Callers, Inside(c)
  PROVE  /\ \A d \in Callers : Inside(d) => d = c
         /\ pc[c] \in {"register", "close"} => cur \in Ids
         /\ pc[c] = "register" => arg[c] \in Names /\ nameOf[cur] = arg[c]
  BY DEF IInv, TypeOK, MutexInv

(* While nobody has a client in hand, nobody registers or closes one.      *)
LEMMA NothingInHand ==
  ASSUME IInv, ServersInv, NEW c \in Callers, Inside(c), pc[c] \notin {"register", "close"}
  PROVE  /\ cur = NoClient /\ added = {} /\ ~failing
         /\ \A i \in Ids : lock[i] \in {Waiter, NoOne}
<1>1. cur = NoClient
  BY HandsEmpty
<1>2. \A d \in Callers : ~Adding(d)
  BY InHand DEF Adding
<1>3. added = {} /\ ~failing
  BY <1>2 DEF ServersInv, AddingInv
<1>4. \A i \in Ids : lock[i] \notin Callers
  BY <1>1 DEF ServersInv, LockInv
<1> QED
  BY <1>1, <1>3, <1>4 DEF ServersInv, BoxTypeOK

(* The initial state satisfies the invariant.                              *)
LEMMA BoxInitInv == ServersInit => ServersInv
<1> SUFFICES ASSUME ServersInit PROVE ServersInv
  OBVIOUS
<1>1. BoxTypeOK /\ LockInv
  BY DEF ServersInit, BoxTypeOK, LockInv
<1>2. AddingInv
  BY DEF ServersInit, Init, AddingInv, Adding
<1>3. KnownInv
  BY DEF ServersInit, Init, KnownInv
<1>4. BoxInv
  BY DEF ServersInit, BoxInv
<1> QED
  BY <1>1, <1>2, <1>3, <1>4 DEF ServersInv

(* Steps of the manager that leave the box alone.                          *)
LEMMA OutsideSteps ==
  ASSUME IInv, ServersInv, NEW c \in Callers,
         ((Call(c) \/ Lock(c)) /\ UNCHANGED boxVars) \/ OutsideBox(c)
  PROVE  ServersInv'
<1> USE DEF boxVars
<1>1. UNCHANGED <<boxVars, nameOf, session, connected, offered>>
  BY DEF Call, Lock, OutsideBox, Unlock, Register, NotRegistered, Stop, Start, LaunchFails,
         Round, LoopEnds, clientVars
<1>2. (BoxTypeOK /\ KnownInv)'
  BY <1>1 DEF ServersInv, BoxTypeOK, KnownInv
<1>3. CASE Call(c) \/ Lock(c)
  <2>1. /\ cur' = cur /\ pc[c] \in {"idle", "lock"} /\ pc'[c] \in {"lock", "run", "loop"}
        /\ \A d \in Callers : d # c => pc'[d] = pc[d] /\ arg'[d] = arg[d]
    BY <1>3 DEF Call, Lock, IInv, TypeOK
  <2>2. /\ \A d \in Callers : (pc'[d] = "register" <=> pc[d] = "register")
                             /\ (pc'[d] = "close" <=> pc[d] = "close")
        /\ \A d \in Callers : pc[d] = "register" => arg'[d] = arg[d]
    BY <2>1
  <2>3. (\A d \in Callers : Adding(d)' <=> Adding(d)) /\ (\A i \in Ids : Removing(i)' <=> Removing(i))
    BY <1>1, <2>1, <2>2 DEF Adding, Removing
  <2> QED
    BY <1>1, <1>2, <2>1, <2>2, <2>3
       DEF ServersInv, LockInv, AddingInv, BoxInv, Adding, Shared
<1>4. CASE OutsideBox(c)
  <2>1. Inside(c) /\ pc[c] \notin {"register", "close"} /\ pc'[c] # "register"
    BY <1>4 DEF OutsideBox, Unlock, Register, NotRegistered, Stop, Start, LaunchFails,
                Round, LoopEnds, IInv, TypeOK
  <2>2. \A d \in Callers : d # c => pc'[d] = pc[d]
    BY <1>4 DEF OutsideBox, Unlock, Register, NotRegistered, Stop, Start, LaunchFails,
                Round, LoopEnds, IInv, TypeOK
  <2>3. cur = NoClient /\ added = {} /\ ~failing /\ \A i \in Ids : lock[i] \in {Waiter, NoOne}
    BY <2>1, NothingInHand
  <2>4. \A d \in Callers : pc'[d] # "register"
    BY <2>1, <2>2, InHand
  <2>5. \A i \in Ids : Removing(i)' <=> Removing(i)
    BY <1>1, <2>3 DEF Removing
  <2> QED
    BY <1>1, <1>2, <2>3, <2>4, <2>5
       DEF ServersInv, LockInv, AddingInv, BoxInv, Adding
<1> QED
  BY <1>3, <1>4

(* Steps of newClient.                                                     *)
LEMMA RegisteringSteps ==
  ASSUME IInv, ServersInv, NEW c \in Callers, Registering(c)
  PROVE  ServersInv'
<1> USE DEF ServersInv, callVars, mapVars, clientVars
<1>1. /\ Inside(c) /\ (\A d \in Callers : d # c => ~Inside(d))
      /\ pc \in [Callers -> {"idle", "lock", "run", "loop", "close", "launch", "register",
                             "unlock"}]
      /\ session \in [Ids -> {"none", "up", "down"}]
      /\ connected \in [Ids -> BOOLEAN] /\ offered \in [Ids -> BOOLEAN]
  BY InHand DEF Registering, LaunchWatched, Launch, LockToRegister, Adding, FindFree, AddOne,
                AddFails, RollbackOne, RegisteredAll, Registered, RegisterFailed, RegisterFails, IInv,
                TypeOK
<1>2. CASE LaunchWatched(c)
  <2>1. /\ cur = NoClient /\ added = {} /\ ~failing
        /\ \A i \in Ids : lock[i] \in {Waiter, NoOne}
    BY <1>1, <1>2, NothingInHand DEF LaunchWatched, Launch
  <2>2. /\ created + 1 \in Ids /\ cur' = created + 1 /\ arg' = arg /\ pc'[c] = "register"
        /\ session[created + 1] = "none" /\ ~connected[created + 1] /\ ~offered[created + 1]
        /\ nameOf' = [nameOf EXCEPT ![created + 1] = arg[c]] /\ nameOf'[created + 1] = arg[c]
        /\ session' = [session EXCEPT ![created + 1] = "up"]
        /\ connected' = [connected EXCEPT ![created + 1] = TRUE]
        /\ UNCHANGED <<box, tools, lock, drop, left, added, failing, offered>>
    BY <1>2 DEF LaunchWatched, Launch, IInv, TypeOK, MapInv
  <2>3. tools[created + 1] = {} /\ Free(created + 1)
    BY <2>1, <2>2 DEF KnownInv, LockInv
  <2>4. \A d \in Callers : pc'[d] = "register" => d = c
    BY <1>1, <1>2 DEF LaunchWatched, Launch
  <2>5. \A i \in Ids : ~(lock'[i] \in Callers) /\ (Removing(i)' <=> Removing(i))
    BY <2>1, <2>2 DEF Removing
  <2>6. BoxTypeOK' /\ LockInv'
    BY <2>2, <2>3, <2>5 DEF BoxTypeOK, LockInv
  <2>7. AddingInv'
    BY <2>1, <2>2, <2>3, <2>4, <2>5 DEF AddingInv, Adding
  <2>8. KnownInv'
    BY <2>2, <2>3 DEF KnownInv
  <2>9. BoxInv'
    BY <2>1, <2>2, <2>3, <2>5 DEF BoxInv, Shared
  <2> QED
    BY <2>6, <2>7, <2>8, <2>9
<1>3. ASSUME pc[c] = "register"  PROVE cur \in Ids /\ arg[c] \in Names /\ nameOf[cur] = arg[c]
  BY <1>1, <1>3, InHand
<1>4. CASE LockToRegister(c)
  <2>1. /\ cur \in Ids /\ pc[c] = "register" /\ Free(cur) /\ lock'[cur] = c
        /\ lock' = [lock EXCEPT ![cur] = c] /\ added' = {} /\ left' = ToolsOf[arg[c]]
        /\ UNCHANGED <<vars, box, tools, drop, failing>>
    BY <1>3, <1>4 DEF LockToRegister, BoxTypeOK
  <2>2. added = {} /\ ~failing
    BY <1>1, <2>1 DEF AddingInv, Adding
  <2>3. \A i \in Ids : Removing(i)' <=> Removing(i)
    BY <2>1 DEF Removing, vars
  <2>4. \A d \in Callers : pc'[d] = pc[d] /\ (pc[d] = "register" => d = c)
    BY <1>1, <2>1 DEF vars
  <2>5. connected[cur] /\ left' \subseteq ToolNames /\ tools[cur] = {} /\ ~offered[cur]
    BY <1>3, <1>4, <2>1 DEF LockToRegister, AddingInv
  <2>6. (BoxTypeOK /\ LockInv /\ KnownInv)'
    <3>1. BoxTypeOK'
      BY <2>1, <2>5 DEF BoxTypeOK
    <3>2. LockInv'
      <4>1. \A i \in Ids : lock'[i] = IF i = cur THEN c ELSE lock[i]
        BY <2>1 DEF BoxTypeOK
      <4>2. UNCHANGED <<pc, cur, session>> /\ c \in Callers /\ c # Waiter
        BY <2>1 DEF vars
      <4> QED
        BY <2>1, <4>1, <4>2 DEF LockInv
    <3>3. KnownInv'
      BY <2>1 DEF KnownInv, vars
    <3> QED
      BY <3>1, <3>2, <3>3
  <2>7. AddingInv'
    BY <1>3, <2>1, <2>2, <2>4, <2>5 DEF AddingInv, Adding, vars
  <2>8. BoxInv'
    BY <2>1, <2>2, <2>3, <2>5 DEF BoxInv, Shared, vars, BoxTypeOK
  <2> QED
    BY <2>6, <2>7, <2>8
<1>5. CASE AddOne(c)
  <2>1. PICK t \in left : /\ box' = [box EXCEPT ![t] = cur]
                         /\ left' = left \ {t} /\ added' = added \cup {t}
    BY <1>5 DEF AddOne
  <2>2. /\ pc[c] = "register" /\ lock[cur] = c /\ ~failing /\ cur \in Ids /\ t \in ToolNames
        /\ UNCHANGED <<vars, tools, lock, drop, failing>>
    BY <1>3, <1>5 DEF AddOne, Adding, BoxTypeOK
  <2>3. connected[cur] /\ tools[cur] = {} /\ t \in ToolsOf[arg[c]]
    BY <2>2 DEF AddingInv, Adding
  <2>4. \A i \in Ids : t \in tools[i] => Shared(nameOf[i], t)
    BY <1>3, <2>2, <2>3, Distinct DEF KnownInv, Shared
  <2>5. \A i \in Ids : Removing(i)' <=> Removing(i)
    BY <2>2 DEF Removing, vars
  <2>6. BoxTypeOK' /\ LockInv' /\ KnownInv'
    BY <2>1, <2>2 DEF BoxTypeOK, LockInv, KnownInv, vars
  <2>7. AddingInv'
    <3>1. \A d \in Callers : pc'[d] = pc[d] /\ (pc[d] = "register" => d = c)
      BY <1>1, <2>2 DEF vars
    <3>2. \A u \in added' : box'[u] = cur \/ Shared(arg[c], u)
      BY <2>1, <2>2 DEF BoxTypeOK, AddingInv, Adding
    <3>3. added' \cup left' = ToolsOf[arg[c]]
      BY <2>1, <2>2, <2>3 DEF AddingInv, Adding
    <3> QED
      BY <1>3, <2>2, <2>3, <3>1, <3>2, <3>3 DEF AddingInv, Adding, Shared, vars
  <2>8. BoxInv'
    <3>1. \A u \in ToolNames : u # t => box'[u] = box[u] /\ (u \in added => u \in added')
      BY <2>1, <2>2 DEF BoxTypeOK
    <3>2. box'[t] = cur
      BY <2>1, <2>2 DEF BoxTypeOK
    <3>3. \A u \in ToolNames : box'[u] # NoClient =>
            u \in tools[box'[u]] \/ (box'[u] = cur /\ u \in added')
      BY <2>1, <3>1, <3>2 DEF BoxInv
    <3>4. \A i \in Ids, u \in ToolNames :
            box'[u] = i /\ u \in tools[i] /\ Removing(i) => u \in drop[i]
      BY <2>2, <2>3, <3>1, <3>2 DEF BoxInv
    <3>5. \A i \in Ids : Free(i) => \A u \in tools[i] : box'[u] = i \/ Shared(nameOf[i], u)
      BY <2>4, <3>1 DEF BoxInv, BoxTypeOK
    <3> QED
      BY <2>2, <2>5, <3>3, <3>4, <3>5 DEF BoxInv, Shared, vars
  <2> QED
    BY <2>6, <2>7, <2>8
<1>6. CASE AddFails(c)
  <2>1. UNCHANGED <<vars, box, tools, lock, drop, cur, left, added>> /\ failing' = TRUE
    BY <1>6 DEF AddFails, vars
  <2>2. (\A d \in Callers : Adding(d)' <=> Adding(d)) /\ (\A i \in Ids : Removing(i)' <=> Removing(i))
    BY <2>1 DEF Adding, Removing, vars
  <2>3. (BoxTypeOK /\ LockInv /\ KnownInv)'
    BY <2>1 DEF BoxTypeOK, LockInv, KnownInv, vars
  <2>4. AddingInv'
    BY <2>1, <2>2, <1>6 DEF AddingInv, AddFails, Shared, vars
  <2>5. BoxInv'
    BY <2>1, <2>2 DEF BoxInv, Shared, vars
  <2> QED
    BY <2>3, <2>4, <2>5
<1>7. CASE RollbackOne(c)
  <2>1. PICK t \in added : box' = Without(t) /\ added' = added \ {t}
    BY <1>7 DEF RollbackOne
  <2>2. /\ pc[c] = "register" /\ lock[cur] = c /\ failing /\ cur \in Ids /\ t \in ToolNames
        /\ UNCHANGED <<vars, tools, lock, drop, left, failing>>
    BY <1>3, <1>7 DEF RollbackOne, Adding, BoxTypeOK
  <2>3. connected[cur] /\ tools[cur] = {} /\ t \in ToolsOf[arg[c]]
    BY <2>2 DEF AddingInv, Adding
  <2>4. \A i \in Ids : t \in tools[i] => Shared(nameOf[i], t)
    BY <1>3, <2>2, <2>3, Distinct DEF KnownInv, Shared
  <2>5. \A i \in Ids : Removing(i)' <=> Removing(i)
    BY <2>2 DEF Removing, vars
  <2>6. BoxTypeOK' /\ LockInv' /\ KnownInv'
    BY <2>1, <2>2 DEF BoxTypeOK, LockInv, KnownInv, vars
  <2>7. AddingInv'
    BY <1>1, <1>3, <2>1, <2>2, <2>3 DEF BoxTypeOK, AddingInv, Adding, Shared, vars
  <2>8. BoxInv'
    BY <2>1, <2>2, <2>3, <2>4, <2>5 DEF BoxTypeOK, BoxInv, Shared, vars
  <2> QED
    BY <2>6, <2>7, <2>8
<1>8. CASE RegisteredAll(c)
  <2>1. /\ pc[c] = "register" /\ cur \in Ids /\ cur' = NoClient
        /\ pc' = [pc EXCEPT ![c] = "unlock"] /\ arg' = arg
        /\ offered' = [offered EXCEPT ![cur] = connected[cur]]
        /\ tools' = [tools EXCEPT ![cur] = added] /\ lock' = [lock EXCEPT ![cur] = NoOne]
        /\ added' = {}
        /\ UNCHANGED <<nameOf, session, connected, box, drop, failing>>
    BY <1>3, <1>8 DEF RegisteredAll, Registered
  <2>2. \A d \in Callers : pc'[d] # "register"
    BY <1>1, <2>1
  <2>3. \A i \in Ids : lock'[i] \notin Callers
    BY <2>1 DEF LockInv, BoxTypeOK
  <2>4. tools[cur] = {} /\ lock'[cur] = NoOne
    BY <2>1 DEF AddingInv, Removing, BoxTypeOK
  <2>5. \A i \in Ids : i # cur => (Removing(i)' <=> Removing(i)) /\ Free(i)' = Free(i)
    BY <1>1, <2>1, <2>3 DEF Removing, BoxTypeOK, LockInv
  <2>6. \/ connected[cur] /\ added = ToolsOf[arg[c]] /\ ~failing
           /\ \A t \in added : box[t] = cur \/ Shared(arg[c], t)
        \/ ~connected[cur] /\ added = {} /\ ~failing
    <3>1. CASE Adding(c) /\ left = {}
      BY <2>1, <3>1 DEF AddingInv, BoxTypeOK
    <3>2. CASE Free(cur) /\ ~connected[cur]
      BY <1>1, <2>1, <3>2 DEF AddingInv, Adding, BoxTypeOK
    <3> QED
      BY <1>8, <3>1, <3>2 DEF RegisteredAll
  <2>7. added \subseteq ToolNames /\ drop[cur] = {}
    BY <2>1, <2>4 DEF BoxTypeOK, KnownInv
  <2>8. BoxTypeOK'
    BY <1>8, <2>1, <2>7 DEF RegisteredAll, BoxTypeOK
  <2>9. LockInv' /\ AddingInv'
    <3>1. \A i \in Ids : lock'[i] = Waiter => session'[i] = "down"
      BY <2>1, <2>4 DEF LockInv, BoxTypeOK
    <3> QED
      BY <2>1, <2>2, <2>3, <2>6, <3>1 DEF LockInv, AddingInv, Adding
  <2>10. KnownInv'
    <3>1. \A i \in Ids : i # cur => tools'[i] = tools[i] /\ offered'[i] = offered[i]
      BY <1>1, <2>1 DEF BoxTypeOK
    <3>2. tools'[cur] = added /\ offered'[cur] = connected[cur]
      BY <1>1, <2>1 DEF BoxTypeOK
    <3>3. ASSUME NEW i \in Ids
          PROVE  /\ tools'[i] # {} => connected[i] /\ nameOf[i] \in Names /\ tools'[i] = ToolsOf[nameOf[i]]
                 /\ offered'[i] => nameOf[i] \in Names /\ tools'[i] = ToolsOf[nameOf[i]]
                 /\ drop[i] \subseteq tools'[i]
      <4>1. CASE i = cur
        BY <1>3, <2>1, <2>6, <2>7, <3>2, <4>1
      <4>2. CASE i # cur
        BY <3>1, <4>2 DEF KnownInv
      <4> QED
        BY <4>1, <4>2
    <3> QED
      BY <2>1, <3>3 DEF KnownInv
  <2>11. BoxInv'
    <3>1. \A i \in Ids : i # cur => tools'[i] = tools[i]
      BY <2>1 DEF BoxTypeOK
    <3>2. tools'[cur] = added /\ lock'[cur] = NoOne
      BY <2>1, <2>4 DEF Removing, BoxTypeOK
    <3>3. \A t \in ToolNames : box[t] # NoClient => t \in tools'[box[t]]
      BY <2>1, <2>4, <3>1, <3>2 DEF BoxInv, BoxTypeOK
    <3>4. \A i \in Ids, t \in ToolNames :
            box[t] = i /\ t \in tools'[i] /\ Removing(i)' => t \in drop[i]
      BY <2>4, <2>5, <3>1, <3>2 DEF BoxInv, Removing
    <3>5. \A i \in Ids : lock'[i] = NoOne =>
            \A t \in tools'[i] : box[t] = i \/ Shared(nameOf[i], t)
      <4>1. \A t \in added : box[t] = cur \/ Shared(nameOf[cur], t)
        BY <1>3, <2>1, <2>6
      <4>2. \A i \in Ids : i # cur /\ lock'[i] = NoOne => lock[i] = NoOne
        BY <2>5
      <4> QED
        BY <3>1, <3>2, <4>1, <4>2 DEF BoxInv
    <3> QED
      BY <2>1, <3>3, <3>4, <3>5 DEF BoxInv, Shared
  <2> QED
    BY <2>8, <2>9, <2>10, <2>11
<1>9. CASE RegisterFailed(c)
  <2>1. /\ pc[c] = "register" /\ cur \in Ids /\ pc' = [pc EXCEPT ![c] = "close"]
        /\ lock' = [lock EXCEPT ![cur] = NoOne] /\ failing' = FALSE /\ left' = {}
        /\ UNCHANGED <<arg, cur, nameOf, session, connected, offered, box, tools, drop, added>>
    BY <1>3, <1>9 DEF RegisterFailed, RegisterFails
  <2>2. \A d \in Callers : pc'[d] # "register"
    BY <1>1, <2>1
  <2>3. \A i \in Ids : lock'[i] \notin Callers
    BY <2>1 DEF LockInv, BoxTypeOK
  <2>4. added = {} /\ tools[cur] = {} /\ drop[cur] = {}
    BY <1>1, <1>9, <2>1 DEF RegisterFailed, AddingInv, KnownInv, Adding, BoxTypeOK
  <2>5. \A i \in Ids : i # cur => (Removing(i)' <=> Removing(i)) /\ Free(i)' = Free(i)
    BY <1>1, <2>1, <2>3 DEF Removing, BoxTypeOK, LockInv
  <2>6. (BoxTypeOK /\ LockInv /\ AddingInv /\ KnownInv)'
    <3>1. BoxTypeOK'
      BY <2>1 DEF BoxTypeOK
    <3>2. LockInv'
      BY <2>1, <2>3, <2>4 DEF LockInv, BoxTypeOK
    <3>3. AddingInv'
      BY <2>1, <2>2, <2>4 DEF AddingInv, Adding
    <3>4. KnownInv'
      BY <2>1, <2>4 DEF KnownInv
    <3> QED
      BY <3>1, <3>2, <3>3, <3>4
  <2>7. BoxInv'
    BY <2>1, <2>4, <2>5 DEF BoxInv, Shared, BoxTypeOK
  <2> QED
    BY <2>6, <2>7
<1>10. CASE FindFree(c)
  <2>1. UNCHANGED <<vars, box, tools, lock, drop, left, added, failing>>
    BY <1>10 DEF FindFree
  <2>2. (\A d \in Callers : Adding(d)' <=> Adding(d)) /\ (\A i \in Ids : Removing(i)' <=> Removing(i))
    BY <2>1 DEF Adding, Removing, vars
  <2>3. (BoxTypeOK /\ LockInv /\ KnownInv)'
    BY <2>1 DEF BoxTypeOK, LockInv, KnownInv, vars
  <2>4. AddingInv'
    BY <2>1, <2>2 DEF AddingInv, Shared, vars
  <2>5. BoxInv'
    BY <2>1, <2>2 DEF BoxInv, Shared, vars
  <2> QED
    BY <2>3, <2>4, <2>5
<1> QED
  BY <1>2, <1>4, <1>5, <1>6, <1>7, <1>8, <1>9, <1>10 DEF Registering

(* Removing a client's tools takes nothing from another that keeps its own.*)
LEMMA DropSteps ==
  ASSUME IInv, ServersInv, NEW i \in Ids, Removing(i), DropOne(i)
  PROVE  ServersInv'
<1> USE DEF ServersInv
<1>1. PICK t \in drop[i] : box' = Without(t) /\ drop' = [drop EXCEPT ![i] = drop[i] \ {t}]
  BY DEF DropOne
<1>2. UNCHANGED <<vars, tools, lock, left, added, failing>>
  BY DEF DropOne
<1>3. t \in ToolNames /\ t \in tools[i] /\ connected[i] /\ t \in ToolsOf[nameOf[i]]
      /\ nameOf[i] \in Names
  BY DEF KnownInv, BoxTypeOK
<1>4. \A j \in Ids : j # i /\ t \in tools[j] => Shared(nameOf[j], t)
  BY <1>3, Distinct DEF KnownInv, Shared
<1>5. ~Free(i)
  BY DEF Removing
<1>6. /\ \A u \in ToolNames : u # t => box'[u] = box[u]
      /\ box'[t] = NoClient
      /\ \A j \in Ids : drop'[j] = IF j = i THEN drop[i] \ {t} ELSE drop[j]
  BY <1>1, <1>3 DEF BoxTypeOK
<1>7. (BoxTypeOK /\ LockInv /\ KnownInv)'
  <2>1. BoxTypeOK'
    BY <1>1, <1>2 DEF BoxTypeOK
  <2>2. LockInv'
    BY <1>2 DEF LockInv, vars, callVars, clientVars
  <2>3. KnownInv'
    BY <1>2, <1>6 DEF KnownInv, vars, clientVars
  <2> QED
    BY <2>1, <2>2, <2>3
<1>8. AddingInv'
  <2>1. ASSUME NEW c \in Callers, Adding(c)  PROVE t \in ToolsOf[arg[c]] => Shared(arg[c], t)
    <3>1. Inside(c) /\ pc[c] = "register" /\ lock[cur] = c
      BY <2>1 DEF Adding
    <3>2. cur # i
      BY <3>1 DEF Removing
    <3>3. cur \in Ids /\ nameOf[cur] = arg[c] /\ connected[cur]
      BY <2>1, <3>1, InHand DEF AddingInv
    <3> QED
      BY <1>3, <3>2, <3>3, Distinct DEF Shared
  <2>2. ASSUME NEW c \in Callers, Adding(c), NEW u \in added
        PROVE  box'[u] = cur \/ Shared(arg[c], u)
    BY <1>6, <2>1, <2>2 DEF AddingInv, BoxTypeOK
  <2> QED
    BY <1>2, <2>2 DEF AddingInv, Adding, Shared, vars, callVars, mapVars, clientVars
<1>9. BoxInv'
  <2>1. \A u \in ToolNames : box'[u] # NoClient =>
          u \in tools[box'[u]] \/ (box'[u] = cur /\ u \in added)
    BY <1>6 DEF BoxInv
  <2>2. \A j \in Ids, u \in ToolNames :
          box'[u] = j /\ u \in tools[j] /\ Removing(j) => u \in drop'[j]
    BY <1>6 DEF BoxInv
  <2>3. \A j \in Ids : Free(j) => \A u \in tools[j] : box'[u] = j \/ Shared(nameOf[j], u)
    BY <1>4, <1>5, <1>6 DEF BoxInv, BoxTypeOK
  <2> QED
    BY <1>2, <2>1, <2>2, <2>3
       DEF BoxInv, Shared, Removing, vars, callVars, mapVars, clientVars
<1> QED
  BY <1>7, <1>8, <1>9

(* When a client has removed its tools it may forget them.                 *)
LEMMA ForgetSteps ==
  ASSUME IInv, ServersInv, NEW i \in Ids, Removing(i), drop[i] = {}, Forget(i),
         UNCHANGED <<box, drop, left, added, failing, nameOf>>,
         session' = session \/ session' = [session EXCEPT ![i] = "down"],
         connected' = [connected EXCEPT ![i] = FALSE],
         offered' = [offered EXCEPT ![i] = FALSE],
         \A c \in Callers : pc'[c] = "register" <=> pc[c] = "register",
         \A c \in Callers : pc[c] = "register" => arg'[c] = arg[c],
         \/ cur' = cur /\ pc' = pc
         \/ cur = i /\ cur' = NoClient /\ \A c \in Callers : pc[c] # "register"
  PROVE  ServersInv'
<1> USE DEF ServersInv
<1>1. /\ tools' = [tools EXCEPT ![i] = {}] /\ lock' = [lock EXCEPT ![i] = NoOne]
      /\ \A j \in Ids : j # i => tools'[j] = tools[j] /\ lock'[j] = lock[j]
      /\ tools'[i] = {} /\ lock'[i] = NoOne
  BY DEF Forget, BoxTypeOK
<1>2. /\ \A j \in Ids : j # i =>
           /\ connected'[j] = connected[j] /\ offered'[j] = offered[j] /\ session'[j] = session[j]
      /\ ~offered'[i]
  BY DEF IInv, TypeOK
<1>3. \A c \in Callers : Adding(c) => cur # i /\ cur' = cur
  BY DEF Adding, Removing
<1>4. \A t \in ToolNames : box[t] # i
  <2> SUFFICES ASSUME NEW t \in ToolNames, box[t] = i  PROVE FALSE
    OBVIOUS
  <2>1. ~(cur = i /\ t \in added)
    BY <1>3 DEF AddingInv
  <2> QED
    BY <2>1 DEF BoxInv
<1>5. \A j \in Ids : lock'[j] \in Callers => cur' = cur /\ pc' = pc /\ lock[j] = lock'[j] /\ j # i
  BY <1>1 DEF LockInv
<1>6. BoxTypeOK' /\ LockInv'
  BY <1>1, <1>2, <1>5 DEF BoxTypeOK, LockInv
<1>7. \A c \in Callers : Adding(c)' <=> Adding(c)
  BY <1>1, <1>3, <1>5 DEF Adding, LockInv
<1>8. AddingInv'
  <2>1. ASSUME NEW c \in Callers, pc'[c] = "register"
        PROVE  nameOf[cur'] = arg'[c] /\ tools'[cur'] = {} /\ ~offered'[cur']
    <3>1. cur' = cur /\ pc[c] = "register" /\ cur \in Ids /\ arg'[c] = arg[c]
      BY <2>1, InHand
    <3> QED
      BY <1>1, <1>2, <3>1 DEF AddingInv
  <2>2. ASSUME NEW c \in Callers, Adding(c)
        PROVE  connected'[cur] /\ cur' = cur /\ cur \in Ids /\ arg'[c] = arg[c]
    <3>1. pc[c] = "register" /\ Inside(c)
      BY <2>2 DEF Adding
    <3>2. cur \in Ids
      BY <3>1, InHand
    <3> QED
      BY <1>2, <1>3, <2>2, <3>1, <3>2 DEF AddingInv
  <2>3. added # {} \/ failing => \E c \in Callers : Adding(c)'
    BY <1>7 DEF AddingInv
  <2> QED
    BY <1>7, <2>1, <2>2, <2>3 DEF AddingInv, Shared
<1>9. KnownInv'
  BY <1>1, <1>2 DEF KnownInv
<1>10. BoxInv'
  <2>1. \A t \in ToolNames : box[t] # NoClient =>
          t \in tools'[box[t]] \/ (box[t] = cur' /\ t \in added)
    BY <1>1, <1>3, <1>4 DEF BoxInv, AddingInv, BoxTypeOK
  <2>2. \A j \in Ids : Removing(j)' => Removing(j)
    BY <1>1, <1>5 DEF Removing
  <2> QED
    BY <1>1, <2>1, <2>2 DEF BoxInv, Shared
<1> QED
  BY <1>6, <1>8, <1>9, <1>10

(* Steps of Client.Close.                                                  *)
LEMMA ClosingSteps ==
  ASSUME IInv, ServersInv, NEW c \in Callers, Closing(c)
  PROVE  ServersInv'
<1> USE DEF ServersInv
<1>1. pc[c] = "close" /\ Inside(c) /\ (\A d \in Callers : d # c => ~Inside(d)) /\ cur \in Ids
  BY InHand DEF Closing, CloseSession, LockToClose, CloseDone
<1>2. CASE CloseSession(c)
  <2>1. /\ session[cur] = "up" /\ session' = [session EXCEPT ![cur] = "down"]
        /\ UNCHANGED <<callVars, mapVars, created, nameOf, connected, offered, boxVars>>
    BY <1>2 DEF CloseSession, ServerDies
  <2>2. LockInv'
    BY <1>1, <2>1 DEF LockInv, callVars, boxVars, IInv, TypeOK
  <2> QED
    BY <2>1, <2>2 DEF BoxTypeOK, AddingInv, KnownInv, BoxInv, Adding, Removing, Shared,
                      callVars, boxVars
<1>3. CASE LockToClose(c)
  <2>1. /\ session[cur] = "down" /\ Free(cur)
        /\ lock' = [lock EXCEPT ![cur] = c] /\ drop' = [drop EXCEPT ![cur] = tools[cur]]
        /\ UNCHANGED <<vars, box, tools, left, added, failing>>
    BY <1>3 DEF LockToClose
  <2>2. \A i \in Ids : i # cur =>
          lock'[i] = lock[i] /\ drop'[i] = drop[i] /\ (Removing(i)' <=> Removing(i))
    BY <1>1, <2>1 DEF BoxTypeOK, Removing, vars, callVars
  <2>3. lock'[cur] = c /\ drop'[cur] = tools[cur]
    BY <1>1, <2>1 DEF BoxTypeOK
  <2>4. (BoxTypeOK /\ LockInv /\ KnownInv)'
    <3>1. BoxTypeOK'
      BY <1>1, <2>1 DEF BoxTypeOK
    <3>2. LockInv'
      BY <1>1, <2>1, <2>2, <2>3 DEF LockInv, vars, callVars, clientVars
    <3>3. KnownInv'
      BY <1>1, <2>1, <2>2, <2>3 DEF KnownInv, vars, clientVars
    <3> QED
      BY <3>1, <3>2, <3>3
  <2>5. \A d \in Callers : pc'[d] # "register" /\ pc[d] # "register"
    BY <1>1, <2>1 DEF vars, callVars
  <2>6. AddingInv'
    BY <2>1, <2>5 DEF AddingInv, Adding
  <2>7. BoxInv'
    BY <1>1, <2>1, <2>2, <2>3 DEF BoxInv, Shared, vars, callVars, clientVars
  <2> QED
    BY <2>4, <2>6, <2>7
<1>4. CASE CloseDone(c)
  <2>1. Removing(cur) /\ drop[cur] = {} /\ Forget(cur)
    BY <1>1, <1>4 DEF CloseDone, Removing
  <2>2. /\ session' = [session EXCEPT ![cur] = "down"]
        /\ connected' = [connected EXCEPT ![cur] = FALSE]
        /\ offered' = [offered EXCEPT ![cur] = FALSE]
        /\ cur' = NoClient /\ pc' = [pc EXCEPT ![c] = AfterClose(c)]
        /\ UNCHANGED <<arg, nameOf, box, drop, left, added, failing>>
    BY <1>4 DEF CloseDone, CloseClient
  <2>3. \A d \in Callers : pc'[d] # "register" /\ pc[d] # "register"
    BY <1>1, <2>2 DEF AfterClose, IInv, TypeOK
  <2> QED
    BY <1>1, <2>1, <2>2, <2>3, ForgetSteps
<1>5. CASE pc[c] = "close" /\ lock[cur] = c /\ DropOne(cur)
  BY <1>1, <1>5, DropSteps DEF Removing
<1> QED
  BY <1>2, <1>3, <1>4, <1>5 DEF Closing

(* Steps of a client's own goroutine, and the end of its server.           *)
LEMMA DisconnectingSteps ==
  ASSUME IInv, ServersInv, NEW i \in Ids,
         Disconnecting(i) \/ (ServerDies(i) /\ UNCHANGED boxVars)
  PROVE  ServersInv'
<1> USE DEF ServersInv
<1>1. CASE ServerDies(i) /\ UNCHANGED boxVars
  <2>1. /\ session[i] = "up" /\ session' = [session EXCEPT ![i] = "down"]
        /\ UNCHANGED <<callVars, mapVars, created, nameOf, connected, offered, boxVars>>
    BY <1>1 DEF ServerDies
  <2>2. LockInv'
    BY <2>1 DEF LockInv, callVars, boxVars, IInv, TypeOK
  <2> QED
    BY <2>1, <2>2 DEF BoxTypeOK, AddingInv, KnownInv, BoxInv, Adding, Removing, Shared,
                      callVars, boxVars
<1>2. CASE LockToDisconnect(i)
  <2>1. /\ session[i] = "down" /\ Free(i)
        /\ lock' = [lock EXCEPT ![i] = Waiter] /\ drop' = [drop EXCEPT ![i] = tools[i]]
        /\ UNCHANGED <<vars, box, tools, left, added, failing>>
    BY <1>2 DEF LockToDisconnect
  <2>2. \A j \in Ids : j # i =>
          lock'[j] = lock[j] /\ drop'[j] = drop[j] /\ (Removing(j)' <=> Removing(j))
    BY <2>1 DEF BoxTypeOK, Removing, vars, callVars
  <2>3. lock'[i] = Waiter /\ drop'[i] = tools[i]
    BY <2>1 DEF BoxTypeOK
  <2>4. (BoxTypeOK /\ LockInv /\ KnownInv)'
    <3>1. BoxTypeOK'
      BY <2>1 DEF BoxTypeOK
    <3>2. LockInv'
      BY <2>1, <2>2, <2>3 DEF LockInv, vars, callVars, clientVars
    <3>3. KnownInv'
      BY <2>1, <2>2, <2>3 DEF KnownInv, vars, clientVars
    <3> QED
      BY <3>1, <3>2, <3>3
  <2>5. \A c \in Callers : Adding(c) => cur \in Ids
    BY InHand DEF Adding
  <2>6. \A c \in Callers : Adding(c)' <=> Adding(c)
    <3> SUFFICES ASSUME NEW c \in Callers, pc[c] = "register"
                 PROVE  lock'[cur] = c <=> lock[cur] = c
      BY <2>1 DEF Adding, vars, callVars
    <3>1. cur \in Ids
      BY InHand
    <3> QED
      BY <2>1, <2>2, <2>3, <3>1
  <2>7. AddingInv'
    BY <2>1, <2>6 DEF AddingInv, Shared, vars, callVars, clientVars
  <2>8. BoxInv'
    BY <2>1, <2>2, <2>3 DEF BoxInv, Shared, vars, callVars, clientVars
  <2> QED
    BY <2>4, <2>7, <2>8
<1>3. CASE DisconnectDone(i)
  <2>1. Removing(i) /\ drop[i] = {} /\ Forget(i)
    BY <1>3 DEF DisconnectDone, Removing
  <2>2. UNCHANGED <<box, drop, left, added, failing, nameOf, session, cur, pc, arg>>
    BY <1>3 DEF DisconnectDone, Disconnected, vars, callVars, clientVars
  <2>3. /\ connected' = [connected EXCEPT ![i] = FALSE]
        /\ offered' = [offered EXCEPT ![i] = FALSE]
    <3>1. CASE Disconnected(i)
      BY <3>1 DEF Disconnected
    <3>2. CASE ~connected[i] /\ UNCHANGED vars
      <4>1. ~offered[i]
        BY <3>2 DEF IInv, MapInv
      <4> QED
        BY <3>2, <4>1 DEF vars, clientVars, IInv, TypeOK
    <3> QED
      BY <1>3, <3>1, <3>2 DEF DisconnectDone
  <2> QED
    BY <2>1, <2>2, <2>3, ForgetSteps
<1>4. CASE lock[i] = Waiter /\ DropOne(i)
  BY <1>4, DropSteps DEF Removing
<1> QED
  BY <1>1, <1>2, <1>3, <1>4 DEF Disconnecting

(* The servers keep the inductive invariant of their box.                  *)
THEOREM BoxInvariance == ServersSpec => []ServersInv
<1>1. ASSUME IInv, ServersInv, [ServersNext]_serversVars  PROVE ServersInv'
  <2>1. CASE UNCHANGED serversVars
    <3> USE <1>1, <2>1 DEF serversVars, vars, callVars, clientVars, boxVars, ServersInv
    <3>1. BoxTypeOK' /\ LockInv' /\ KnownInv'
      BY DEF BoxTypeOK, LockInv, KnownInv
    <3>2. AddingInv'
      BY DEF AddingInv, Adding, Shared
    <3>3. BoxInv'
      BY DEF BoxInv, Removing, Shared
    <3> QED
      BY <3>1, <3>2, <3>3
  <2> QED
    BY <1>1, <2>1, OutsideSteps, RegisteringSteps, ClosingSteps, DisconnectingSteps
       DEF ServersNext, ServersStep
<1> QED
  BY <1>1, BoxInitInv, ManagerInvariance, PTL DEF ServersSpec

(* A running server keeps its tools in the box, whatever happens to other  *)
(* servers and to earlier clients of its own name.                         *)
THEOREM ToolsAreKept == ServersSpec => []ToolsStay
<1>1. ServersInv => ToolsStay
  BY DEF ServersInv, KnownInv, BoxInv, ToolsStay
<1> QED
  BY <1>1, BoxInvariance, PTL
=============================================================================
