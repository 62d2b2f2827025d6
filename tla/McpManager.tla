----------------------------- MODULE McpManager -----------------------------
(***************************************************************************)
(* mcp.Manager (src/mcp/manager.go): the registered configurations and the *)
(* running clients, by name, behind one mutex that every call holds from   *)
(* its first line to its last, also while a server starts or stops.        *)
(*                                                                         *)
(* A client is what McpClient promises: a session with a server that may   *)
(* end at any time, tools that are registered while it is connected, and a *)
(* goroutine that takes the tools back and clears connected some time      *)
(* after the session ended.  Clients are numbered in the order of newClient.*)
(***************************************************************************)
EXTENDS Integers

CONSTANTS
  Callers,     (* goroutines that call the Manager                         *)
  Names,       (* ClientConfig.Name                                        *)
  NoOne, NoName,
  MaxClients   (* bound: clients ever created                              *)

Ids == 1..MaxClients
NoClient == 0

ASSUME ManagerAssumption ==
  MaxClients \in Nat \ {0} /\ NoOne \notin Callers /\ NoName \notin Names

VARIABLES
  mu,          (* who holds Manager.mu                                     *)
  pc, op, arg, (* each caller: where it is, its call, the call's name      *)
  todo,        (* names the loop of Close, Status or Instructions has left *)
  cur,         (* the client the holder of mu is creating or closing       *)
  configs, clients, (* Manager.configs (its keys), Manager.clients         *)
  created,     (* clients created so far                                   *)
  nameOf,      (* the name of each client                                  *)
  session,     (* of each client: "none", "up", "down"                     *)
  connected, offered  (* Client.connected; its tools are in the tool box   *)

callVars   == <<mu, pc, op, arg, todo, cur>>
mapVars    == <<configs, clients>>
clientVars == <<created, nameOf, session, connected, offered>>
vars == <<callVars, mapVars, clientVars>>

Init ==
  /\ mu = NoOne
  /\ pc = [c \in Callers |-> "idle"] /\ op = [c \in Callers |-> "none"]
  /\ arg = [c \in Callers |-> NoName]
  /\ todo = {} /\ cur = NoClient
  /\ configs = {} /\ clients = [n \in Names |-> NoClient]
  /\ created = 0 /\ nameOf = [i \in Ids |-> NoName]
  /\ session = [i \in Ids |-> "none"]
  /\ connected = [i \in Ids |-> FALSE] /\ offered = [i \in Ids |-> FALSE]

Goto(c, to) == pc' = [pc EXCEPT ![c] = to]
Client(c) == clients[arg[c]]
Running == {n \in Names : clients[n] # NoClient}

-----------------------------------------------------------------------------
(* Calls, and the mutex.                                                   *)

Call(c) ==
  /\ pc[c] = "idle"
  /\ \/ \E o \in {"Register", "Start", "Stop"}, n \in Names :
          op' = [op EXCEPT ![c] = o] /\ arg' = [arg EXCEPT ![c] = n]
     \/ \E o \in {"Status", "Instructions", "Close"} :
          op' = [op EXCEPT ![c] = o] /\ UNCHANGED arg
  /\ Goto(c, "lock")
  /\ UNCHANGED <<mu, todo, cur, mapVars, clientVars>>

Lock(c) ==
  /\ pc[c] = "lock" /\ mu = NoOne
  /\ mu' = c
  /\ todo' = CASE op[c] = "Status" -> configs
               [] op[c] \in {"Instructions", "Close"} -> Running
               [] OTHER -> {}
  /\ Goto(c, IF op[c] \in {"Status", "Instructions", "Close"} THEN "loop" ELSE "run")
  /\ UNCHANGED <<op, arg, cur, mapVars, clientVars>>

(* The deferred Unlock; the call returns.                                  *)
Unlock(c) ==
  /\ pc[c] = "unlock"
  /\ mu' = NoOne /\ todo' = {}
  /\ op' = [op EXCEPT ![c] = "none"] /\ arg' = [arg EXCEPT ![c] = NoName]
  /\ Goto(c, "idle")
  /\ UNCHANGED <<cur, mapVars, clientVars>>

-----------------------------------------------------------------------------
(* Register, Stop and Start up to the launch.                              *)

Register(c) ==
  /\ pc[c] = "run" /\ op[c] = "Register"
  /\ configs' = configs \cup {arg[c]}
  /\ Goto(c, "unlock")
  /\ UNCHANGED <<mu, op, arg, todo, cur, clients, clientVars>>

(* ErrMCPNotRegistered.                                                    *)
NotRegistered(c) ==
  /\ pc[c] = "run" /\ op[c] \in {"Start", "Stop"} /\ arg[c] \notin configs
  /\ Goto(c, "unlock")
  /\ UNCHANGED <<mu, op, arg, todo, cur, mapVars, clientVars>>

Stop(c) ==
  /\ pc[c] = "run" /\ op[c] = "Stop" /\ arg[c] \in configs
  /\ cur' = Client(c)
  /\ Goto(c, IF Client(c) = NoClient THEN "unlock" ELSE "close")
  /\ UNCHANGED <<mu, op, arg, todo, mapVars, clientVars>>

(* Mutant of Start: a running client is not looked for.                    *)
StartAnew(c) ==
  /\ pc[c] = "run" /\ op[c] = "Start" /\ arg[c] \in configs
  /\ Goto(c, "launch")
  /\ UNCHANGED <<mu, op, arg, todo, cur, mapVars, clientVars>>

(* Start reuses a connected client, closes another, and launches if there  *)
(* is none.                                                                *)
Start(c) ==
  /\ pc[c] = "run" /\ op[c] = "Start" /\ arg[c] \in configs
  /\ \/ /\ Client(c) # NoClient /\ connected[Client(c)]
        /\ Goto(c, "unlock") /\ UNCHANGED cur
     \/ /\ Client(c) # NoClient /\ ~connected[Client(c)]
        /\ cur' = Client(c)
        /\ Goto(c, "close")
     \/ /\ Client(c) = NoClient
        /\ Goto(c, "launch") /\ UNCHANGED cur
  /\ UNCHANGED <<mu, op, arg, todo, mapVars, clientVars>>

-----------------------------------------------------------------------------
(* newClient.                                                              *)

LaunchFails(c) ==
  /\ pc[c] = "launch"
  /\ Goto(c, "unlock")
  /\ UNCHANGED <<mu, op, arg, todo, cur, mapVars, clientVars>>

Launch(c) ==
  /\ pc[c] = "launch" /\ created < MaxClients
  /\ created' = created + 1 /\ cur' = created + 1
  /\ nameOf' = [nameOf EXCEPT ![created + 1] = arg[c]]
  /\ session' = [session EXCEPT ![created + 1] = "up"]
  /\ connected' = [connected EXCEPT ![created + 1] = TRUE]
  /\ Goto(c, "register")
  /\ UNCHANGED <<mu, op, arg, todo, offered, mapVars>>

(* registerTools; a client that lost its server registers nothing, and     *)
(* may still be returned without an error.  m.clients[name] = client.      *)
Registered(c) ==
  /\ pc[c] = "register"
  /\ offered' = [offered EXCEPT ![cur] = connected[cur]]
  /\ clients' = [clients EXCEPT ![arg[c]] = cur] /\ cur' = NoClient
  /\ Goto(c, "unlock")
  /\ UNCHANGED <<mu, op, arg, todo, configs, created, nameOf, session, connected>>

(* Mutant of RegisterFails: newClient returns without closing its client.  *)
RegisterFailsUnclosed(c) ==
  /\ pc[c] = "register"
  /\ cur' = NoClient
  /\ Goto(c, "unlock")
  /\ UNCHANGED <<mu, op, arg, todo, mapVars, clientVars>>

(* registerTools fails: newClient closes the client it does not return.    *)
RegisterFails(c) ==
  /\ pc[c] = "register"
  /\ Goto(c, "close")
  /\ UNCHANGED <<mu, op, arg, todo, cur, mapVars, clientVars>>

-----------------------------------------------------------------------------
(* client.Close, for every caller of it, and what follows it there.        *)

AfterClose(c) ==
  CASE op[c] \in {"Status", "Instructions", "Close"} -> "loop"
    [] op[c] = "Start" /\ clients[arg[c]] = cur -> "launch"
    [] OTHER -> "unlock"

(* The session ends, the tools go, and the map forgets the client.         *)
CloseClient(c) ==
  /\ pc[c] = "close"
  /\ session' = [session EXCEPT ![cur] = "down"]
  /\ connected' = [connected EXCEPT ![cur] = FALSE]
  /\ offered' = [offered EXCEPT ![cur] = FALSE]
  /\ clients' = [n \in Names |-> IF clients[n] = cur THEN NoClient ELSE clients[n]]
  /\ cur' = NoClient
  /\ Goto(c, AfterClose(c))
  /\ UNCHANGED <<mu, op, arg, todo, configs, created, nameOf>>

(* Mutant of Round: the loop does not move on to the next name.            *)
RoundAgain(c) ==
  /\ pc[c] = "loop"
  /\ \E n \in todo :
       IF clients[n] # NoClient /\ (op[c] = "Close" \/ ~connected[clients[n]])
       THEN cur' = clients[n] /\ Goto(c, "close")
       ELSE UNCHANGED <<cur, pc>>
  /\ UNCHANGED <<mu, op, arg, todo, mapVars, clientVars>>

(* Mutant of Round: Close, too, leaves alone what is not connected.        *)
RoundConnectedOnly(c) ==
  /\ pc[c] = "loop"
  /\ \E n \in todo :
       /\ todo' = todo \ {n}
       /\ IF clients[n] # NoClient /\ ~connected[clients[n]]
          THEN cur' = clients[n] /\ Goto(c, "close")
          ELSE UNCHANGED <<cur, pc>>
  /\ UNCHANGED <<mu, op, arg, mapVars, clientVars>>

(* One round of the loop over names: Close closes every client, Status and *)
(* Instructions those that are not connected.                              *)
Round(c) ==
  /\ pc[c] = "loop"
  /\ \E n \in todo :
       /\ todo' = todo \ {n}
       /\ IF clients[n] # NoClient /\ (op[c] = "Close" \/ ~connected[clients[n]])
          THEN cur' = clients[n] /\ Goto(c, "close")
          ELSE UNCHANGED <<cur, pc>>
  /\ UNCHANGED <<mu, op, arg, mapVars, clientVars>>

LoopEnds(c) ==
  /\ pc[c] = "loop" /\ todo = {}
  /\ Goto(c, "unlock")
  /\ UNCHANGED <<mu, op, arg, todo, cur, mapVars, clientVars>>

-----------------------------------------------------------------------------
(* The servers, and the goroutine of each client that waits for its end.   *)

ServerDies(i) ==
  /\ session[i] = "up"
  /\ session' = [session EXCEPT ![i] = "down"]
  /\ UNCHANGED <<callVars, mapVars, created, nameOf, connected, offered>>

Disconnected(i) ==
  /\ session[i] = "down" /\ connected[i]
  /\ connected' = [connected EXCEPT ![i] = FALSE]
  /\ offered' = [offered EXCEPT ![i] = FALSE]
  /\ UNCHANGED <<callVars, mapVars, created, nameOf, session>>

-----------------------------------------------------------------------------
Step(c) ==
  \/ Unlock(c) \/ Register(c) \/ NotRegistered(c) \/ Stop(c) \/ Start(c)
  \/ LaunchFails(c) \/ Launch(c) \/ Registered(c) \/ RegisterFails(c)
  \/ CloseClient(c) \/ Round(c) \/ LoopEnds(c)

Next ==
  \/ \E c \in Callers : Call(c) \/ Lock(c) \/ Step(c)
  \/ \E i \in Ids : ServerDies(i) \/ Disconnected(i)

(* The holder of the mutex makes progress: a launch is bounded by its ctx, *)
(* a close by the transport.  sync.Mutex starves no one.                   *)
Fairness ==
  /\ \A c \in Callers : WF_vars(Step(c)) /\ SF_vars(Lock(c))
  /\ \A i \in Ids : WF_vars(Disconnected(i))

Spec == Init /\ [][Next]_vars
FairSpec == Spec /\ Fairness

-----------------------------------------------------------------------------
(* What must hold.                                                         *)

(* The type invariant: every variable of the manager, its clients and      *)
(* their servers keeps to its type.                                        *)
TypeOK ==
  /\ mu \in Callers \cup {NoOne}
  /\ pc \in [Callers -> {"idle", "lock", "run", "loop", "close", "launch", "register",
                         "unlock"}]
  /\ op \in [Callers -> {"none", "Register", "Start", "Stop", "Status", "Instructions",
                         "Close"}]
  /\ arg \in [Callers -> Names \cup {NoName}]
  /\ \A c \in Callers :
       pc[c] # "idle" /\ op[c] \in {"Register", "Start", "Stop"} => arg[c] \in Names
  /\ todo \subseteq Names /\ cur \in Ids \cup {NoClient}
  /\ configs \subseteq Names /\ clients \in [Names -> Ids \cup {NoClient}]
  /\ created \in 0..MaxClients /\ nameOf \in [Ids -> Names \cup {NoName}]
  /\ session \in [Ids -> {"none", "up", "down"}]
  /\ connected \in [Ids -> BOOLEAN] /\ offered \in [Ids -> BOOLEAN]

Inside(c) == pc[c] \notin {"idle", "lock"}

(* The mutex: one call is inside, and only it has a client in its hands.   *)
MutexInv ==
  /\ \A c \in Callers : Inside(c) <=> mu = c
  /\ cur # NoClient => \E c \in Callers : pc[c] \in {"close", "register"}
  /\ \A c \in Callers : pc[c] \in {"close", "register"} =>
       /\ cur \in 1..created /\ nameOf[cur] \in Names
       /\ clients[nameOf[cur]] \in {NoClient, cur}
       /\ op[c] \in {"Start", "Stop"} => nameOf[cur] = arg[c]
  /\ \A c \in Callers : pc[c] \in {"launch", "register"} =>
       op[c] = "Start" /\ clients[arg[c]] = NoClient
  /\ \A c \in Callers : pc[c] = "loop" => op[c] \in {"Status", "Instructions", "Close"}

(* The map knows every client under its own name, and the clients that     *)
(* were ever created are the first ones.                                   *)
MapInv ==
  /\ \A n \in Names : clients[n] # NoClient => clients[n] <= created /\ nameOf[clients[n]] = n
  /\ \A i \in Ids : i > created <=> session[i] = "none"
  /\ \A i \in Ids : session[i] = "up" => connected[i]
  /\ \A i \in Ids : offered[i] => connected[i]
  /\ \A i \in Ids : session[i] = "none" => ~connected[i]

(* A client that the map does not know and nobody has in hand is closed.   *)
TrackedInv ==
  \A i \in Ids : connected[i] =>
    cur = i \/ (nameOf[i] \in Names /\ clients[nameOf[i]] = i)

(* The loop of Close: what it has not reached is still to do.              *)
CloseInv ==
  \A c \in Callers : op[c] = "Close" /\ Inside(c) =>
    /\ pc[c] \in {"loop", "close", "unlock"}
    /\ \A n \in Names : clients[n] # NoClient => n \in todo \/ clients[n] = cur
    /\ pc[c] = "unlock" => todo = {}

(* The inductive invariant: the types and the parts named above, which     *)
(* every step keeps.                                                       *)
IInv == TypeOK /\ MutexInv /\ MapInv /\ TrackedInv /\ CloseInv

(* There is never a second server of a name, however Start, Stop, Status   *)
(* and the death of servers interleave.                                    *)
OneServerPerName ==
  \A i, j \in Ids : session[i] = "up" /\ session[j] = "up" /\ nameOf[i] = nameOf[j] => i = j

(* No server is lost: one that runs, or whose tools are offered, can be    *)
(* stopped by name once the call at work is over.                          *)
NoServerLost ==
  mu = NoOne => \A i \in Ids : session[i] = "up" \/ offered[i] => clients[nameOf[i]] = i

(* "Close stops every running MCP and removes its tools": when it is done, *)
(* before anybody can call Start again, nothing runs.                      *)
CloseStopsAll ==
  \A c \in Callers : pc[c] = "unlock" /\ op[c] = "Close" =>
    \A i \in Ids : session[i] # "up" /\ ~offered[i]

(* Every call returns.                                                     *)
CallsReturn == \A c \in Callers : pc[c] = "lock" ~> pc[c] = "idle"

=============================================================================
