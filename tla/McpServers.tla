----------------------------- MODULE McpServers -----------------------------
(***************************************************************************)
(* The servers of an mcp.Manager and the one tool box they all register    *)
(* their tools in (src/mcp/manager.go over src/mcp/mcp_client.go).         *)
(*                                                                         *)
(* McpManager says of a client only whether its tools are offered.  Here   *)
(* its tools come into the box and go out of it one by one, by name, under *)
(* the mutex of that client and of no other, and what a client takes out   *)
(* is what its own list of names says: nothing in the box tells whose a    *)
(* tool is.  The goroutine that waits for the end of a session runs        *)
(* disconnected some time after it, also when Close has done so before and *)
(* a new client of the same name is up.                                    *)
(*                                                                         *)
(* Every step is one of McpManager or leaves its variables alone.          *)
(***************************************************************************)
EXTENDS McpManager

CONSTANTS
  ToolNames,
  ToolsOf,     (* the names the tools of each server are registered under  *)
  NoPrefix,    (* the servers configured with NoToolPrefix                 *)
  Waiter

ASSUME ServersAssumption ==
  /\ ToolsOf \in [Names -> SUBSET ToolNames] /\ NoPrefix \subseteq Names
  /\ Waiter \notin Callers \cup {NoOne}

VARIABLES
  box,         (* the client that each name of the tool box runs           *)
  tools,       (* Client.tools of each client                              *)
  lock,        (* who holds Client.mu of each client                       *)
  drop,        (* the names the loop of removeTools has left, per client   *)
  waiting,     (* the clients whose wait goroutine is not done             *)
  left, added, failing,  (* registerTools: names still to add, the local   *)
               (* "registered", and whether an Add failed                  *)
  checked      (* the name addTool has found free and not yet added        *)

boxVars == <<box, tools, lock, drop, waiting, left, added, failing, checked>>
serversVars == <<vars, boxVars>>

ServersInit ==
  /\ Init
  /\ box = [t \in ToolNames |-> NoClient]
  /\ tools = [i \in Ids |-> {}] /\ lock = [i \in Ids |-> NoOne]
  /\ drop = [i \in Ids |-> {}] /\ waiting = {} /\ left = {} /\ added = {}
  /\ failing = FALSE /\ checked = {}

Free(i) == lock[i] = NoOne
(* disconnected holds the mutex of client i.                               *)
Removing(i) == lock[i] = Waiter \/ (lock[i] \in Callers /\ pc[lock[i]] = "close")
Without(t) == [box EXCEPT ![t] = NoClient]

-----------------------------------------------------------------------------
(* newClient.                                                              *)

(* The server is up and `go s.wait()` runs.                                *)
LaunchWatched(c) ==
  /\ Launch(c)
  /\ waiting' = waiting \cup {created + 1}
  /\ UNCHANGED <<box, tools, lock, drop, left, added, failing, checked>>

(* registerTools has its list and takes c.mu; the client is connected.     *)
LockToRegister(c) ==
  /\ pc[c] = "register" /\ Free(cur) /\ connected[cur]
  /\ lock' = [lock EXCEPT ![cur] = c]
  /\ left' = ToolsOf[arg[c]] /\ added' = {}
  /\ UNCHANGED <<vars, box, tools, drop, waiting, failing, checked>>

Adding(c) == pc[c] = "register" /\ lock[cur] = c

Taken(c, t) == arg[c] \in NoPrefix /\ box[t] # NoClient

(* addTool: without a prefix a name must be free, with one it is taken     *)
(* over from whoever has it.  The box is let go between the look and the   *)
(* Add, which replaces what has come under the name meanwhile.             *)
FindFree(c) ==
  /\ Adding(c) /\ ~failing /\ arg[c] \in NoPrefix /\ checked = {}
  /\ \E t \in left : box[t] = NoClient /\ checked' = {t}
  /\ UNCHANGED <<vars, box, tools, lock, drop, waiting, left, added, failing>>

AddOne(c) ==
  /\ Adding(c) /\ ~failing
  /\ \E t \in left :
       /\ arg[c] \in NoPrefix => t \in checked
       /\ box' = [box EXCEPT ![t] = cur]
       /\ left' = left \ {t} /\ added' = added \cup {t}
  /\ checked' = {}
  /\ UNCHANGED <<vars, tools, lock, drop, waiting, failing>>

(* Every tool is added, or the client lost its server before it took c.mu. *)
RegisteredAll(c) ==
  /\ \/ Adding(c) /\ left = {}
     \/ pc[c] = "register" /\ Free(cur) /\ ~connected[cur]
  /\ Registered(c)
  /\ tools' = [tools EXCEPT ![cur] = added]
  /\ lock' = [lock EXCEPT ![cur] = NoOne] /\ added' = {}
  /\ UNCHANGED <<box, drop, waiting, left, failing, checked>>

(* ErrToolNameTaken, or a name that Add refuses: what was added goes.      *)
AddFails(c) ==
  /\ Adding(c) /\ ~failing /\ left # {}
  /\ failing' = TRUE /\ checked' = {}
  /\ UNCHANGED <<vars, box, tools, lock, drop, waiting, left, added>>

RollbackOne(c) ==
  /\ Adding(c) /\ failing
  /\ \E t \in added : box' = Without(t) /\ added' = added \ {t}
  /\ UNCHANGED <<vars, tools, lock, drop, waiting, left, failing, checked>>

(* The list did not come, or everything is rolled back.                    *)
RegisterFailed(c) ==
  /\ \/ Adding(c) /\ failing /\ added = {}
     \/ pc[c] = "register" /\ Free(cur)
  /\ RegisterFails(c)
  /\ lock' = [lock EXCEPT ![cur] = NoOne] /\ left' = {} /\ failing' = FALSE
  /\ UNCHANGED <<box, tools, drop, waiting, added, checked>>

-----------------------------------------------------------------------------
(* Client.Close and disconnected.                                          *)

(* session.close() returns when the session is over.                       *)
CloseSession(c) ==
  /\ pc[c] = "close" /\ ServerDies(cur)
  /\ UNCHANGED boxVars

(* disconnected takes c.mu, in Close ...                                   *)
LockToClose(c) ==
  /\ pc[c] = "close" /\ session[cur] = "down" /\ Free(cur)
  /\ lock' = [lock EXCEPT ![cur] = c] /\ drop' = [drop EXCEPT ![cur] = tools[cur]]
  /\ UNCHANGED <<vars, box, tools, waiting, left, added, failing, checked>>

(* ... and in the goroutine that waited for the session, which may be late.*)
LockToDisconnect(i) ==
  /\ i \in waiting /\ session[i] = "down" /\ Free(i)
  /\ lock' = [lock EXCEPT ![i] = Waiter] /\ drop' = [drop EXCEPT ![i] = tools[i]]
  /\ UNCHANGED <<vars, box, tools, waiting, left, added, failing, checked>>

(* One iteration of removeTools.                                           *)
DropOne(i) ==
  /\ \E t \in drop[i] : box' = Without(t) /\ drop' = [drop EXCEPT ![i] = drop[i] \ {t}]
  /\ UNCHANGED <<vars, tools, lock, waiting, left, added, failing, checked>>

(* Mutant of Forget: c.tools is not reset.                                 *)
ForgetNothing(i) == UNCHANGED tools /\ lock' = [lock EXCEPT ![i] = NoOne]

(* c.tools = nil, and the deferred Unlock.                                 *)
Forget(i) == tools' = [tools EXCEPT ![i] = {}] /\ lock' = [lock EXCEPT ![i] = NoOne]

CloseDone(c) ==
  /\ pc[c] = "close" /\ lock[cur] = c /\ drop[cur] = {}
  /\ Forget(cur) /\ CloseClient(c)
  /\ UNCHANGED <<box, drop, waiting, left, added, failing, checked>>

(* For a client that Close was faster with, nothing is left to do.         *)
DisconnectDone(i) ==
  /\ lock[i] = Waiter /\ drop[i] = {}
  /\ Forget(i) /\ waiting' = waiting \ {i}
  /\ Disconnected(i) \/ (~connected[i] /\ UNCHANGED vars)
  /\ UNCHANGED <<box, drop, left, added, failing, checked>>

-----------------------------------------------------------------------------
OutsideBox(c) ==
  /\ \/ Unlock(c) \/ Register(c) \/ NotRegistered(c) \/ Stop(c) \/ Start(c)
     \/ LaunchFails(c) \/ Round(c) \/ LoopEnds(c)
  /\ UNCHANGED boxVars

Registering(c) ==
  \/ LaunchWatched(c) \/ LockToRegister(c) \/ FindFree(c) \/ AddOne(c) \/ AddFails(c)
  \/ RollbackOne(c) \/ RegisteredAll(c) \/ RegisterFailed(c)

Closing(c) ==
  \/ CloseSession(c) \/ LockToClose(c) \/ CloseDone(c)
  \/ (pc[c] = "close" /\ lock[cur] = c /\ DropOne(cur))

ServersStep(c) == OutsideBox(c) \/ Registering(c) \/ Closing(c)

Disconnecting(i) ==
  \/ LockToDisconnect(i) \/ DisconnectDone(i)
  \/ (lock[i] = Waiter /\ DropOne(i))

ServersNext ==
  \/ \E c \in Callers :
       ((Call(c) \/ Lock(c)) /\ UNCHANGED boxVars) \/ ServersStep(c)
  \/ \E i \in Ids : Disconnecting(i) \/ (ServerDies(i) /\ UNCHANGED boxVars)

(* The fairness of McpManager: the holder of the mutex and the goroutines  *)
(* that wait for a session make progress, and nobody waits for the mutex   *)
(* for ever.  Client.mu needs no more: two at most ever want the same one. *)
ServersFairness ==
  /\ \A c \in Callers :
       WF_serversVars(ServersStep(c)) /\ SF_serversVars(Lock(c) /\ UNCHANGED boxVars)
  /\ \A i \in Ids : WF_serversVars(Disconnecting(i))

ServersSpec == ServersInit /\ [][ServersNext]_serversVars /\ ServersFairness

-----------------------------------------------------------------------------
(* What must hold, beside the properties of McpManager.                    *)

Shared(n, t) == \E m \in Names \ {n} : t \in ToolsOf[m]

(* The types of the box and of what the clients and their goroutines know. *)
BoxTypeOK ==
  /\ box \in [ToolNames -> Ids \cup {NoClient}]
  /\ tools \in [Ids -> SUBSET ToolNames] /\ drop \in [Ids -> SUBSET ToolNames]
  /\ lock \in [Ids -> Callers \cup {Waiter, NoOne}]
  /\ left \subseteq ToolNames /\ added \subseteq ToolNames /\ failing \in BOOLEAN

(* Client.mu is held by the call that has the client in hand, or by its    *)
(* own goroutine once the session is over.                                 *)
LockInv ==
  \A i \in Ids :
    /\ lock[i] \in Callers => cur = i /\ pc[lock[i]] \in {"register", "close"}
    /\ lock[i] = Waiter => session[i] = "down"

(* The registration in progress, if there is one.                          *)
AddingInv ==
  /\ \A c \in Callers : pc[c] = "register" => nameOf[cur] = arg[c] /\ tools[cur] = {} /\ ~offered[cur]
  /\ \A c \in Callers : Adding(c) =>
       /\ connected[cur] /\ added \cup left \subseteq ToolsOf[arg[c]]
       /\ IF failing THEN left # {} ELSE added \cup left = ToolsOf[arg[c]]
       /\ \A t \in added : box[t] = cur \/ Shared(arg[c], t)
  /\ added # {} \/ failing => \E c \in Callers : Adding(c)

(* What a client remembers is what its server has, and only while it is    *)
(* connected.                                                              *)
KnownInv ==
  \A i \in Ids :
    /\ tools[i] # {} => connected[i] /\ nameOf[i] \in Names /\ tools[i] = ToolsOf[nameOf[i]]
    /\ offered[i] => nameOf[i] \in Names /\ tools[i] = ToolsOf[nameOf[i]]
    /\ drop[i] \subseteq tools[i]

(* The box runs what a client knows it has there; while it is removing,    *)
(* what the loop has left.                                                 *)
BoxInv ==
  /\ \A t \in ToolNames : box[t] # NoClient =>
       t \in tools[box[t]] \/ (box[t] = cur /\ t \in added)
  /\ \A i \in Ids, t \in ToolNames :
       box[t] = i /\ t \in tools[i] /\ Removing(i) => t \in drop[i]
  /\ \A i \in Ids : Free(i) => \A t \in tools[i] : box[t] = i \/ Shared(nameOf[i], t)

(* The inductive invariant, beside the one of McpManager.                  *)
ServersInv == BoxTypeOK /\ LockInv /\ AddingInv /\ KnownInv /\ BoxInv

(* A server that runs keeps its tools in the box, run by the client that   *)
(* is up, whatever is stopped, dies or is started again meanwhile: the end *)
(* of an earlier client of the name, noticed late, takes nothing away.     *)
(* Only a name that another server registers too can be lost, to it.  And  *)
(* the box runs nothing of a client that does not know it has it there.    *)
ToolsStay ==
  /\ \A i \in Ids : offered[i] /\ Free(i) =>
       \A t \in ToolsOf[nameOf[i]] : box[t] = i \/ Shared(nameOf[i], t)
  /\ \A t \in ToolNames : box[t] # NoClient =>
       t \in tools[box[t]] \/ (box[t] = cur /\ t \in added)
=============================================================================
