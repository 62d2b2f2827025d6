----------------------------- MODULE McpClient ------------------------------
(***************************************************************************)
(* One MCP client (src/mcp/mcp_client.go over src/mcp/sdk_client.go): the  *)
(* goroutines that register the server's tools in a shared ToolBox, keep   *)
(* them up to date and take them out again.                                *)
(*                                                                         *)
(*   Main       the caller of NewClient                                    *)
(*   Waiter     the goroutine running sdkClient.wait                       *)
(*   Refreshers the goroutines listChanged starts, one per notification    *)
(*   Closers    callers of Client.Close                                    *)
(*                                                                         *)
(* The server and the other users of the tool box are the environment.     *)
(* The client lists the server's tools without holding its mutex and adds  *)
(* and removes tools one by one under it, so every call on the tool box is *)
(* a step of its own: another owner may come in between.                   *)
(***************************************************************************)
EXTENDS Integers, Sequences, FiniteSets

CONSTANTS
  Names, ValidNames, NoTool,   (* see ToolBoxOps                           *)
  OtherTool,       (* the entry of a tool that is not this client's        *)
  OtherNames,      (* the names other owners register tools under          *)
  ServerTools,     (* the names the server can publish                     *)
  Listings,        (* the tool lists the server can publish: sequences     *)
  IncludedTools, ExcludedTools, NoToolPrefix,   (* ClientConfig            *)
  PlainName,       (* a server tool's sanitized name, prefixed or not      *)
  HashedName,      (* the shortened name that ends in a hash               *)
  LongNames,       (* server tools whose sanitized name is too long        *)
  Main, Waiter, Refreshers, Closers, NoThread,
  ListMayFail,     (* may tools/list fail while the session is up?         *)
  ChangesWhileStarting, (* may the list change before NewClient returns?   *)
  MaxChanges,      (* bound: list changes of the server                    *)
  MaxOthers        (* bound: additions by other owners                     *)

Threads == {Main, Waiter} \cup Refreshers \cup Closers

ASSUME NamesAssumption ==
  /\ ValidNames \subseteq Names
  /\ OtherNames \subseteq ValidNames
  /\ PlainName \in [ServerTools -> Names]
  /\ HashedName \in [ServerTools -> ValidNames]

ASSUME EntriesAssumption ==
  NoTool # OtherTool /\ NoTool \notin ServerTools /\ OtherTool \notin ServerTools

ASSUME ListingsAssumption == Listings \subseteq Seq(ServerTools)

ASSUME ThreadsAssumption ==
  /\ Main # Waiter
  /\ Main \notin Refreshers \cup Closers
  /\ Waiter \notin Refreshers \cup Closers
  /\ Refreshers \cap Closers = {}
  /\ NoThread \notin Threads

ASSUME FlagsAssumption ==
  /\ {NoToolPrefix, ListMayFail, ChangesWhileStarting} \subseteq BOOLEAN
  /\ MaxChanges \in Nat /\ MaxOthers \in Nat

VARIABLES
  box,         (* the shared tools.ToolBox                                 *)
  hasBox,      (* was NewClient given a tool box?                          *)
  connected,   (* Client.connected                                         *)
  boxSet,      (* Client.toolBox # nil                                     *)
  ctools,      (* Client.tools; only membership is ever used               *)
  mu,          (* the holder of Client.mu, or NoThread                     *)
  pc,          (* where each thread is                                     *)
  listed,      (* what each thread's listTools returned                    *)
  todo,        (* the mutex holder's removals still to do                  *)
  specs,       (* the mutex holder's specs still to register               *)
  registered,  (* the mutex holder's local "registered"                    *)
  ready,       (* sdkClient.ready                                          *)
  session,     (* the SDK session: "none", "up", "down"                    *)
  supports,    (* supportsTools: what the handshake declared               *)
  published,   (* the list the server publishes now                        *)
  history,     (* every list it has published                              *)
  notes,       (* tools/list_changed notifications not delivered yet       *)
  changes, others   (* counters for the bounds                             *)

boxVars    == <<box, hasBox, others>>
clientVars == <<connected, boxSet, ctools>>
localVars  == <<todo, specs, registered>>
serverVars == <<session, supports, published, history, notes, changes>>
vars == <<boxVars, clientVars, localVars, serverVars, mu, pc, listed, ready>>

TB == INSTANCE ToolBoxOps

-----------------------------------------------------------------------------
(* Names and filters.                                                      *)

(* Client.excluded *)
Excluded(tool) ==
  \/ IncludedTools # {} /\ tool \notin IncludedTools
  \/ tool \in ExcludedTools

(* Mutant of ToolName: collisions within one registration go unnoticed.    *)
CollidingToolName(tool, taken) ==
  IF tool \notin LongNames THEN PlainName[tool] ELSE HashedName[tool]

(* Client.toolName: the sanitized name unless it is too long or already    *)
(* taken by this very registration, else a truncated one with a hash.      *)
ToolName(tool, taken) ==
  IF tool \notin LongNames /\ PlainName[tool] \notin taken
  THEN PlainName[tool]
  ELSE HashedName[tool]

(* The names and handlers one more spec of a list leaves registered, ...   *)
NoNames == [n \in {} |-> NoTool]

WithTool(reg, tool) ==
  IF Excluded(tool) THEN reg
  ELSE LET name == ToolName(tool, DOMAIN reg)
       IN  [n \in DOMAIN reg \cup {name} |-> IF n = name THEN tool ELSE reg[n]]

(* ... and those of a whole list, when nothing interferes.                 *)
Registration(list) ==
  LET reg[i \in 0..Len(list)] == IF i = 0 THEN NoNames ELSE WithTool(reg[i - 1], list[i])
  IN  reg[Len(list)]

Owned == {n \in Names : box[n] \in ServerTools}

Move(t, to) == pc' = [pc EXCEPT ![t] = to]

-----------------------------------------------------------------------------
Init ==
  /\ box \in [Names -> {NoTool, OtherTool}]
  /\ \A n \in Names : box[n] = OtherTool => n \in OtherNames
  /\ hasBox \in BOOLEAN
  /\ connected = TRUE /\ boxSet = FALSE /\ ctools = {}
  /\ mu = NoThread
  /\ pc = [t \in Threads |-> IF t = Main THEN "connect" ELSE "idle"]
  /\ listed = [t \in Threads |-> <<>>]
  /\ todo = {} /\ specs = <<>> /\ registered = {}
  /\ ready = FALSE /\ session = "none" /\ supports \in BOOLEAN
  /\ published \in Listings /\ history = {published}
  /\ notes = 0 /\ changes = 0 /\ others = 0

-----------------------------------------------------------------------------
(* newClient and newSDKClient, in the caller's goroutine.                  *)

(* The handshake succeeds.  Notifications may arrive from here on.         *)
Connect ==
  /\ pc[Main] = "connect" /\ session = "none"
  /\ session' = "up"
  /\ Move(Main, "handshaken")
  /\ UNCHANGED <<boxVars, clientVars, localVars, mu, listed, ready,
                 supports, published, history, notes, changes>>

(* The server does not start or the handshake fails: there is no client.   *)
ConnectFails ==
  /\ pc[Main] = "connect" /\ session = "none"
  /\ Move(Main, "failed")
  /\ UNCHANGED <<boxVars, clientVars, localVars, serverVars, mu, listed, ready>>

(* Mutant of BecomeReady: nobody waits for the end of the session.         *)
BecomeReadyUnwatched ==
  /\ pc[Main] = "handshaken"
  /\ ready' = TRUE
  /\ Move(Main, IF hasBox /\ supports THEN "list" ELSE "open")
  /\ UNCHANGED <<boxVars, clientVars, localVars, serverVars, mu, listed>>

(* ready.Store(true); go s.wait(); then registerTools unless tb is nil.    *)
BecomeReady ==
  /\ pc[Main] = "handshaken"
  /\ ready' = TRUE
  /\ pc' = [pc EXCEPT ![Waiter] = "wait",
                      ![Main] = IF hasBox /\ supports THEN "list" ELSE "open"]
  /\ UNCHANGED <<boxVars, clientVars, localVars, serverVars, mu, listed>>

-----------------------------------------------------------------------------
(* The callbacks of the SDK.                                               *)

(* listChanged: dropped unless ready, else a goroutine of its own.         *)
DeliverChange ==
  /\ notes > 0
  /\ notes' = notes - 1
  /\ IF ready
     THEN \E r \in Refreshers : pc[r] = "idle" /\ Move(r, "changed")
     ELSE UNCHANGED pc
  /\ UNCHANGED <<boxVars, clientVars, localVars, mu, listed, ready,
                 session, supports, published, history, changes>>

(* onToolsChange reads c.toolBox under the mutex and stops if it is nil.   *)
ToolsChanged(r) ==
  /\ pc[r] = "changed" /\ mu = NoThread
  /\ Move(r, IF boxSet /\ supports THEN "list" ELSE "idle")
  /\ UNCHANGED <<boxVars, clientVars, localVars, serverVars, mu, listed, ready>>

(* wait: the session is over, so onDisconnect runs.                        *)
SessionEnded ==
  /\ pc[Waiter] = "wait" /\ session = "down"
  /\ Move(Waiter, "disconnect")
  /\ UNCHANGED <<boxVars, clientVars, localVars, serverVars, mu, listed, ready>>

-----------------------------------------------------------------------------
(* registerTools, by Main or a Refresher.                                  *)

(* Mutant of AfterRegister: newClient returns its error without c.Close(). *)
AfterRegisterUnclosed(t, ok) ==
  IF t # Main THEN "idle" ELSE IF ok THEN "open" ELSE "failed"

(* What the caller of registerTools does next: newClient closes the client *)
(* on an error, onToolsChange ignores it.                                  *)
AfterRegister(t, ok) ==
  IF t # Main THEN "idle" ELSE IF ok THEN "open" ELSE "close"

(* listTools, outside the mutex. It reads the list page by page; the pages *)
(* are one read here, so a list that mixes two of the server's is left     *)
(* out.                                                                    *)
ListTools(t) ==
  /\ pc[t] = "list" /\ session = "up"
  /\ listed' = [listed EXCEPT ![t] = published]
  /\ Move(t, "lock")
  /\ UNCHANGED <<boxVars, clientVars, localVars, serverVars, mu, ready>>

ListFails(t) ==
  /\ pc[t] = "list" /\ (session = "down" \/ ListMayFail)
  /\ Move(t, AfterRegister(t, FALSE))
  /\ UNCHANGED <<boxVars, clientVars, localVars, serverVars, mu, listed, ready>>

(* Mutant of LockToRegister: connected is not checked again.               *)
LockToRegisterUnchecked(t) ==
  /\ pc[t] = "lock" /\ mu = NoThread
  /\ mu' = t
  /\ todo' = ctools
  /\ specs' = listed[t]
  /\ registered' = {}
  /\ Move(t, "remove")
  /\ listed' = [listed EXCEPT ![t] = <<>>]
  /\ UNCHANGED <<boxVars, clientVars, serverVars, ready>>

(* mu.Lock() and the check of connected.  A client that disconnected in    *)
(* the meantime registers nothing and reports no error.                    *)
LockToRegister(t) ==
  /\ pc[t] = "lock" /\ mu = NoThread
  /\ \/ /\ connected
        /\ mu' = t
        /\ todo' = ctools
        /\ specs' = listed[t]
        /\ registered' = {}
        /\ Move(t, "remove")
     \/ /\ ~connected
        /\ Move(t, AfterRegister(t, TRUE))
        /\ UNCHANGED <<mu, localVars>>
  /\ listed' = [listed EXCEPT ![t] = <<>>]
  /\ UNCHANGED <<boxVars, clientVars, serverVars, ready>>

(* One iteration of removeTools, for registerTools and for disconnected.   *)
RemoveOne(t) ==
  /\ pc[t] \in {"remove", "dropping"}
  /\ \E n \in todo :
       /\ box' = TB!RemoveTool(box, n)
       /\ todo' = todo \ {n}
  /\ UNCHANGED <<hasBox, others, clientVars, specs, registered, serverVars,
                 mu, pc, listed, ready>>

(* The loop of removeTools is over: c.tools = nil.                         *)
RemovedAll(t) ==
  /\ pc[t] = "remove" /\ todo = {}
  /\ ctools' = {}
  /\ Move(t, "add")
  /\ UNCHANGED <<boxVars, connected, boxSet, localVars, serverVars, mu, listed,
                 ready>>

(* The loop over specs skips what the configuration leaves out.            *)
SkipExcluded(t) ==
  /\ pc[t] = "add" /\ specs # <<>> /\ Excluded(Head(specs))
  /\ specs' = Tail(specs)
  /\ UNCHANGED <<boxVars, clientVars, todo, registered, serverVars, mu, pc,
                 listed, ready>>

NextSpecAdded == specs # <<>> /\ ~Excluded(Head(specs))

(* addTool looks the name up first when tools keep their own names ...     *)
CheckName(t) ==
  /\ pc[t] = "add" /\ NextSpecAdded /\ NoToolPrefix
  /\ Move(t, IF TB!HasTool(box, ToolName(Head(specs), registered))
             THEN "rollback" ELSE "put")
  /\ UNCHANGED <<boxVars, clientVars, localVars, serverVars, mu, listed, ready>>

(* ... and then adds the tool, which replaces what the name holds by now.  *)
AddOne(t) ==
  /\ pc[t] = (IF NoToolPrefix THEN "put" ELSE "add") /\ NextSpecAdded
  /\ LET name == ToolName(Head(specs), registered) IN
     /\ box' = TB!AddTool(box, name, Head(specs))
     /\ IF TB!AddAccepts(name)
        THEN /\ registered' = registered \cup {name}
             /\ specs' = Tail(specs)
             /\ Move(t, "add")
        ELSE Move(t, "rollback") /\ UNCHANGED <<registered, specs>>
  /\ UNCHANGED <<hasBox, others, clientVars, todo, serverVars, mu, listed, ready>>

(* Every spec is registered: remember the box and the names, and unlock.   *)
Commit(t) ==
  /\ pc[t] = "add" /\ specs = <<>>
  /\ boxSet' = TRUE /\ ctools' = registered
  /\ registered' = {}
  /\ mu' = NoThread
  /\ Move(t, AfterRegister(t, TRUE))
  /\ UNCHANGED <<boxVars, connected, todo, specs, serverVars, listed, ready>>

(* A tool could not be added: take the ones added so far out, one by one   *)
(* and return the error.                                                   *)
RollbackOne(t) ==
  /\ pc[t] = "rollback"
  /\ \E n \in registered :
       /\ box' = TB!RemoveTool(box, n)
       /\ registered' = registered \ {n}
  /\ UNCHANGED <<hasBox, others, clientVars, todo, specs, serverVars, mu, pc,
                 listed, ready>>

RolledBack(t) ==
  /\ pc[t] = "rollback" /\ registered = {}
  /\ specs' = <<>>
  /\ mu' = NoThread
  /\ Move(t, AfterRegister(t, FALSE))
  /\ UNCHANGED <<boxVars, clientVars, todo, registered, serverVars, listed, ready>>

-----------------------------------------------------------------------------
(* Close and disconnected.                                                 *)

(* A caller that holds the client calls Close.                             *)
CallClose(c) ==
  /\ pc[c] = "idle" /\ pc[Main] = "open"
  /\ Move(c, "close")
  /\ UNCHANGED <<boxVars, clientVars, localVars, serverVars, mu, listed, ready>>

(* sdkClient.close: ready.Store(false) ...                                 *)
Unready(t) ==
  /\ pc[t] = "close"
  /\ ready' = FALSE
  /\ Move(t, "closing")
  /\ UNCHANGED <<boxVars, clientVars, localVars, serverVars, mu, listed>>

(* ... and session.Close().                                                *)
CloseSession(t) ==
  /\ pc[t] = "closing"
  /\ session' = "down"
  /\ Move(t, "disconnect")
  /\ UNCHANGED <<boxVars, clientVars, localVars, mu, listed, ready,
                 supports, published, history, notes, changes>>

(* disconnected: take the mutex, remove the tools, connected = false.      *)
LockToDisconnect(t) ==
  /\ pc[t] = "disconnect" /\ mu = NoThread
  /\ mu' = t
  /\ todo' = ctools
  /\ Move(t, "dropping")
  /\ UNCHANGED <<boxVars, clientVars, specs, registered, serverVars, listed, ready>>

(* Mutant of Disconnected: c.tools is not reset.                           *)
DisconnectedKeepingNames(t) ==
  /\ pc[t] = "dropping" /\ todo = {}
  /\ connected' = FALSE
  /\ mu' = NoThread
  /\ Move(t, IF t = Main THEN "failed" ELSE "closed")
  /\ UNCHANGED <<boxVars, boxSet, ctools, localVars, serverVars, listed, ready>>

Disconnected(t) ==
  /\ pc[t] = "dropping" /\ todo = {}
  /\ ctools' = {} /\ connected' = FALSE
  /\ mu' = NoThread
  /\ Move(t, IF t = Main THEN "failed" ELSE "closed")
  /\ UNCHANGED <<boxVars, boxSet, localVars, serverVars, listed, ready>>

-----------------------------------------------------------------------------
(* The environment: the server and the other owners of the tool box.       *)

ServerChangesList ==
  /\ session = "up" /\ changes < MaxChanges
  /\ ChangesWhileStarting \/ pc[Main] = "open"
  /\ published' \in Listings \ {published}
  /\ history' = history \cup {published'}
  /\ notes' = notes + 1 /\ changes' = changes + 1
  /\ UNCHANGED <<boxVars, clientVars, localVars, mu, pc, listed, ready,
                 session, supports>>

ServerExits ==
  /\ session = "up"
  /\ session' = "down"
  /\ UNCHANGED <<boxVars, clientVars, localVars, mu, pc, listed, ready,
                 supports, published, history, notes, changes>>

OtherAdds(n) ==
  /\ others < MaxOthers /\ n \in OtherNames
  /\ box' = TB!AddTool(box, n, OtherTool)
  /\ others' = others + 1
  /\ UNCHANGED <<hasBox, clientVars, localVars, serverVars, mu, pc, listed, ready>>

OtherRemoves(n) ==
  /\ box[n] = OtherTool
  /\ box' = TB!RemoveTool(box, n)
  /\ UNCHANGED <<hasBox, others, clientVars, localVars, serverVars, mu, pc,
                 listed, ready>>

-----------------------------------------------------------------------------
Registering(t) ==
  \/ ListTools(t) \/ ListFails(t) \/ LockToRegister(t)
  \/ RemoveOne(t) \/ RemovedAll(t) \/ SkipExcluded(t) \/ CheckName(t) \/ AddOne(t)
  \/ Commit(t) \/ RollbackOne(t) \/ RolledBack(t)

Closing(t) ==
  Unready(t) \/ CloseSession(t) \/ LockToDisconnect(t) \/ Disconnected(t)

Starting == Connect \/ ConnectFails \/ BecomeReady

Environment ==
  \/ ServerChangesList \/ ServerExits
  \/ \E n \in Names : OtherAdds(n) \/ OtherRemoves(n)

(* All threads have come to rest for good: nothing is left to happen.      *)
Finished ==
  /\ pc[Main] \in {"open", "failed"} /\ session # "up"
  /\ \A t \in Threads \ {Main} : pc[t] \in {"idle", "closed"}
  /\ UNCHANGED vars

Next ==
  \/ Starting \/ DeliverChange \/ SessionEnded
  \/ \E r \in Refreshers : ToolsChanged(r)
  \/ \E c \in Closers : CallClose(c)
  \/ \E t \in Threads : Registering(t) \/ Closing(t)
  \/ Environment \/ Finished

(* Every goroutine that can take a step eventually does, the SDK delivers  *)
(* its notifications, and tools/list answers or runs into its timeout.     *)
(* Nothing forces the server to change or exit, or a caller to Close.      *)
Fairness ==
  /\ WF_vars(Starting) /\ WF_vars(DeliverChange) /\ WF_vars(SessionEnded)
  /\ \A r \in Refreshers : WF_vars(ToolsChanged(r))
  /\ \A t \in Threads : WF_vars(Registering(t)) /\ WF_vars(Closing(t))

Spec == Init /\ [][Next]_vars
FairSpec == Spec /\ Fairness

-----------------------------------------------------------------------------
(* What must hold.                                                         *)

InLock(t) == pc[t] \in {"remove", "add", "put", "rollback", "dropping"}

(* The type invariant: every variable of the client, its session and the   *)
(* tool box keeps to its type.                                             *)
TypeOK ==
  /\ box \in [Names -> {NoTool, OtherTool} \cup ServerTools]
  /\ {hasBox, connected, boxSet, ready, supports} \subseteq BOOLEAN
  /\ ctools \subseteq Names /\ todo \subseteq Names /\ registered \subseteq Names
  /\ mu \in Threads \cup {NoThread}
  /\ pc \in [Threads -> {"connect", "handshaken", "open", "failed", "idle",
                        "wait", "changed", "list", "lock", "remove", "add",
                        "put", "rollback", "close", "closing", "disconnect",
                        "dropping", "closed"}]
  /\ listed \in [Threads -> Seq(ServerTools)]
  /\ specs \in Seq(ServerTools)
  /\ session \in {"none", "up", "down"}
  /\ published \in Listings /\ history \subseteq Listings
  /\ notes \in Nat /\ changes \in Nat /\ others \in Nat

(* The inductive invariant behind the two safety properties below: who     *)
(* holds the mutex, and which variable accounts for the client's tools in  *)
(* each phase of the holder.                                               *)
MutexInv == \A t \in Threads : InLock(t) <=> mu = t

FreeInv == mu = NoThread => Owned \subseteq ctools /\ registered = {}

RemovingInv ==
  \A t \in Threads : pc[t] \in {"remove", "dropping"} =>
    Owned \subseteq todo /\ todo \subseteq ctools /\ registered = {}

AddingInv ==
  \A t \in Threads : pc[t] \in {"add", "put", "rollback"} =>
    Owned \subseteq registered /\ ctools = {}

ConnectedInv ==
  /\ \A t \in Threads :
       pc[t] \in {"remove", "add", "put", "rollback"} => connected
  /\ ~connected => ctools = {}

StartInv == pc[Main] \in {"connect", "handshaken"} => pc[Waiter] = "idle"

(* The names in use, and the tools they run, are those of a list, whatever *)
(* other owners have taken away.                                           *)
Stands(list, names) ==
  /\ names = DOMAIN Registration(list)
  /\ \A n \in names \cap Owned : box[n] = Registration(list)[n]

(* A list on its way from the server to the tool box was published, the    *)
(* names registered so far are those of its specs so far, and the client's *)
(* are those of a whole one.                                               *)
ListingInv ==
  /\ published \in history
  /\ \A t \in Threads :
       /\ pc[t] = "lock" => listed[t] \in history
       /\ pc[t] = "remove" => specs \in history
       /\ pc[t] \in {"add", "put"} =>
            \E L \in history : \E k \in 0..Len(L) :
              specs = SubSeq(L, k + 1, Len(L)) /\ Stands(SubSeq(L, 1, k), registered)
  /\ ctools # {} => \E L \in history : Stands(L, ctools)

(* The inductive invariant: the parts above, and a client that has         *)
(* registered tools knows the box they are in, or Close could not remove   *)
(* them.                                                                   *)
IInv ==
  /\ TypeOK /\ StartInv /\ MutexInv /\ FreeInv /\ RemovingInv /\ AddingInv /\ ConnectedInv
  /\ ctools # {} => boxSet

(* Once Client.Connected reports false no tool of the client is left in    *)
(* the tool box, however late a listTools answer arrives: registerTools    *)
(* rechecks connected under the mutex before it adds anything.             *)
NoToolsAfterDisconnect == ~connected => Owned = {}

(* Every tool of the client in the box is one that c.tools, or the         *)
(* registration in progress, remembers: nothing is left that no later      *)
(* removeTools would take out, across refresh, rollback and Close.         *)
OwnedAreTracked == Owned \subseteq ctools \cup registered

(* Between registrations the client stands for exactly one list the server *)
(* published: filtered, with one name per tool even when names collide,    *)
(* each name running that list's tool, and never a mixture of two lists.   *)
OneListing ==
  mu = NoThread /\ ctools # {} =>
    \E L \in history :
      /\ ctools = DOMAIN Registration(L)
      /\ \A i \in 1..Len(L) : Excluded(L[i]) \/ \E n \in ctools : Registration(L)[n] = L[i]
      /\ \A n \in ctools \cap Owned : box[n] = Registration(L)[n]

(* A NewClient that failed stopped the server and left none of its tools.  *)
FailedLeavesNothing == pc[Main] = "failed" => Owned = {} /\ session # "up"

(* The detailed client implements the abstract promise.                    *)
Abstract == INSTANCE ToolRegistration WITH
  Catalogs <- {DOMAIN Registration(L) : L \in Listings},
  live <- connected, catalog <- ctools

(* Through the mapping above, every behaviour of the client is one of      *)
(* ToolRegistration: the catalogue changes as a whole, to one listing.     *)
ImplementsRegistration == Abstract!Spec

(* A server that goes away leaves no tools behind, whoever notices first,  *)
(* and Close returns, however many callers and refreshes are about.        *)
EndCompletes ==
  /\ session = "down" ~> ~connected /\ Owned = {}
  /\ \A c \in Closers : pc[c] = "close" ~> pc[c] = "closed"

(* "A server that changes its tool list gets its tools registered again    *)
(* automatically": while the server stays up, the registered names end up  *)
(* being those of the list it publishes.                                   *)
Settled ==
  pc[Main] = "open" /\ hasBox /\ supports /\ session = "up" =>
    ctools = DOMAIN Registration(published)

(* "the client updates the registered tools" (README): the tool box        *)
(* settles on the list the server publishes.                               *)
Converges == <>[]Settled
=============================================================================
