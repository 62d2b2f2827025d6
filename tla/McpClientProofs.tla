-------------------------- MODULE McpClientProofs ---------------------------
(***************************************************************************)
(* Proofs about McpClient, for every set of threads, names and lists: its  *)
(* types, the exclusion its mutex gives, that a client that is no longer   *)
(* connected has no tool in the box and never gets one again, that a       *)
(* NewClient that failed leaves nothing behind, and that between           *)
(* registrations a client stands for one whole list of its server.         *)
(***************************************************************************)
EXTENDS McpClient, SequenceTheorems, WellFoundedInduction, TLAPS

-----------------------------------------------------------------------------
(* Induction and recursion over 0..n without an operator as a parameter:   *)
(* the property is a set, the step of the recursion a function.            *)

(* Every set of natural numbers that is not empty has a least element.     *)
LEMMA LeastNatural ==
  ASSUME NEW S \in SUBSET Nat, S # {}
  PROVE  \E n \in S : \A m \in S : n <= m
<1> DEFINE less == {p \in Nat \X Nat : p[1] < p[2]}
<1>1. IsWellFoundedOn(less, Nat)
  BY NatLessThanWellFounded DEF OpToRel
<1> HIDE DEF less
<1>2. PICK n \in S : \A m \in S : <<m, n>> \notin less
  BY <1>1, WFMin
<1>3. ASSUME NEW m \in S PROVE n <= m
  <2>1. n \in Nat /\ m \in Nat /\ <<m, n>> \in Nat \X Nat /\ <<m, n>> \notin less
    BY <1>2
  <2>2. ~(m < n)
    BY <2>1 DEF less
  <2> QED
    BY <2>1, <2>2
<1> QED
  BY <1>3

(* A set that holds 0 and with each number the next holds them all.        *)
LEMMA UpTo ==
  ASSUME NEW N \in Nat, NEW S, 0 \in S, \A n \in 0..N-1 : n \in S => n + 1 \in S
  PROVE  \A n \in 0..N : n \in S
<1> DEFINE missing == {n \in 0..N : n \notin S}
<1> SUFFICES ASSUME missing # {} PROVE FALSE
  OBVIOUS
<1>1. missing \in SUBSET Nat
  OBVIOUS
<1>2. PICK n \in missing : \A m \in missing : n <= m
  BY <1>1, LeastNatural
<1>3. n \in 0..N /\ n \notin S /\ n # 0
  OBVIOUS
<1>4. n - 1 \in 0..N-1 /\ n - 1 \notin missing
  BY <1>2, <1>3
<1>5. n - 1 \in S
  BY <1>4
<1> QED
  BY <1>3, <1>4, <1>5

(* The results f of a loop over 1..N, from before its first turn to after  *)
(* its last: each turn takes the result so far to the next one.            *)
LoopOf(f, N, D, base, step) ==
  /\ f \in [0..N -> D] /\ f[0] = base
  /\ \A i \in 1..N : f[i] = step[<<i, f[i - 1]>>]

(* Every loop has them.                                                    *)
LEMMA LoopExists ==
  ASSUME NEW N \in Nat, NEW D, NEW base \in D, NEW step \in [(1..N) \X D -> D]
  PROVE  \E f : LoopOf(f, N, D, base, step)
<1> USE DEF LoopOf
<1> DEFINE Loop(f, n) == LoopOf(f, n, D, base, step)
           S == {n \in 0..N : \E f : Loop(f, n)}
<1>1. 0 \in S
  <2>1. Loop([i \in 0..0 |-> base], 0)
    OBVIOUS
  <2>2. 0 \in 0..N
    OBVIOUS
  <2> HIDE DEF Loop
  <2> QED
    BY <2>1, <2>2
<1>2. ASSUME NEW n \in 0..N-1, n \in S PROVE n + 1 \in S
  <2>1. PICK f : Loop(f, n)
    BY <1>2
  <2> DEFINE g == [i \in 0..n+1 |-> IF i = n + 1 THEN step[<<n + 1, f[n]>>] ELSE f[i]]
  <2>2. n + 1 \in 1..N /\ n \in 0..n /\ f[n] \in D
    BY <2>1
  <2>3. step[<<n + 1, f[n]>>] \in D
    BY <2>2
  <2>4. g \in [0..n+1 -> D]
    BY <2>1, <2>3
  <2>5. g[0] = base
    BY <2>1
  <2>6. ASSUME NEW i \in 1..n+1 PROVE g[i] = step[<<i, g[i - 1]>>]
    <3>1. i - 1 \in 0..n /\ g[i - 1] = f[i - 1]
      OBVIOUS
    <3>2. CASE i = n + 1
      <4>1. g[i] = step[<<n + 1, f[n]>>] /\ i - 1 = n
        BY <3>2
      <4> QED
        BY <3>1, <3>2, <4>1
    <3>3. CASE i # n + 1
      <4>1. i \in 1..n
        BY <3>3
      <4> QED
        BY <2>1, <3>1, <4>1
    <3> QED
      BY <3>2, <3>3
  <2>7. Loop(g, n + 1)
    BY <2>4, <2>5, <2>6
  <2>8. n + 1 \in 0..N
    BY <2>2
  <2> HIDE DEF Loop, g
  <2> QED
    BY <2>7, <2>8
<1> HIDE DEF S
<1>3. N \in S
  BY <1>1, <1>2, UpTo
<1> QED
  BY <1>3 DEF S

-----------------------------------------------------------------------------
(* Types and the mutex.                                                    *)

USE DEF Move, InLock, Threads

(* The step relation keeps every variable in its type.                     *)
LEMMA TypeStep == TypeOK /\ [Next]_vars => TypeOK'
<1> SUFFICES ASSUME TypeOK, [Next]_vars PROVE TypeOK'
  OBVIOUS
<1> USE NamesAssumption, EntriesAssumption, ListingsAssumption, ThreadsAssumption
<1>1. CASE UNCHANGED vars
  BY <1>1 DEF TypeOK, vars, boxVars, clientVars, localVars, serverVars
<1>2. CASE Starting
  BY <1>2 DEF TypeOK, Starting, Connect, ConnectFails, BecomeReady,
              boxVars, clientVars, localVars, serverVars
<1>3. CASE DeliverChange
  <2>1. CASE ready
    <3>1. PICK r \in Refreshers : pc' = [pc EXCEPT ![r] = "changed"]
      BY <1>3, <2>1 DEF DeliverChange, Move
    <3> QED
      BY <1>3, <3>1 DEF TypeOK, DeliverChange, boxVars, clientVars, localVars
  <2>2. CASE ~ready
    BY <1>3, <2>2 DEF TypeOK, DeliverChange, boxVars, clientVars, localVars
  <2> QED
    BY <2>1, <2>2
<1>4. CASE SessionEnded
  BY <1>4 DEF TypeOK, SessionEnded, boxVars, clientVars, localVars, serverVars
<1>5. ASSUME NEW r \in Refreshers, ToolsChanged(r) PROVE TypeOK'
  BY <1>5 DEF TypeOK, ToolsChanged, boxVars, clientVars, localVars, serverVars
<1>6. ASSUME NEW c \in Closers, CallClose(c) PROVE TypeOK'
  BY <1>6 DEF TypeOK, CallClose, boxVars, clientVars, localVars, serverVars
<1>7. ASSUME NEW t \in Threads, Registering(t) PROVE TypeOK'
  <2>1. CASE ListTools(t)
    BY <1>7, <2>1 DEF TypeOK, ListTools, boxVars, clientVars, localVars, serverVars
  <2>2. CASE ListFails(t)
    BY <1>7, <2>2 DEF TypeOK, ListFails, AfterRegister, boxVars, clientVars,
                      localVars, serverVars
  <2>3. CASE LockToRegister(t)
    BY <1>7, <2>3 DEF TypeOK, LockToRegister, AfterRegister, boxVars, clientVars,
                      localVars, serverVars
  <2>4. CASE RemoveOne(t)
    BY <1>7, <2>4 DEF TypeOK, RemoveOne, TB!RemoveTool, clientVars, serverVars
  <2>5. CASE RemovedAll(t)
    BY <1>7, <2>5 DEF TypeOK, RemovedAll, boxVars, localVars, serverVars
  <2>6. CASE SkipExcluded(t)
    BY <1>7, <2>6 DEF TypeOK, SkipExcluded, boxVars, clientVars, serverVars
  <2>7. CASE CheckName(t)
    BY <1>7, <2>7 DEF TypeOK, CheckName, boxVars, clientVars, localVars, serverVars
  <2>8. CASE AddOne(t)
    <3> DEFINE name == ToolName(Head(specs), registered)
    <3>1. Head(specs) \in ServerTools /\ Tail(specs) \in Seq(ServerTools)
      BY <2>8 DEF TypeOK, AddOne, NextSpecAdded
    <3>2. name \in Names
      BY <3>1 DEF ToolName
    <3> QED
      BY <1>7, <2>8, <3>1, <3>2
      DEF TypeOK, AddOne, TB!AddTool, TB!AddAccepts, clientVars, serverVars
  <2>9. CASE Commit(t)
    BY <1>7, <2>9 DEF TypeOK, Commit, AfterRegister, boxVars, serverVars
  <2>10. CASE RollbackOne(t)
    BY <1>7, <2>10 DEF TypeOK, RollbackOne, TB!RemoveTool, clientVars, serverVars
  <2>11. CASE RolledBack(t)
    BY <1>7, <2>11 DEF TypeOK, RolledBack, AfterRegister, boxVars, clientVars,
                       serverVars
  <2> QED
    BY <1>7, <2>1, <2>2, <2>3, <2>4, <2>5, <2>6, <2>7, <2>8, <2>9, <2>10, <2>11
    DEF Registering
<1>8. ASSUME NEW t \in Threads, Closing(t) PROVE TypeOK'
  <2>1. CASE Unready(t)
    BY <1>8, <2>1 DEF TypeOK, Unready, boxVars, clientVars, localVars, serverVars
  <2>2. CASE CloseSession(t)
    BY <1>8, <2>2 DEF TypeOK, CloseSession, boxVars, clientVars, localVars
  <2>3. CASE LockToDisconnect(t)
    BY <1>8, <2>3 DEF TypeOK, LockToDisconnect, boxVars, clientVars, serverVars
  <2>4. CASE Disconnected(t)
    BY <1>8, <2>4 DEF TypeOK, Disconnected, boxVars, localVars, serverVars
  <2> QED
    BY <1>8, <2>1, <2>2, <2>3, <2>4 DEF Closing
<1>9. CASE ServerChangesList \/ ServerExits
  <2>1. CASE ServerChangesList
    BY <2>1 DEF TypeOK, ServerChangesList, boxVars, clientVars, localVars
  <2>2. CASE ServerExits
    BY <2>2 DEF TypeOK, ServerExits, boxVars, clientVars, localVars
  <2> QED
    BY <1>9, <2>1, <2>2
<1>10. ASSUME NEW n \in Names, OtherAdds(n) \/ OtherRemoves(n) PROVE TypeOK'
  <2>1. CASE OtherAdds(n)
    BY <1>10, <2>1 DEF TypeOK, OtherAdds, TB!AddTool, TB!AddAccepts, clientVars,
                       localVars, serverVars
  <2>2. CASE OtherRemoves(n)
    BY <1>10, <2>2 DEF TypeOK, OtherRemoves, TB!RemoveTool, clientVars, localVars,
                       serverVars
  <2> QED
    BY <1>10, <2>1, <2>2
<1> QED
  BY <1>1, <1>2, <1>3, <1>4, <1>5, <1>6, <1>7, <1>8, <1>9, <1>10
  DEF Next, Environment, Finished

(* The initial state is well typed.                                        *)
LEMMA TypeInit == Init => TypeOK
<1> SUFFICES ASSUME Init PROVE TypeOK
  OBVIOUS
<1>1. box \in [Names -> {NoTool, OtherTool} \cup ServerTools]
  BY DEF Init
<1>2. /\ {hasBox, connected, boxSet, ready, supports} \subseteq BOOLEAN
      /\ ctools \subseteq Names /\ todo \subseteq Names /\ registered \subseteq Names
      /\ mu \in Threads \cup {NoThread} /\ session \in {"none", "up", "down"}
      /\ published \in Listings /\ history \subseteq Listings
      /\ notes \in Nat /\ changes \in Nat /\ others \in Nat
  BY DEF Init
<1>3. listed \in [Threads -> Seq(ServerTools)] /\ specs \in Seq(ServerTools)
  BY DEF Init
<1> QED
  BY <1>1, <1>2, <1>3 DEF Init, TypeOK

(* Every reachable state is well typed: no thread leaves its protocol and  *)
(* only tools of the server or of another owner are ever in the box.       *)
THEOREM TypeCorrect == Spec => []TypeOK
  BY TypeInit, TypeStep, PTL DEF Spec

-----------------------------------------------------------------------------
(* The mutex excludes, and the client's tools stay accounted for.          *)

Safe ==
  /\ MutexInv /\ FreeInv /\ RemovingInv /\ AddingInv /\ ConnectedInv
  /\ ctools # {} => boxSet

(* Steps of threads outside the mutex, and of the server, that leave the   *)
(* box, the client and the locals alone and take no one across the lock.   *)
LEMMA OutsideStep ==
  ASSUME TypeOK, TypeOK', Safe,
         UNCHANGED <<boxVars, clientVars, localVars, mu>>,
         \A t \in Threads : pc'[t] = pc[t] \/ (~InLock(t) /\ ~InLock(t)')
  PROVE  Safe'
<1>1. \A t \in Threads : InLock(t)' <=> InLock(t)
  OBVIOUS
<1>2. \A t \in Threads : InLock(t) => pc'[t] = pc[t]
  OBVIOUS
<1>3. Owned' = Owned
  BY DEF Owned, boxVars
<1> QED
  BY <1>1, <1>2, <1>3
  DEF Safe, MutexInv, FreeInv, RemovingInv, AddingInv, ConnectedInv,
      boxVars, clientVars, localVars

(* The steps of registerTools.                                             *)
LEMMA RegisteringStep ==
  ASSUME TypeOK, TypeOK', Safe, NEW t \in Threads, Registering(t)
  PROVE  Safe'
<1> USE ThreadsAssumption, EntriesAssumption
<1> USE DEF Safe, MutexInv, FreeInv, RemovingInv, AddingInv, ConnectedInv, TypeOK
<1>1. CASE ListTools(t)
  BY <1>1, OutsideStep DEF ListTools
<1>2. CASE ListFails(t)
  BY <1>2, OutsideStep DEF ListFails, AfterRegister
<1>3. CASE LockToRegister(t) /\ ~connected
  BY <1>3, OutsideStep DEF LockToRegister, AfterRegister, localVars
<1>4. CASE LockToRegister(t) /\ connected
  BY <1>4 DEF LockToRegister, boxVars, clientVars, Owned
<1>5. CASE RemoveOne(t)
  <2>1. PICK n \in todo : box' = TB!RemoveTool(box, n) /\ todo' = todo \ {n}
    BY <1>5 DEF RemoveOne
  <2>2. Owned' \subseteq Owned \ {n}
    BY <2>1 DEF TB!RemoveTool, Owned
  <2> QED
    BY <1>5, <2>1, <2>2 DEF RemoveOne, clientVars
<1>6. CASE RemovedAll(t)
  BY <1>6 DEF RemovedAll, boxVars, localVars, Owned
<1>7. CASE SkipExcluded(t)
  BY <1>7 DEF SkipExcluded, boxVars, clientVars, Owned
<1>8. CASE CheckName(t)
  BY <1>8 DEF CheckName, boxVars, clientVars, localVars, Owned
<1>9. CASE AddOne(t)
  <2> DEFINE name == ToolName(Head(specs), registered)
  <2>1. CASE TB!AddAccepts(name)
    <3>1. Owned' \subseteq Owned \cup {name} /\ registered' = registered \cup {name}
      BY <1>9, <2>1 DEF AddOne, TB!AddTool, Owned
    <3> QED
      BY <1>9, <2>1, <3>1 DEF AddOne, clientVars
  <2>2. CASE ~TB!AddAccepts(name)
    <3>1. Owned' = Owned /\ registered' = registered
      BY <1>9, <2>2 DEF AddOne, TB!AddTool, Owned
    <3> QED
      BY <1>9, <2>2, <3>1 DEF AddOne, clientVars
  <2> QED
    BY <2>1, <2>2
<1>10. CASE Commit(t)
  BY <1>10 DEF Commit, AfterRegister, boxVars, Owned
<1>11. CASE RollbackOne(t)
  <2>1. PICK n \in registered : /\ box' = TB!RemoveTool(box, n)
                                /\ registered' = registered \ {n}
    BY <1>11 DEF RollbackOne
  <2>2. Owned' \subseteq Owned \ {n}
    BY <2>1 DEF TB!RemoveTool, Owned
  <2> QED
    BY <1>11, <2>1, <2>2 DEF RollbackOne, clientVars
<1>12. CASE RolledBack(t)
  BY <1>12 DEF RolledBack, AfterRegister, boxVars, clientVars, Owned
<1> QED
  BY <1>1, <1>2, <1>3, <1>4, <1>5, <1>6, <1>7, <1>8, <1>9, <1>10, <1>11, <1>12
  DEF Registering

(* The steps of Close and disconnected.                                    *)
LEMMA ClosingStep ==
  ASSUME TypeOK, TypeOK', Safe, NEW t \in Threads, Closing(t)
  PROVE  Safe'
<1> USE ThreadsAssumption, EntriesAssumption
<1> USE DEF Safe, MutexInv, FreeInv, RemovingInv, AddingInv, ConnectedInv, TypeOK
<1>1. CASE Unready(t)
  BY <1>1, OutsideStep DEF Unready
<1>2. CASE CloseSession(t)
  BY <1>2, OutsideStep DEF CloseSession
<1>3. CASE LockToDisconnect(t)
  BY <1>3 DEF LockToDisconnect, boxVars, clientVars, Owned
<1>4. CASE Disconnected(t)
  BY <1>4 DEF Disconnected, boxVars, localVars, Owned
<1> QED
  BY <1>1, <1>2, <1>3, <1>4 DEF Closing

(* Another owner can only take the client's tools away.                    *)
LEMMA OthersStep ==
  ASSUME TypeOK, TypeOK', Safe, NEW n \in Names, OtherAdds(n) \/ OtherRemoves(n)
  PROVE  Safe'
<1>1. Owned' \subseteq Owned
  BY EntriesAssumption
  DEF OtherAdds, OtherRemoves, TB!AddTool, TB!AddAccepts, TB!RemoveTool, Owned, TypeOK
<1>2. UNCHANGED <<clientVars, localVars, mu, pc>>
  BY DEF OtherAdds, OtherRemoves
<1> QED
  BY <1>1, <1>2
  DEF Safe, MutexInv, FreeInv, RemovingInv, AddingInv, ConnectedInv, clientVars,
      localVars

(* The waiting goroutine does not exist before NewClient is connected.     *)
LEMMA StartStep == TypeOK /\ StartInv /\ [Next]_vars => StartInv'
<1> SUFFICES ASSUME TypeOK, StartInv, [Next]_vars PROVE StartInv'
  OBVIOUS
<1> USE ThreadsAssumption DEF StartInv, TypeOK
<1>1. CASE UNCHANGED vars
  BY <1>1 DEF vars
<1>2. CASE Starting \/ DeliverChange \/ SessionEnded
  BY <1>2 DEF Starting, Connect, ConnectFails, BecomeReady, DeliverChange,
              SessionEnded
<1>3. ASSUME NEW r \in Refreshers, ToolsChanged(r) PROVE StartInv'
  BY <1>3 DEF ToolsChanged
<1>4. ASSUME NEW c \in Closers, CallClose(c) PROVE StartInv'
  BY <1>4 DEF CallClose
<1>5. ASSUME NEW t \in Threads, Registering(t) PROVE StartInv'
  <2>1. UNCHANGED pc \/ \E to : /\ Move(t, to) /\ to \notin {"connect", "handshaken"}
                               /\ pc[t] \notin {"connect", "handshaken", "idle"}
    BY <1>5 DEF Registering, ListTools, ListFails, LockToRegister, RemoveOne,
                RemovedAll, SkipExcluded, CheckName, AddOne, Commit, RollbackOne,
                RolledBack, AfterRegister
  <2> QED
    BY <2>1
<1>6. ASSUME NEW t \in Threads, Closing(t) PROVE StartInv'
  <2>1. \E to : /\ Move(t, to) /\ to \notin {"connect", "handshaken"}
               /\ pc[t] \notin {"connect", "handshaken", "idle"}
    BY <1>6 DEF Closing, Unready, CloseSession, LockToDisconnect, Disconnected
  <2> QED
    BY <2>1
<1>7. CASE Environment
  BY <1>7 DEF Environment, ServerChangesList, ServerExits, OtherAdds, OtherRemoves
<1> QED
  BY <1>1, <1>2, <1>3, <1>4, <1>5, <1>6, <1>7 DEF Next, Finished

(* IInv is inductive.                                                      *)
LEMMA InductiveStep == IInv /\ [Next]_vars => IInv'
<1> SUFFICES ASSUME IInv, [Next]_vars PROVE IInv'
  OBVIOUS
<1>1. TypeOK /\ TypeOK' /\ Safe
  BY TypeStep DEF IInv, Safe
<1>0. StartInv /\ StartInv'
  BY <1>1, StartStep DEF IInv
<1> SUFFICES Safe'
  BY <1>0, <1>1 DEF IInv, Safe
<1>2. CASE UNCHANGED vars
  BY <1>1, <1>2, OutsideStep DEF vars
<1>3. CASE Starting
  <2>1. CASE Connect \/ ConnectFails
    BY <1>1, <2>1, OutsideStep DEF Connect, ConnectFails, TypeOK, serverVars
  <2>2. CASE BecomeReady
    <3>1. pc[Waiter] \notin {"remove", "add", "put", "rollback", "dropping"}
      BY <1>1, <2>2, <1>0 DEF BecomeReady, StartInv
    <3> QED
      BY <1>1, <2>2, <3>1, OutsideStep, ThreadsAssumption DEF BecomeReady, TypeOK
  <2> QED
    BY <1>3, <2>1, <2>2 DEF Starting
<1>4. CASE DeliverChange
  BY <1>1, <1>4, OutsideStep DEF DeliverChange, TypeOK
<1>5. CASE SessionEnded
  BY <1>1, <1>5, OutsideStep DEF SessionEnded, TypeOK
<1>6. ASSUME NEW r \in Refreshers, ToolsChanged(r) PROVE Safe'
  BY <1>1, <1>6, OutsideStep DEF ToolsChanged, TypeOK
<1>7. ASSUME NEW c \in Closers, CallClose(c) PROVE Safe'
  BY <1>1, <1>7, OutsideStep DEF CallClose, TypeOK
<1>8. CASE ServerChangesList \/ ServerExits
  BY <1>1, <1>8, OutsideStep DEF ServerChangesList, ServerExits
<1> QED
  BY <1>1, <1>2, <1>3, <1>4, <1>5, <1>6, <1>7, <1>8, RegisteringStep, ClosingStep,
     OthersStep DEF Next, Environment, Finished

(* The inductive invariant holds in every reachable state.                 *)
THEOREM Invariance == Spec => []IInv
<1>1. Init => IInv
  <2> SUFFICES ASSUME Init PROVE IInv
    OBVIOUS
  <2>1. Owned = {}
    BY EntriesAssumption DEF Init, Owned
  <2> QED
    BY <2>1, TypeInit, ThreadsAssumption
    DEF Init, IInv, StartInv, MutexInv, FreeInv, RemovingInv, AddingInv, ConnectedInv
<1> QED
  BY <1>1, InductiveStep, PTL DEF Spec

(* A client that is not connected has no tool in the box: a listTools      *)
(* answer that arrives after the disconnect registers nothing.             *)
THEOREM DisconnectedOffersNothing == Spec => []NoToolsAfterDisconnect
<1>1. IInv => NoToolsAfterDisconnect
  <2> SUFFICES ASSUME IInv, ~connected PROVE Owned = {}
    BY DEF NoToolsAfterDisconnect
  <2>1. CASE mu = NoThread
    BY <2>1 DEF IInv, FreeInv, ConnectedInv
  <2>2. CASE mu \in Threads
    BY <2>2 DEF IInv, MutexInv, RemovingInv, ConnectedInv
  <2> QED
    BY <2>1, <2>2 DEF IInv, TypeOK
<1> QED
  BY <1>1, Invariance, PTL

(* No tool of the client is ever lost from its books, so the next          *)
(* removeTools, rollback or Close takes every one of them out.             *)
THEOREM ToolsStayTracked == Spec => []OwnedAreTracked
<1>1. IInv => OwnedAreTracked
  <2> SUFFICES ASSUME IInv PROVE Owned \subseteq ctools \cup registered
    BY DEF OwnedAreTracked
  <2>1. CASE mu = NoThread
    BY <2>1 DEF IInv, FreeInv
  <2>2. CASE mu \in Threads
    BY <2>2 DEF IInv, MutexInv, RemovingInv, AddingInv
  <2> QED
    BY <2>1, <2>2 DEF IInv, TypeOK
<1> QED
  BY <1>1, Invariance, PTL

-----------------------------------------------------------------------------
(* A NewClient that failed.                                                *)

(* Without a session nothing has happened yet; newClient drops the tools   *)
(* of a client only after it closed the session; and it fails either       *)
(* before there is one, or when all of that is done.                       *)
FailedInv ==
  /\ session = "none" =>
       /\ mu = NoThread /\ ctools = {} /\ ~ready /\ pc[Main] \in {"connect", "failed"}
       /\ \A t \in Threads \ {Main} : pc[t] = "idle"
  /\ pc[Main] \in {"disconnect", "dropping"} => session = "down"
  /\ pc[Main] = "failed" => session # "up" /\ (connected => session = "none")

(* No step of registerTools ends a NewClient: an error goes on to Close.   *)
LEMMA FailedRegistering ==
  ASSUME TypeOK, FailedInv, NEW t \in Threads, Registering(t)
  PROVE  FailedInv'
<1> USE ThreadsAssumption DEF TypeOK
<1>1. pc[t] \in {"list", "lock", "remove", "add", "put", "rollback", "dropping"}
  BY DEF Registering, ListTools, ListFails, LockToRegister, RemoveOne, RemovedAll,
         SkipExcluded, CheckName, AddOne, Commit, RollbackOne, RolledBack
<1>2. session # "none"
  BY <1>1 DEF FailedInv
<1>3. UNCHANGED <<session, connected>>
  BY DEF Registering, ListTools, ListFails, LockToRegister, RemoveOne, RemovedAll,
         SkipExcluded, CheckName, AddOne, Commit, RollbackOne, RolledBack,
         clientVars, serverVars
<1>4. \/ UNCHANGED pc
      \/ \E to : Move(t, to) /\ (t = Main => to \notin {"failed", "disconnect", "dropping"})
  BY DEF Registering, ListTools, ListFails, LockToRegister, RemoveOne, RemovedAll,
         SkipExcluded, CheckName, AddOne, Commit, RollbackOne, RolledBack, AfterRegister
<1> QED
  BY <1>2, <1>3, <1>4 DEF FailedInv

(* The steps of Close and disconnected come after the session.             *)
LEMMA FailedClosing ==
  ASSUME TypeOK, FailedInv, NEW t \in Threads, Closing(t)
  PROVE  FailedInv'
<1> USE ThreadsAssumption DEF TypeOK
<1>1. session # "none"
  BY DEF FailedInv, Closing, Unready, CloseSession, LockToDisconnect, Disconnected
<1>2. CASE Unready(t)
  BY <1>1, <1>2 DEF FailedInv, Unready, clientVars, serverVars
<1>3. CASE CloseSession(t)
  BY <1>1, <1>3 DEF FailedInv, CloseSession, clientVars
<1>4. CASE LockToDisconnect(t)
  BY <1>1, <1>4 DEF FailedInv, LockToDisconnect, clientVars, serverVars
<1>5. CASE Disconnected(t)
  BY <1>1, <1>5 DEF FailedInv, Disconnected, serverVars
<1> QED
  BY <1>2, <1>3, <1>4, <1>5 DEF Closing

(* FailedInv is inductive, given the types.                                 *)
LEMMA FailedStep == TypeOK /\ FailedInv /\ [Next]_vars => FailedInv'
<1> SUFFICES ASSUME TypeOK, FailedInv, [Next]_vars PROVE FailedInv'
  OBVIOUS
<1> USE ThreadsAssumption DEF TypeOK
<1>1. CASE UNCHANGED vars
  BY <1>1 DEF FailedInv, vars, clientVars, serverVars
<1>2. CASE Connect \/ ConnectFails
  BY <1>2 DEF FailedInv, Connect, ConnectFails, clientVars, serverVars
<1>3. CASE BecomeReady
  BY <1>3 DEF FailedInv, BecomeReady, clientVars, serverVars
<1>4. CASE DeliverChange
  BY <1>4 DEF FailedInv, DeliverChange, clientVars
<1>5. CASE SessionEnded
  BY <1>5 DEF FailedInv, SessionEnded, clientVars, serverVars
<1>6. ASSUME NEW r \in Refreshers, ToolsChanged(r) PROVE FailedInv'
  BY <1>6 DEF FailedInv, ToolsChanged, clientVars, serverVars
<1>7. ASSUME NEW c \in Closers, CallClose(c) PROVE FailedInv'
  BY <1>7 DEF FailedInv, CallClose, clientVars, serverVars
<1>8. CASE Environment
  BY <1>8 DEF FailedInv, Environment, ServerChangesList, ServerExits, OtherAdds,
              OtherRemoves, clientVars, serverVars
<1> QED
  BY <1>1, <1>2, <1>3, <1>4, <1>5, <1>6, <1>7, <1>8, FailedRegistering, FailedClosing
  DEF Next, Starting, Finished

(* A NewClient that returned an error has stopped the server and left none *)
(* of its tools in the box, however far the registration had come.         *)
THEOREM FailureLeavesNothing == Spec => []FailedLeavesNothing
<1>1. Init => FailedInv
  BY ThreadsAssumption DEF Init, FailedInv
<1>2. IInv => TypeOK
  BY DEF IInv
<1>3. IInv /\ FailedInv /\ NoToolsAfterDisconnect => FailedLeavesNothing
  BY DEF IInv, FreeInv, FailedInv, FailedLeavesNothing, NoToolsAfterDisconnect
<1> QED
  BY <1>1, <1>2, <1>3, FailedStep, Invariance, DisconnectedOffersNothing, PTL DEF Spec

-----------------------------------------------------------------------------
(* What a list registers.                                                  *)

(* A tool for each of some names.                                          *)
Tooling == UNION {[S -> ServerTools] : S \in SUBSET Names}

LEMMA ToolingType ==
  /\ NoNames \in Tooling /\ DOMAIN NoNames = {}
  /\ \A reg \in Tooling, tool \in ServerTools : WithTool(reg, tool) \in Tooling
<1>1. NoNames \in [{} -> ServerTools]
  BY DEF NoNames
<1>2. ASSUME NEW S \in SUBSET Names, NEW reg \in [S -> ServerTools], NEW tool \in ServerTools
      PROVE  WithTool(reg, tool) \in Tooling
  <2> DEFINE name == ToolName(tool, S)
  <2>1. name \in Names
    BY NamesAssumption DEF ToolName
  <2>2. [n \in S \cup {name} |-> IF n = name THEN tool ELSE reg[n]]
          \in [S \cup {name} -> ServerTools]
    OBVIOUS
  <2>3. S \cup {name} \in SUBSET Names
    BY <2>1
  <2> HIDE DEF name
  <2>4. [n \in S \cup {name} |-> IF n = name THEN tool ELSE reg[n]] \in Tooling
    BY <2>2, <2>3 DEF Tooling
  <2> QED
    BY <2>4 DEF WithTool, Tooling, name
<1> QED
  BY <1>1, <1>2 DEF Tooling, NoNames

(* The loop over a list, spec by spec.                                     *)
LEMMA RegistrationRuns ==
  ASSUME NEW list \in Seq(ServerTools)
  PROVE  \E f \in [0..Len(list) -> Tooling] :
           /\ f[0] = NoNames /\ Registration(list) = f[Len(list)]
           /\ \A i \in 1..Len(list) : f[i] = WithTool(f[i - 1], list[i])
<1> DEFINE N == Len(list)
           Turn(f) == [i \in 0..N |-> IF i = 0 THEN NoNames ELSE WithTool(f[i - 1], list[i])]
           step == [x \in (1..N) \X Tooling |-> WithTool(x[2], list[x[1]])]
           k == CHOOSE reg : reg = Turn(reg)
<1>1. N \in Nat
  BY LenProperties
<1>2. step \in [(1..N) \X Tooling -> Tooling]
  <2>1. \A i \in 1..N, reg \in Tooling : WithTool(reg, list[i]) \in Tooling
    BY <1>1, ToolingType, ElementOfSeq
  <2> QED
    BY <2>1
<1> HIDE DEF step, N
<1>3. NoNames \in Tooling
  BY ToolingType
<1>4. PICK f : LoopOf(f, N, Tooling, NoNames, step)
  BY <1>1, <1>2, <1>3, LoopExists
<1> USE DEF LoopOf
<1>5. \A i \in 1..N : f[i] = WithTool(f[i - 1], list[i])
  <2> SUFFICES ASSUME NEW i \in 1..N PROVE f[i] = WithTool(f[i - 1], list[i])
    OBVIOUS
  <2>1. i - 1 \in 0..N /\ f[i - 1] \in Tooling
    BY <1>1, <1>4
  <2>2. step[<<i, f[i - 1]>>] = WithTool(f[i - 1], list[i])
    BY <2>1 DEF step
  <2> QED
    BY <1>4, <2>2
<1>6. f = Turn(f)
  <2>1. \A i \in 0..N : f[i] = Turn(f)[i]
    BY <1>1, <1>4, <1>5
  <2>2. f = [i \in 0..N |-> f[i]]
    BY <1>4
  <2> QED
    BY <2>1, <2>2
<1>7. k = Turn(k)
  BY <1>6
<1> HIDE DEF k
<1>8. k[0] = NoNames /\ \A i \in 1..N : k[i] = WithTool(k[i - 1], list[i])
  <2>1. \A i \in 0..N : k[i] = Turn(k)[i]
    BY <1>7
  <2> QED
    BY <1>1, <2>1
<1> DEFINE same == {n \in 0..N : k[n] = f[n]}
<1>9. 0 \in same
  BY <1>1, <1>4, <1>8
<1>10. ASSUME NEW n \in 0..N-1, n \in same PROVE n + 1 \in same
  <2>1. n + 1 \in 1..N /\ n + 1 \in 0..N /\ (n + 1) - 1 = n /\ k[n] = f[n]
    BY <1>1, <1>10
  <2>2. k[n + 1] = WithTool(k[n], list[n + 1]) /\ f[n + 1] = WithTool(f[n], list[n + 1])
    BY <1>5, <1>8, <2>1
  <2> QED
    BY <2>1, <2>2
<1> HIDE DEF same
<1>11. N \in same
  <2>1. \A n \in 0..N : n \in same
    BY <1>1, <1>9, <1>10, UpTo
  <2> QED
    BY <1>1, <2>1
<1>12. k[N] = f[N]
  BY <1>11 DEF same
<1>13. Registration(list) = k[N]
  BY DEF Registration, k, N
<1> QED
  BY <1>4, <1>5, <1>12, <1>13 DEF N

(* One more spec registers one more tool, unless it is left out.           *)
LEMMA RegistrationNext ==
  ASSUME NEW list \in Seq(ServerTools), NEW tool \in ServerTools
  PROVE  /\ Registration(list) \in Tooling
         /\ Registration(Append(list, tool)) = WithTool(Registration(list), tool)
<1> DEFINE N == Len(list)
           more == Append(list, tool)
<1>1. N \in Nat
  BY LenProperties
<1>2. /\ more \in Seq(ServerTools) /\ Len(more) = N + 1 /\ more[N + 1] = tool
      /\ \A i \in 1..N : more[i] = list[i]
  BY AppendProperties
<1> HIDE DEF more
<1>3. PICK f \in [0..N -> Tooling] :
        /\ f[0] = NoNames /\ Registration(list) = f[N]
        /\ \A i \in 1..N : f[i] = WithTool(f[i - 1], list[i])
  BY RegistrationRuns
<1>4. PICK g \in [0..N + 1 -> Tooling] :
        /\ g[0] = NoNames /\ Registration(more) = g[N + 1]
        /\ \A i \in 1..N + 1 : g[i] = WithTool(g[i - 1], more[i])
  <2>1. \E g \in [0..Len(more) -> Tooling] :
          /\ g[0] = NoNames /\ Registration(more) = g[Len(more)]
          /\ \A i \in 1..Len(more) : g[i] = WithTool(g[i - 1], more[i])
    BY <1>2, RegistrationRuns
  <2> QED
    BY <1>2, <2>1
<1> DEFINE same == {n \in 0..N : g[n] = f[n]}
<1>5. 0 \in same
  BY <1>1, <1>3, <1>4
<1>6. ASSUME NEW n \in 0..N-1, n \in same PROVE n + 1 \in same
  <2>1. n + 1 \in 1..N /\ n + 1 \in 1..N + 1 /\ n + 1 \in 0..N /\ (n + 1) - 1 = n /\ g[n] = f[n]
    BY <1>1, <1>6
  <2>2. g[n + 1] = WithTool(g[n], more[n + 1]) /\ f[n + 1] = WithTool(f[n], list[n + 1])
    BY <1>3, <1>4, <2>1
  <2> QED
    BY <1>2, <2>1, <2>2
<1> HIDE DEF same, N
<1>7. N \in same
  <2>1. \A n \in 0..N : n \in same
    BY <1>1, <1>5, <1>6, UpTo
  <2> QED
    BY <1>1, <2>1
<1>8. g[N] = f[N]
  BY <1>7 DEF same
<1>9. g[N + 1] = WithTool(g[N], tool)
  <2>1. N + 1 \in 1..N + 1 /\ (N + 1) - 1 = N
    BY <1>1
  <2> QED
    BY <1>2, <1>4, <2>1
<1>10. f[N] \in Tooling
  BY <1>1, <1>3
<1> QED
  BY <1>3, <1>4, <1>8, <1>9, <1>10 DEF more

(* An empty list registers nothing.                                        *)
LEMMA RegistrationEmpty == Registration(<<>>) = NoNames
<1>1. <<>> \in Seq(ServerTools) /\ Len(<<>>) = 0
  OBVIOUS
<1> QED
  BY <1>1, RegistrationRuns

(* Two tools are never given one hashed name, nor a plain one that ends    *)
(* like it: the digits of SHA-256 a name keeps tell tools apart.           *)
HashesDistinct ==
  \A s, t \in ServerTools :
    (HashedName[s] = HashedName[t] => s = t) /\ HashedName[s] # PlainName[t]

(* Then every tool of a list that is not left out has a name that runs it. *)
LEMMA KeptHaveNames ==
  ASSUME HashesDistinct, NEW list \in Seq(ServerTools), NEW i \in 1..Len(list), ~Excluded(list[i])
  PROVE  \E n \in DOMAIN Registration(list) : Registration(list)[n] = list[i]
<1> DEFINE N == Len(list)
<1>1. N \in Nat /\ \A j \in 1..N : list[j] \in ServerTools
  BY LenProperties, ElementOfSeq
<1>2. PICK f \in [0..N -> Tooling] :
        /\ f[0] = NoNames /\ Registration(list) = f[N]
        /\ \A j \in 1..N : f[j] = WithTool(f[j - 1], list[j])
  BY RegistrationRuns
<1> DEFINE Named(reg) == \A n \in DOMAIN reg : n \in {PlainName[reg[n]], HashedName[reg[n]]}
           S == {m \in 0..N : /\ Named(f[m])
                              /\ i <= m => \E n \in DOMAIN f[m] : f[m][n] = list[i]}
<1>3. 0 \in S
  BY <1>1, <1>2, ToolingType DEF NoNames
<1>4. ASSUME NEW m \in 0..N-1, m \in S PROVE m + 1 \in S
  <2> DEFINE reg == f[m]
             tool == list[m + 1]
             name == ToolName(tool, DOMAIN reg)
  <2>1. /\ m + 1 \in 1..N /\ m + 1 \in 0..N /\ m \in 0..N /\ (m + 1) - 1 = m
        /\ tool \in ServerTools
    BY <1>1
  <2>2. f[m + 1] = WithTool(reg, tool) /\ reg \in Tooling
    BY <1>2, <2>1
  <2>3. Named(reg) /\ (i <= m => \E n \in DOMAIN reg : reg[n] = list[i])
    BY <1>4
  <2>4. \A n \in DOMAIN reg : reg[n] \in ServerTools
    BY <2>2 DEF Tooling
  <2>5. ASSUME Excluded(tool) PROVE m + 1 \in S
    <3>1. f[m + 1] = reg /\ i # m + 1
      BY <2>2, <2>5 DEF WithTool
    <3>2. i <= m + 1 => i <= m
      BY <2>1, <3>1
    <3> QED
      BY <2>1, <2>3, <3>1, <3>2
  <2>6. ASSUME ~Excluded(tool) PROVE m + 1 \in S
    <3>1. f[m + 1] = [n \in DOMAIN reg \cup {name} |-> IF n = name THEN tool ELSE reg[n]]
      BY <2>2, <2>6 DEF WithTool
    <3>2. /\ name \in {PlainName[tool], HashedName[tool]}
          /\ name \in DOMAIN reg => name = HashedName[tool]
      BY DEF ToolName
    <3>3. name \in DOMAIN reg => reg[name] = tool
      BY <2>1, <2>3, <2>4, <3>2 DEF HashesDistinct
    <3> HIDE DEF reg, tool, name
    <3>4. \A n \in DOMAIN reg : n \in DOMAIN f[m + 1] /\ f[m + 1][n] = reg[n]
      BY <3>1, <3>3
    <3>5. name \in DOMAIN f[m + 1] /\ f[m + 1][name] = tool
      BY <3>1
    <3>6. Named(f[m + 1])
      <4> SUFFICES ASSUME NEW n \in DOMAIN f[m + 1]
                   PROVE  n \in {PlainName[f[m + 1][n]], HashedName[f[m + 1][n]]}
        OBVIOUS
      <4>1. n = name \/ n \in DOMAIN reg
        BY <3>1
      <4> QED
        BY <2>3, <3>2, <3>4, <3>5, <4>1
    <3>7. i <= m + 1 => \E n \in DOMAIN f[m + 1] : f[m + 1][n] = list[i]
      <4>1. i <= m + 1 => i <= m \/ i = m + 1
        BY <2>1
      <4> QED
        BY <2>3, <3>4, <3>5, <4>1 DEF tool
    <3> QED
      BY <2>1, <3>6, <3>7
  <2> QED
    BY <2>5, <2>6
<1> HIDE DEF S, N
<1>5. N \in S
  <2>1. \A n \in 0..N : n \in S
    BY <1>1, <1>3, <1>4, UpTo
  <2> QED
    BY <1>1, <2>1
<1> QED
  BY <1>1, <1>2, <1>5 DEF S, N

-----------------------------------------------------------------------------
(* Between registrations the client stands for one list.                   *)

(* What only takes tools out of the box, or begins to change the client,   *)
(* leaves the lists on their way as they are.                              *)
LEMMA ListingKept ==
  ASSUME ListingInv, history \subseteq history', published' \in history',
         Owned' \subseteq Owned, \A n \in Owned' : box'[n] = box[n],
         ctools' \in {ctools, {}},
         \A t \in Threads :
           /\ pc'[t] = "lock" => pc[t] = "lock" /\ listed'[t] = listed[t]
           /\ pc'[t] = "remove" => pc[t] = "remove" /\ specs' = specs
           /\ pc'[t] \in {"add", "put"} =>
                pc[t] \in {"add", "put"} /\ specs' = specs /\ registered' = registered
  PROVE  ListingInv'
<1> HIDE DEF Threads
<1>1. ASSUME NEW list, NEW names, Stands(list, names) PROVE Stands(list, names)'
  BY <1>1 DEF Stands
<1>2. ASSUME NEW t \in Threads, pc'[t] \in {"add", "put"}
      PROVE  \E L \in history' : \E k \in 0..Len(L) :
               specs' = SubSeq(L, k + 1, Len(L)) /\ Stands(SubSeq(L, 1, k), registered)'
  <2>1. PICK L \in history : \E k \in 0..Len(L) :
          specs = SubSeq(L, k + 1, Len(L)) /\ Stands(SubSeq(L, 1, k), registered)
    BY <1>2 DEF ListingInv
  <2>2. PICK k \in 0..Len(L) :
          specs = SubSeq(L, k + 1, Len(L)) /\ Stands(SubSeq(L, 1, k), registered)
    BY <2>1
  <2>3. specs' = SubSeq(L, k + 1, Len(L)) /\ Stands(SubSeq(L, 1, k), registered)'
    BY <1>2, <2>2 DEF Stands
  <2> QED
    BY <2>3
<1>3. ctools' # {} => \E L \in history' : Stands(L, ctools)'
  <2> SUFFICES ASSUME ctools' # {} PROVE \E L \in history' : Stands(L, ctools)'
    OBVIOUS
  <2>1. PICK L \in history : Stands(L, ctools)
    BY DEF ListingInv
  <2>2. Stands(L, ctools)'
    BY <2>1 DEF Stands
  <2> QED
    BY <2>2
<1> QED
  BY <1>2, <1>3 DEF ListingInv

(* The next spec of a list, and what is left of it.                        *)
LEMMA NextSpec ==
  ASSUME NEW L \in Seq(ServerTools), NEW k \in 0..Len(L), SubSeq(L, k + 1, Len(L)) # <<>>
  PROVE  /\ k + 1 \in 1..Len(L) /\ k + 1 \in 0..Len(L)
         /\ Head(SubSeq(L, k + 1, Len(L))) = L[k + 1]
         /\ Tail(SubSeq(L, k + 1, Len(L))) = SubSeq(L, (k + 1) + 1, Len(L))
         /\ SubSeq(L, 1, k + 1) = Append(SubSeq(L, 1, k), L[k + 1])
         /\ L[k + 1] \in ServerTools /\ SubSeq(L, 1, k) \in Seq(ServerTools)
<1>1. Len(L) \in Nat
  BY LenProperties
<1>2. k + 1 \in 1..Len(L)
  BY <1>1, SubSeqEmpty
<1>3. L[k + 1] \in ServerTools
  BY <1>2, ElementOfSeq
<1>4. /\ Head(SubSeq(L, k + 1, Len(L))) = L[k + 1]
      /\ Tail(SubSeq(L, k + 1, Len(L))) = SubSeq(L, (k + 1) + 1, Len(L))
  BY <1>1, <1>2, HeadTailOfSubSeq
<1>5. SubSeq(L, 1, k) \in Seq(ServerTools)
  BY <1>1, SubSeqProperties
<1>6. SubSeq(L, 1, k + 1) = SubSeq(L, 1, (k + 1) - 1) \o <<L[k + 1]>>
  BY <1>1, <1>2, SubSeqRecursiveSecond
<1>7. Append(SubSeq(L, 1, k), L[k + 1]) = SubSeq(L, 1, k) \o <<L[k + 1]>>
  BY <1>3, <1>5, AppendIsConcat
<1> QED
  BY <1>1, <1>2, <1>3, <1>4, <1>5, <1>6, <1>7

(* A spec of the list is dealt with: what it registers joins the rest.     *)
LEMMA SpecDone ==
  ASSUME TypeOK, ListingInv, NEW t \in Threads, pc[t] \in {"add", "put"}, specs # <<>>,
         specs' = Tail(specs), history' = history,
         NEW tool, tool = Head(specs),
         \A list \in Seq(ServerTools) :
           Stands(list, registered) => Stands(Append(list, tool), registered)'
  PROVE  \E L \in history' : \E k \in 0..Len(L) :
           specs' = SubSeq(L, k + 1, Len(L)) /\ Stands(SubSeq(L, 1, k), registered)'
<1> HIDE DEF Threads
<1>1. PICK L \in history : \E k \in 0..Len(L) :
        specs = SubSeq(L, k + 1, Len(L)) /\ Stands(SubSeq(L, 1, k), registered)
  BY DEF ListingInv
<1>2. PICK k \in 0..Len(L) :
        specs = SubSeq(L, k + 1, Len(L)) /\ Stands(SubSeq(L, 1, k), registered)
  BY <1>1
<1>3. L \in Seq(ServerTools)
  BY ListingsAssumption DEF TypeOK
<1>4. /\ k + 1 \in 0..Len(L) /\ specs' = SubSeq(L, (k + 1) + 1, Len(L))
      /\ SubSeq(L, 1, k) \in Seq(ServerTools)
      /\ SubSeq(L, 1, k + 1) = Append(SubSeq(L, 1, k), tool)
  BY <1>2, <1>3, NextSpec
<1>5. Stands(Append(SubSeq(L, 1, k), tool), registered)'
  BY <1>2, <1>4
<1>6. Stands(SubSeq(L, 1, k + 1), registered)'
  BY <1>4, <1>5 DEF Stands
<1> QED
  BY <1>4, <1>6

(* When no spec is left, what is registered is that of a whole list.       *)
LEMMA CommittedWhole ==
  ASSUME TypeOK, ListingInv, NEW t \in Threads, pc[t] = "add", specs = <<>>
  PROVE  \E L \in history : Stands(L, registered)
<1>1. PICK L \in history : \E k \in 0..Len(L) :
        specs = SubSeq(L, k + 1, Len(L)) /\ Stands(SubSeq(L, 1, k), registered)
  BY DEF ListingInv
<1>2. PICK k \in 0..Len(L) :
        specs = SubSeq(L, k + 1, Len(L)) /\ Stands(SubSeq(L, 1, k), registered)
  BY <1>1
<1>3. L \in Seq(ServerTools) /\ Len(L) \in Nat
  BY ListingsAssumption, LenProperties DEF TypeOK
<1>4. k = Len(L)
  <2>1. k + 1 \in 1..Len(L) => Len(SubSeq(L, k + 1, Len(L))) = Len(L) - (k + 1) + 1
    BY <1>3, SubSeqProperties
  <2>2. Len(<<>>) = 0
    OBVIOUS
  <2>3. k + 1 \notin 1..Len(L)
    <3> SUFFICES ASSUME k + 1 \in 1..Len(L) PROVE FALSE
      OBVIOUS
    <3>1. Len(SubSeq(L, k + 1, Len(L))) = 0
      BY <1>2, <2>2
    <3> QED
      BY <1>3, <2>1, <3>1
  <2> QED
    BY <1>3, <2>3
<1>5. Stands(L, registered)
  BY <1>2, <1>3, <1>4, SubSeqFull
<1> QED
  BY <1>5

(* The steps of registerTools that take a list further.                    *)
LEMMA ListingRegisters ==
  ASSUME IInv, IInv', ListingInv, NEW t \in Threads, Registering(t)
  PROVE  ListingInv'
<1> USE ThreadsAssumption, EntriesAssumption
<1> DEFINE Places == {pc[u] : u \in Threads}
<1>0. /\ TypeOK /\ TypeOK' /\ pc \in [Threads -> Places] /\ listed \in [Threads -> Seq(ServerTools)]
      /\ \A u \in Threads : InLock(t) /\ InLock(u) => u = t
      /\ mu = NoThread => \A u \in Threads : ~InLock(u)
  <2>1. TypeOK /\ TypeOK' /\ listed \in [Threads -> Seq(ServerTools)]
    BY DEF IInv, TypeOK
  <2>2. pc = [u \in Threads |-> pc[u]]
    BY <2>1 DEF TypeOK
  <2>3. \A u \in Threads : InLock(t) /\ InLock(u) => u = t
    BY DEF IInv, MutexInv
  <2>4. mu = NoThread => \A u \in Threads : ~InLock(u)
    BY DEF IInv, MutexInv
  <2> HIDE DEF Threads
  <2> QED
    BY <2>1, <2>2, <2>3, <2>4
<1>1. CASE ListTools(t)
  <2>1. /\ UNCHANGED <<box, ctools, registered, specs, published, history>>
        /\ listed' = [listed EXCEPT ![t] = published] /\ pc' = [pc EXCEPT ![t] = "lock"]
    BY <1>1 DEF ListTools, boxVars, clientVars, localVars, serverVars
  <2> HIDE DEF Threads, Places
  <2>2. pc' = [pc EXCEPT ![t] = "lock"] /\ pc'[t] = "lock" /\ listed'[t] = published
    BY <1>0, <2>1
  <2>3. \A u \in Threads : u # t => pc'[u] = pc[u] /\ listed'[u] = listed[u]
    BY <1>0, <2>1
  <2> QED
    BY <2>1, <2>2, <2>3 DEF ListingInv, Stands, Owned
<1>2. CASE LockToRegister(t)
  <2>1. CASE connected /\ mu = NoThread
    <3>1. /\ UNCHANGED <<box, ctools, published, history>> /\ specs' = listed[t]
          /\ listed' = [listed EXCEPT ![t] = <<>>] /\ pc' = [pc EXCEPT ![t] = "remove"]
          /\ pc[t] = "lock" /\ \A u \in Threads : ~InLock(u)
      BY <1>0, <1>2, <2>1 DEF LockToRegister, boxVars, clientVars, serverVars
    <3> HIDE DEF Threads
    <3> QED
      BY <1>0, <3>1 DEF ListingInv, Stands, Owned
  <2>2. CASE ~connected
    BY <1>0, <1>2, <2>2, ListingKept
    DEF ListingInv, LockToRegister, AfterRegister, boxVars, clientVars, localVars, serverVars, Owned
  <2> QED
    BY <1>2, <2>1, <2>2 DEF LockToRegister
<1>3. CASE RemovedAll(t)
  <2>1. /\ UNCHANGED <<box, listed, registered, specs, published, history>> /\ ctools' = {}
        /\ pc' = [pc EXCEPT ![t] = "add"] /\ pc[t] = "remove" /\ registered = {}
    BY <1>3 DEF RemovedAll, IInv, RemovingInv, boxVars, localVars, serverVars
  <2>2. specs \in history /\ specs \in Seq(ServerTools) /\ Len(specs) \in Nat
    BY <1>0, <2>1, LenProperties DEF ListingInv, TypeOK
  <2>3. SubSeq(specs, 0 + 1, Len(specs)) = specs /\ SubSeq(specs, 1, 0) = <<>>
    BY <2>2, SubSeqFull, SubSeqEmpty
  <2>4. Stands(<<>>, registered)'
    BY <2>1, RegistrationEmpty, ToolingType DEF Stands
  <2>5. \E L \in history' : \E k \in 0..Len(L) :
          specs' = SubSeq(L, k + 1, Len(L)) /\ Stands(SubSeq(L, 1, k), registered)'
    <3>1. 0 \in 0..Len(specs)
      BY <2>2
    <3> QED
      BY <2>1, <2>2, <2>3, <2>4, <3>1
  <2> HIDE DEF Threads
  <2> QED
    BY <1>0, <2>1, <2>5 DEF ListingInv
<1>4. CASE SkipExcluded(t)
  <2>1. /\ UNCHANGED <<box, ctools, listed, registered, published, history, pc>>
        /\ pc[t] = "add" /\ specs # <<>> /\ specs' = Tail(specs) /\ Excluded(Head(specs))
    BY <1>4 DEF SkipExcluded, boxVars, clientVars, serverVars
  <2>2. PICK tool \in ServerTools : tool = Head(specs)
    BY <1>0, <2>1 DEF TypeOK
  <2>3. ASSUME NEW list \in Seq(ServerTools), Stands(list, registered)
        PROVE  Stands(Append(list, tool), registered)'
    <3>1. Registration(Append(list, tool)) = Registration(list)
      BY <2>1, <2>2, RegistrationNext DEF WithTool
    <3> QED
      BY <2>1, <2>3, <3>1 DEF Stands, Owned
  <2>4. \E L \in history' : \E k \in 0..Len(L) :
          specs' = SubSeq(L, k + 1, Len(L)) /\ Stands(SubSeq(L, 1, k), registered)'
    BY <1>0, <2>1, <2>2, <2>3, SpecDone
  <2>5. ctools' = {}
    BY <2>1 DEF IInv, AddingInv
  <2> HIDE DEF Threads
  <2> QED
    BY <1>0, <2>1, <2>4, <2>5 DEF ListingInv
<1>5. CASE AddOne(t)
  <2>0. PICK tool : tool = Head(specs)
    OBVIOUS
  <2> DEFINE name == ToolName(tool, registered)
  <2>1. /\ UNCHANGED <<ctools, listed, published, history>> /\ specs # <<>> /\ ~Excluded(tool)
        /\ pc[t] \in {"add", "put"} /\ box' = TB!AddTool(box, name, tool)
    BY <1>5, <2>0 DEF AddOne, NextSpecAdded, clientVars, serverVars
  <2>2. tool \in ServerTools /\ ctools = {}
    BY <1>0, <2>0, <2>1 DEF TypeOK, IInv, AddingInv
  <2>3. CASE TB!AddAccepts(name)
    <3>1. /\ registered' = registered \cup {name} /\ specs' = Tail(specs)
          /\ pc' = [pc EXCEPT ![t] = "add"] /\ box' = [box EXCEPT ![name] = tool]
      BY <1>5, <2>0, <2>1, <2>3 DEF AddOne, TB!AddTool
    <3>2. name \in Names
      BY <2>2, NamesAssumption DEF ToolName
    <3>3. ASSUME NEW list \in Seq(ServerTools), Stands(list, registered)
          PROVE  Stands(Append(list, tool), registered)'
      <4>1. Registration(Append(list, tool)) =
              [n \in registered \cup {name} |-> IF n = name THEN tool ELSE Registration(list)[n]]
        <5>1. DOMAIN Registration(list) = registered
          BY <3>3 DEF Stands
        <5>2. Registration(Append(list, tool)) = WithTool(Registration(list), tool)
          BY <2>2, RegistrationNext
        <5> QED
          BY <2>1, <5>1, <5>2 DEF WithTool
      <4>2. box' = [box EXCEPT ![name] = tool] /\ box \in [Names -> {NoTool, OtherTool} \cup ServerTools]
        BY <1>0, <3>1 DEF TypeOK
      <4> HIDE DEF name
      <4>3. ASSUME NEW n \in registered' \cap Owned'
            PROVE  box'[n] = Registration(Append(list, tool))[n]
        <5>1. CASE n = name
          BY <3>1, <3>2, <4>1, <4>2, <5>1
        <5>2. CASE n # name
          <6>1. n \in registered \cap Owned /\ box'[n] = box[n]
            BY <3>1, <4>2, <4>3, <5>2 DEF Owned
          <6> QED
            BY <3>1, <3>3, <4>1, <5>2, <6>1 DEF Stands
        <5> QED
          BY <5>1, <5>2
      <4>4. registered' = DOMAIN Registration(Append(list, tool))
        BY <3>1, <4>1
      <4> QED
        BY <4>3, <4>4 DEF Stands
    <3>4. \E L \in history' : \E k \in 0..Len(L) :
            specs' = SubSeq(L, k + 1, Len(L)) /\ Stands(SubSeq(L, 1, k), registered)'
      BY <1>0, <2>0, <2>1, <3>1, <3>3, SpecDone
    <3> HIDE DEF Threads
    <3> QED
      BY <1>0, <2>1, <2>2, <3>1, <3>4 DEF ListingInv
  <2>4. CASE ~TB!AddAccepts(name)
    <3>1. pc' = [pc EXCEPT ![t] = "rollback"] /\ box' = box /\ UNCHANGED <<registered, specs>>
      BY <1>5, <2>0, <2>1, <2>4 DEF AddOne, TB!AddTool
    <3>2. Owned' = Owned /\ history \subseteq history' /\ published' \in history'
      BY <2>1, <3>1 DEF Owned, ListingInv
    <3> QED
      BY <1>0, <2>1, <3>1, <3>2, ListingKept
  <2> QED
    BY <2>3, <2>4
<1>6. CASE Commit(t)
  <2>1. /\ UNCHANGED <<box, listed, specs, published, history>> /\ ctools' = registered
        /\ specs = <<>> /\ pc[t] = "add"
        /\ \E to \in {"idle", "open"} : pc' = [pc EXCEPT ![t] = to]
    BY <1>6 DEF Commit, AfterRegister, boxVars, serverVars
  <2>6. PICK L \in history : Stands(L, registered)
    BY <1>0, <2>1, CommittedWhole
  <2>7. Stands(L, ctools)'
    BY <2>1, <2>6 DEF Stands, Owned
  <2> HIDE DEF Threads
  <2> QED
    BY <1>0, <2>1, <2>7 DEF ListingInv
<1>7. CASE ListFails(t) \/ CheckName(t)
  BY <1>0, <1>7, ListingKept
  DEF ListingInv, ListFails, CheckName, AfterRegister, boxVars, clientVars, localVars, serverVars, Owned
<1>8. CASE RemoveOne(t) \/ RollbackOne(t) \/ RolledBack(t)
  <2>1. Owned' \subseteq Owned /\ \A n \in Owned' : box'[n] = box[n]
    BY <1>0, <1>8
    DEF RemoveOne, RollbackOne, RolledBack, TB!RemoveTool, boxVars, Owned, TypeOK
  <2>2. /\ UNCHANGED <<ctools, listed, published, history>>
        /\ \/ UNCHANGED <<pc, specs, registered>> /\ InLock(t)
           \/ pc' = pc /\ specs' = specs /\ pc[t] = "rollback"
           \/ pc[t] = "rollback" /\ \E to \in {"idle", "close"} : pc' = [pc EXCEPT ![t] = to]
    BY <1>8 DEF RemoveOne, RollbackOne, RolledBack, AfterRegister, boxVars, clientVars, serverVars
  <2> HIDE DEF Threads
  <2>3. \A u \in Threads : pc[t] = "rollback" => u = t \/ ~InLock(u)
    BY <1>0
  <2> QED
    BY <1>0, <2>1, <2>2, <2>3, ListingKept DEF ListingInv
<1> QED
  BY <1>1, <1>2, <1>3, <1>4, <1>5, <1>6, <1>7, <1>8 DEF Registering

(* ListingInv is inductive, given the mutex and the types.                 *)
LEMMA ListingStep == IInv /\ IInv' /\ ListingInv /\ [Next]_vars => ListingInv'
<1> SUFFICES ASSUME IInv, IInv', ListingInv, [Next]_vars PROVE ListingInv'
  OBVIOUS
<1> USE ThreadsAssumption, EntriesAssumption
<1>0. TypeOK /\ published \in history
  BY DEF IInv, ListingInv
<1>1. CASE UNCHANGED vars
  BY <1>0, <1>1, ListingKept DEF vars, boxVars, clientVars, localVars, serverVars, Owned
<1>2. CASE Starting \/ DeliverChange \/ SessionEnded \/ (\E r \in Refreshers : ToolsChanged(r))
           \/ (\E c \in Closers : CallClose(c))
  <2>1. UNCHANGED <<box, ctools, registered, specs, published, history, listed>>
    BY <1>2 DEF Starting, Connect, ConnectFails, BecomeReady, DeliverChange, SessionEnded,
                ToolsChanged, CallClose, boxVars, clientVars, localVars, serverVars
  <2>2. \A u \in Threads : pc'[u] = pc[u] \/ pc'[u] \notin {"lock", "remove", "add", "put"}
    BY <1>0, <1>2 DEF Starting, Connect, ConnectFails, BecomeReady, DeliverChange, SessionEnded,
                      ToolsChanged, CallClose, TypeOK
  <2> HIDE DEF Threads
  <2> QED
    BY <1>0, <2>1, <2>2, ListingKept DEF Owned
<1>3. ASSUME NEW t \in Threads, Closing(t) PROVE ListingInv'
  <2>1. /\ UNCHANGED <<box, registered, specs, published, history, listed>>
        /\ ctools' \in {ctools, {}}
    BY <1>3 DEF Closing, Unready, CloseSession, LockToDisconnect, Disconnected,
                boxVars, clientVars, localVars, serverVars
  <2>2. \A u \in Threads : pc'[u] = pc[u] \/ pc'[u] \notin {"lock", "remove", "add", "put"}
    BY <1>0, <1>3 DEF Closing, Unready, CloseSession, LockToDisconnect, Disconnected, TypeOK
  <2> HIDE DEF Threads
  <2> QED
    BY <1>0, <2>1, <2>2, ListingKept DEF Owned
<1>4. CASE Environment
  <2>1. /\ UNCHANGED <<ctools, registered, specs, listed, pc>>
        /\ history \subseteq history' /\ published' \in history'
    BY <1>0, <1>4 DEF Environment, ServerChangesList, ServerExits, OtherAdds, OtherRemoves,
                boxVars, clientVars, localVars, serverVars
  <2>2. Owned' \subseteq Owned /\ \A n \in Owned' : box'[n] = box[n]
    BY <1>0, <1>4 DEF Environment, ServerChangesList, ServerExits, OtherAdds, OtherRemoves,
                      TB!AddTool, TB!AddAccepts, TB!RemoveTool, boxVars, Owned, TypeOK
  <2> HIDE DEF Threads
  <2> QED
    BY <2>1, <2>2, ListingKept
<1> QED
  BY <1>1, <1>2, <1>3, <1>4, ListingRegisters DEF Next, Finished

(* A list is on its way, or registered, only as a whole.                   *)
THEOREM ListingInvariance == Spec => []ListingInv
<1>1. Init => ListingInv
  BY ThreadsAssumption DEF Init, ListingInv
<1> QED
  BY <1>1, ListingStep, Invariance, PTL DEF Spec

(* Between registrations the client's names are those of exactly one list  *)
(* the server published, each kept tool of it has one, and each name still *)
(* in the box runs that list's tool.                                       *)
THEOREM AlwaysOneListing ==
  ASSUME HashesDistinct
  PROVE  Spec => []OneListing
<1>1. IInv /\ ListingInv => OneListing
  <2> SUFFICES ASSUME IInv, ListingInv, ctools # {}
               PROVE  \E L \in history :
                        /\ ctools = DOMAIN Registration(L)
                        /\ \A i \in 1..Len(L) :
                             Excluded(L[i]) \/ \E n \in ctools : Registration(L)[n] = L[i]
                        /\ \A n \in ctools \cap Owned : box[n] = Registration(L)[n]
    BY DEF OneListing
  <2>1. PICK L \in history : Stands(L, ctools)
    BY DEF ListingInv
  <2>2. L \in Seq(ServerTools)
    BY ListingsAssumption DEF IInv, TypeOK
  <2>3. ctools = DOMAIN Registration(L)
    BY <2>1 DEF Stands
  <2>4. \A i \in 1..Len(L) : Excluded(L[i]) \/ \E n \in ctools : Registration(L)[n] = L[i]
    BY <2>2, <2>3, KeptHaveNames
  <2> QED
    BY <2>1, <2>3, <2>4 DEF Stands
<1> QED
  BY <1>1, Invariance, ListingInvariance, PTL

-----------------------------------------------------------------------------
(* What the client promises.                                               *)

(* Whatever threads, locks and the tool box do, the client is one that is  *)
(* live until it ends, and offers nothing or one catalog at a time.        *)
THEOREM KeepsRegistration == Spec => ImplementsRegistration
<1> DEFINE Catalogs == {DOMAIN Registration(L) : L \in Listings}
<1> USE DEF Abstract!Init, Abstract!Next, Abstract!Withdraw, Abstract!Offer, Abstract!End,
            Abstract!vars
<1>1. Init => Abstract!Init
  BY DEF Init
<1>2. ASSUME IInv, ListingInv, [Next]_vars PROVE [Abstract!Next]_(Abstract!vars)
  <2>1. CASE UNCHANGED <<connected, ctools>>
    BY <2>1
  <2>2. ASSUME NEW t \in Threads, RemovedAll(t) PROVE [Abstract!Next]_(Abstract!vars)
    BY <2>2 DEF RemovedAll
  <2>3. ASSUME NEW t \in Threads, Commit(t) PROVE [Abstract!Next]_(Abstract!vars)
    <3>1. /\ connected' = connected /\ connected /\ ctools = {} /\ ctools' = registered
          /\ pc[t] = "add" /\ specs = <<>>
      BY <1>2, <2>3 DEF Commit, IInv, AddingInv, ConnectedInv
    <3>2. PICK L \in history : Stands(L, registered)
      BY <1>2, <3>1, CommittedWhole DEF IInv
    <3>3. L \in Listings /\ registered = DOMAIN Registration(L)
      BY <1>2, <3>2 DEF IInv, TypeOK, Stands
    <3>4. ctools' \in Catalogs
      BY <3>1, <3>3
    <3> QED
      BY <3>1, <3>4
  <2>4. ASSUME NEW t \in Threads, Disconnected(t) PROVE [Abstract!Next]_(Abstract!vars)
    BY <1>2, <2>4 DEF Disconnected, IInv, ConnectedInv, TypeOK
  <2> QED
    BY <1>2, <2>1, <2>2, <2>3, <2>4
    DEF Next, Finished, vars, clientVars, Environment, Starting, Connect, ConnectFails, BecomeReady,
        DeliverChange, SessionEnded, ToolsChanged, CallClose, Registering, Closing, ListTools,
        ListFails, LockToRegister, RemoveOne, SkipExcluded, CheckName, AddOne, RollbackOne,
        RolledBack, Unready, CloseSession, LockToDisconnect, ServerChangesList, ServerExits,
        OtherAdds, OtherRemoves
<1> QED
  BY <1>1, <1>2, Invariance, ListingInvariance, PTL DEF Spec, ImplementsRegistration, Abstract!Spec
=============================================================================
