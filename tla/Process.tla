------------------------------ MODULE Process -------------------------------
(***************************************************************************)
(* A child process and the goroutines around it                            *)
(* (src/internal/command/process.go): reap waits for it, readLoop passes   *)
(* its output line by line to Output, writeLoop passes Write's messages to *)
(* its stdin, and Close stops it, asking first and killing at last.        *)
(*                                                                         *)
(* Lines are counted, not named: the pipe and the channel keep their       *)
(* order.  The output pipe ends when every holder of its write end is      *)
(* gone: the process, and a child of it that inherited the descriptor.     *)
(* A grace period may end at any moment; the process may exit, ignore      *)
(* SIGTERM, or close its output and go on.                                 *)
(***************************************************************************)
EXTENDS Integers

CONSTANTS
  Callers,    (* goroutines that call Close                                *)
  Reader,     (* the goroutine readLoop starts with "go p.Close()"         *)
  NoOne,
  Writers,    (* goroutines that call Write once                           *)
  Inherits,   (* the process leaves a child holding its output             *)
  MaxLines,   (* bound: lines written                                      *)
  PipeLines   (* bound: lines the pipe holds                               *)

Closers == Callers \cup {Reader}

ASSUME ProcessAssumption ==
  /\ Reader \notin Callers /\ NoOne \notin Closers
  /\ Inherits \in BOOLEAN /\ MaxLines \in Nat /\ PipeLines \in Nat \ {0}

VARIABLES
  alive, how,      (* the process runs; how it ended: "own" or "signal",   *)
                   (* or "unstarted" while there is none                   *)
  sig,             (* the last signal stopProcess sent                     *)
  holders,         (* who holds the write end of the output pipe           *)
  written, buffered, delivered, (* lines: written, in the pipe, received   *)
  reader,          (* readLoop; "done" also says that incoming is closed   *)
  writer,          (* writeLoop                                            *)
  reaper, exited, notified,     (* reap, the channel exited, OnExit calls  *)
  closing, owner, onceDone,     (* the channel closing; closeOnce          *)
  cpc,             (* each closer                                          *)
  wpc              (* each Write                                           *)

procVars   == <<alive, how, sig, holders>>
outVars    == <<written, buffered, delivered>>
reapVars   == <<reaper, exited, notified>>
closeVars  == <<closing, owner, onceDone, cpc>>
inputVars  == <<writer, wpc>>
processVars == <<procVars, outVars, reader, reapVars, closeVars, inputVars>>

(* There is no process yet.                                                *)
Init ==
  /\ alive = FALSE /\ how = "unstarted" /\ sig = "none" /\ holders = {}
  /\ written = 0 /\ buffered = 0 /\ delivered = 0
  /\ reader = "off" /\ writer = "off"
  /\ reaper = "off" /\ exited = FALSE /\ notified = 0
  /\ closing = FALSE /\ owner = NoOne /\ onceDone = FALSE
  /\ cpc = [c \in Closers |-> "idle"]
  /\ wpc = [w \in Writers |-> "idle"]

(* NewProcess succeeds: the process runs and its goroutines wait.  One that*)
(* fails leaves nothing behind, and the caller without a Process.          *)
NewProcess ==
  /\ how = "unstarted"
  /\ alive' = TRUE /\ how' = "none"
  /\ holders' = {"process"} \cup (IF Inherits THEN {"child"} ELSE {})
  /\ reader' = "scan" /\ reaper' = "wait" /\ writer' \in {"off", "select"}
  /\ UNCHANGED <<sig, outVars, exited, notified, closeVars, wpc>>

-----------------------------------------------------------------------------
(* The process and its child.                                              *)

WriteLine ==
  /\ holders # {} /\ written < MaxLines /\ buffered < PipeLines
  /\ written' = written + 1 /\ buffered' = buffered + 1
  /\ UNCHANGED <<procVars, delivered, reader, reapVars, closeVars, inputVars>>

CloseOutput ==
  /\ alive /\ "process" \in holders
  /\ holders' = holders \ {"process"}
  /\ UNCHANGED <<alive, how, sig, outVars, reader, reapVars, closeVars, inputVars>>

Exit(cause) ==
  /\ alive
  /\ alive' = FALSE /\ how' = cause /\ holders' = holders \ {"process"}
  /\ UNCHANGED <<sig, outVars, reader, reapVars, closeVars, inputVars>>

(* SIGTERM may end the process; SIGKILL does.                              *)
Signalled == sig # "none" /\ Exit("signal")

ChildEnds ==
  /\ "child" \in holders
  /\ holders' = holders \ {"child"}
  /\ UNCHANGED <<alive, how, sig, outVars, reader, reapVars, closeVars, inputVars>>

-----------------------------------------------------------------------------
(* reap.                                                                   *)

ReapStep ==
  /\ \/ reaper = "wait" /\ ~alive
        /\ reaper' = "notify" /\ UNCHANGED <<exited, notified>>
     \/ reaper = "notify"
        /\ reaper' = "close" /\ notified' = notified + 1 /\ UNCHANGED exited
     \/ reaper = "close"
        /\ reaper' = "done" /\ exited' = TRUE /\ UNCHANGED notified
  /\ UNCHANGED <<procVars, outVars, reader, closeVars, inputVars>>

-----------------------------------------------------------------------------
(* readLoop.                                                               *)

Scan ==
  /\ reader = "scan" /\ buffered > 0
  /\ buffered' = buffered - 1 /\ reader' = "send"
  /\ UNCHANGED <<procVars, written, delivered, reapVars, closeVars, inputVars>>

(* The consumer receives from Output.                                      *)
Receive ==
  /\ reader = "send"
  /\ reader' = "scan" /\ delivered' = delivered + 1
  /\ UNCHANGED <<procVars, written, buffered, reapVars, closeVars, inputVars>>

(* Mutant of SendAborted: a blocked send does not watch closing.           *)
SendAbortedNever == FALSE /\ UNCHANGED processVars

(* The other branch of the select: the line in hand is dropped.            *)
SendAborted ==
  /\ reader = "send" /\ closing
  /\ reader' = "done"
  /\ UNCHANGED <<procVars, outVars, reapVars, closeVars, inputVars>>

(* End of file: go p.Close(), and the channel is closed.                   *)
EndOfOutput ==
  /\ reader = "scan" /\ buffered = 0 /\ holders = {}
  /\ reader' = "done" /\ cpc' = [cpc EXCEPT ![Reader] = "enter"]
  /\ UNCHANGED <<procVars, outVars, reapVars, closing, owner, onceDone, inputVars>>

ReadStep == Scan \/ SendAborted \/ EndOfOutput

-----------------------------------------------------------------------------
(* Close.                                                                  *)

CallClose(c) ==
  /\ how # "unstarted" /\ cpc[c] \in {"idle", "returned"}
  /\ cpc' = [cpc EXCEPT ![c] = "enter"]
  /\ UNCHANGED <<procVars, outVars, reader, reapVars, closing, owner, onceDone, inputVars>>

(* Mutant of EnterOnce: a flag in place of sync.Once, which does not wait. *)
EnterOnceNoWait(c) ==
  /\ cpc[c] = "enter"
  /\ IF owner = NoOne
     THEN owner' = c /\ closing' = TRUE /\ cpc' = [cpc EXCEPT ![c] = "term"]
     ELSE cpc' = [cpc EXCEPT ![c] = "returned"] /\ UNCHANGED <<owner, closing>>
  /\ UNCHANGED <<procVars, outVars, reader, reapVars, onceDone, inputVars>>

(* closeOnce.Do: the first caller closes closing and stops the process,    *)
(* the others wait until it has.                                           *)
EnterOnce(c) ==
  /\ cpc[c] = "enter"
  /\ \/ /\ owner = NoOne
        /\ owner' = c /\ closing' = TRUE
        /\ cpc' = [cpc EXCEPT ![c] = "term"]
     \/ /\ onceDone
        /\ cpc' = [cpc EXCEPT ![c] = "returned"]
        /\ UNCHANGED <<owner, closing>>
  /\ UNCHANGED <<procVars, outVars, reader, reapVars, onceDone, inputVars>>

(* stopProcess: the process has exited within the grace period ...         *)
ExitSeen(c) ==
  /\ cpc[c] \in {"term", "kill"} /\ exited
  /\ cpc' = [cpc EXCEPT ![c] = "reap"]
  /\ UNCHANGED <<procVars, outVars, reader, reapVars, closing, owner, onceDone, inputVars>>

(* ... or not, and gets the signal whose turn it is.                       *)
GraceOver(c) ==
  /\ cpc[c] \in {"term", "kill"}
  /\ sig' = IF alive THEN cpc[c] ELSE sig
  /\ cpc' = [cpc EXCEPT ![c] = IF cpc[c] = "term" THEN "kill" ELSE "reap"]
  /\ UNCHANGED <<alive, how, holders, outVars, reader, reapVars, closing, owner,
                 onceDone, inputVars>>

Reaped(c) ==
  /\ cpc[c] = "reap" /\ exited
  /\ cpc' = [cpc EXCEPT ![c] = "returned"] /\ onceDone' = TRUE
  /\ UNCHANGED <<procVars, outVars, reader, reapVars, closing, owner, inputVars>>

CloseStep(c) == EnterOnce(c) \/ ExitSeen(c) \/ GraceOver(c) \/ Reaped(c)

-----------------------------------------------------------------------------
(* Write and writeLoop.                                                    *)

(* A message with a newline, or a process without a stdin.                 *)
Reject(w) ==
  /\ how # "unstarted" /\ wpc[w] = "idle"
  /\ wpc' = [wpc EXCEPT ![w] = "rejected"]
  /\ UNCHANGED <<procVars, outVars, reader, reapVars, closeVars, writer>>

Write(w) ==
  /\ wpc[w] = "idle" /\ writer # "off"
  /\ wpc' = [wpc EXCEPT ![w] = "select"]
  /\ UNCHANGED <<procVars, outVars, reader, reapVars, closeVars, writer>>

(* The send and the receive of outgoing meet.                              *)
Take(w) ==
  /\ wpc[w] = "select" /\ writer = "select"
  /\ wpc' = [wpc EXCEPT ![w] = "sent"] /\ writer' = "write"
  /\ UNCHANGED <<procVars, outVars, reader, reapVars, closeVars>>

ContextEnds(w) ==
  /\ wpc[w] = "select"
  /\ wpc' = [wpc EXCEPT ![w] = "canceled"]
  /\ UNCHANGED <<procVars, outVars, reader, reapVars, closeVars, writer>>

Refused(w) ==
  /\ wpc[w] = "select" /\ (closing \/ exited)
  /\ wpc' = [wpc EXCEPT ![w] = "closed"]
  /\ UNCHANGED <<procVars, outVars, reader, reapVars, closeVars, writer>>

(* The process reads the message from its stdin.                           *)
ReadInput ==
  /\ writer = "write" /\ alive
  /\ writer' = "select"
  /\ UNCHANGED <<procVars, outVars, reader, reapVars, closeVars, wpc>>

(* The process has closed its stdin and runs on: the write fails, and      *)
(* writeLoop returns.                                                      *)
InputClosed ==
  /\ writer = "write" /\ alive
  /\ writer' = "done"
  /\ UNCHANGED <<procVars, outVars, reader, reapVars, closeVars, wpc>>

(* writeLoop returns: closing is closed, or the process is gone and the    *)
(* write fails.                                                            *)
WriteLoopEnds ==
  /\ \/ writer = "select" /\ closing
     \/ writer = "write" /\ ~alive
  /\ writer' = "done"
  /\ UNCHANGED <<procVars, outVars, reader, reapVars, closeVars, wpc>>

-----------------------------------------------------------------------------
(* What the goroutines of the package do, and what the world does.         *)
Goroutines ==
  \/ ReapStep \/ ReadStep \/ WriteLoopEnds
  \/ \E c \in Closers : CloseStep(c)
  \/ \E w \in Writers : Take(w) \/ Refused(w)

World ==
  \/ WriteLine \/ CloseOutput \/ Exit("own") \/ Signalled \/ ChildEnds \/ ReadInput
  \/ InputClosed

Next ==
  \/ NewProcess \/ Goroutines \/ World \/ Receive
  \/ \E c \in Callers : CallClose(c)
  \/ \E w \in Writers : Reject(w) \/ Write(w) \/ ContextEnds(w)

(* Goroutines are scheduled, grace periods end, and SIGKILL kills.  The    *)
(* process, its child, the consumer and the callers owe nothing.           *)
ProcessFairness ==
  /\ WF_processVars(ReapStep) /\ WF_processVars(ReadStep) /\ WF_processVars(WriteLoopEnds)
  /\ \A c \in Closers : WF_processVars(CloseStep(c))
  /\ \A w \in Writers : WF_processVars(Take(w) \/ Refused(w))
  /\ WF_processVars(sig = "kill" /\ Signalled)

Spec == Init /\ [][Next]_processVars
FairSpec == Spec /\ ProcessFairness

-----------------------------------------------------------------------------
(* What must hold.                                                         *)

(* The type invariant: every variable of the process, its pipes and its    *)
(* goroutines keeps to its type.                                           *)
TypeOK ==
  /\ alive \in BOOLEAN /\ how \in {"none", "own", "signal", "unstarted"}
  /\ sig \in {"none", "term", "kill"}
  /\ holders \subseteq {"process", "child"}
  /\ written \in Nat /\ buffered \in Nat /\ delivered \in Nat
  /\ reader \in {"off", "scan", "send", "done"}
  /\ writer \in {"off", "select", "write", "done"}
  /\ reaper \in {"off", "wait", "notify", "close", "done"}
  /\ exited \in BOOLEAN /\ notified \in Nat
  /\ closing \in BOOLEAN /\ owner \in Closers \cup {NoOne} /\ onceDone \in BOOLEAN
  /\ cpc \in [Closers -> {"idle", "enter", "term", "kill", "reap", "returned"}]
  /\ wpc \in [Writers -> {"idle", "rejected", "select", "sent", "canceled", "closed"}]

(* Before NewProcess nothing waits and nothing reads.                      *)
StartInv == how = "unstarted" => reader = "off" /\ reaper = "off"

(* reap goes forward once: the process is dead, OnExit has run, the        *)
(* channel is closed.                                                      *)
ReapInv ==
  /\ alive <=> how = "none"
  /\ reaper # "wait" => ~alive
  /\ notified = (IF reaper \in {"close", "done"} THEN 1 ELSE 0)
  /\ exited <=> reaper = "done"

(* closeOnce has one owner, and is done when the process is reaped.        *)
OnceInv ==
  /\ closing <=> owner # NoOne
  /\ onceDone => exited /\ closing
  /\ \A c \in Closers : cpc[c] \in {"term", "kill", "reap"} => owner = c /\ ~onceDone
  /\ \A c \in Closers : cpc[c] = "returned" => onceDone
  /\ sig # "none" => closing

(* No line is lost before somebody asks for the process to stop.           *)
LinesInv ==
  /\ delivered + buffered + (IF reader = "send" THEN 1 ELSE 0) <= written
  /\ ~closing => delivered + buffered + (IF reader = "send" THEN 1 ELSE 0) = written
  /\ reader = "done" /\ ~closing => buffered = 0 /\ holders = {}

(* The inductive invariant: the types and the parts named above, which     *)
(* every step keeps.                                                       *)
IInv == TypeOK /\ StartInv /\ ReapInv /\ OnceInv /\ LinesInv

(* "Close blocks until the process is reaped": whoever called it, also     *)
(* while another call of it runs, finds the process dead and OnExit        *)
(* called, once.                                                           *)
CloseReaps ==
  \A c \in Closers : cpc[c] = "returned" => ~alive /\ exited /\ notified = 1

(* Output that is closed before anybody called Close is complete: no line  *)
(* is missing and nobody is left who could write one.                      *)
OutputComplete ==
  reader = "done" /\ ~closing => delivered = written /\ holders = {}

(* Close returns, whatever the process does about SIGTERM, and "releases   *)
(* everything NewProcess started": both loops end, the reader's unless a   *)
(* child that outlives the process keeps the output, and a Write whose     *)
(* context never ends returns once the process is gone.                    *)
CloseCompletes ==
  /\ \A c \in Callers : cpc[c] = "enter" ~> cpc[c] = "returned"
  /\ closing ~> writer \in {"off", "done"}
  /\ closing /\ "child" \notin holders ~> reader = "done"
  /\ \A w \in Writers : (wpc[w] = "select" /\ exited) ~> wpc[w] # "select"

=============================================================================
