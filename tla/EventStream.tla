----------------------------- MODULE EventStream ----------------------------
(***************************************************************************)
(* rest.Events (src/internal/rest/stream.go): the lines of a body become   *)
(* server-sent events, whose data the readers of Anthropic's and           *)
(* OpenRouter's streams parse.                                             *)
(*                                                                         *)
(* A line is data, blank, or another field or comment; data is told apart  *)
(* by the number of its line.  The last line may lack its newline, which   *)
(* is what a body that is cut off looks like.                              *)
(***************************************************************************)
EXTENDS Naturals, Sequences, Positions

CONSTANT MaxBody  (* bound: lines of a body                                *)

Kinds == {"data", "blank", "other"}

VARIABLES
  lines,    (* history: the lines read so far                              *)
  data,     (* the data of the event being read                            *)
  events,   (* what was yielded: each event is the data of its lines       *)
  outcome   (* "reading", "ended", "error", "left"                         *)

vars == <<lines, data, events, outcome>>

Init == lines = <<>> /\ data = <<>> /\ events = <<>> /\ outcome = "reading"

(* A line is read, and its data is joined to that of the event.            *)
Read(kind) ==
  /\ outcome = "reading" /\ Len(lines) < MaxBody
  /\ lines' = Append(lines, kind)

Joined(kind) == IF kind = "data" THEN Append(data, Len(lines')) ELSE data

(* An event is yielded when it has data; its reader may stop then.         *)
Yield(joined, next) ==
  IF joined = <<>> THEN outcome' = next /\ UNCHANGED <<data, events>>
  ELSE /\ events' = Append(events, joined)
       /\ \/ data' = <<>> /\ outcome' = next
          \/ UNCHANGED data /\ outcome' = "left"

Line(kind) ==
  /\ Read(kind)
  /\ IF kind = "blank" THEN Yield(data, "reading")
     ELSE data' = Joined(kind) /\ UNCHANGED <<events, outcome>>

(* The body ends after a whole line, or within one that still counts.      *)
Ends == outcome = "reading" /\ UNCHANGED lines /\ Yield(data, "ended")
EndsInLine(kind) == Read(kind) /\ Yield(Joined(kind), "ended")

(* Any other error of the body goes to the reader, and the data read so    *)
(* far with the line it broke off in does not.                             *)
Breaks ==
  /\ outcome = "reading" /\ outcome' = "error"
  /\ UNCHANGED <<lines, data, events>>

Next == (\E kind \in Kinds : Line(kind) \/ EndsInLine(kind)) \/ Ends \/ Breaks

Spec == Init /\ [][Next]_vars

-----------------------------------------------------------------------------
(* What must hold.                                                         *)

DataOf(ls) == {k \in 1..Len(ls) : ls[k] = "data"}
Parted(ls, i, j) == \E k \in i..j : ls[k] = "blank"
Unread(ls) == {k \in DataOf(ls) : ~Parted(ls, k, Len(ls))}
LinesOf(event) == {event[n] : n \in 1..Len(event)}
LinesOfAll(es) == UNION {LinesOf(es[e]) : e \in 1..Len(es)}

(* Data of two lines is one event unless a blank line parts them.          *)
Grouped(ls, es) ==
  /\ \A e \in 1..Len(es) :
       /\ es[e] # <<>> /\ Lists(es[e], LinesOf(es[e]))
       /\ \A i, j \in LinesOf(es[e]) : ~Parted(ls, i, j)
  /\ \A e, f \in 1..Len(es) : e < f =>
       \A i \in LinesOf(es[e]), j \in LinesOf(es[f]) : i < j /\ Parted(ls, i, j)

(* Data of two lines is one event unless a blank line parts them; no data  *)
(* is lost or repeated in a body that is read to its end, and none of an   *)
(* event that the body broke off in is handed on.                          *)
EventsAreWhole ==
  /\ Grouped(lines, events)
  /\ LinesOfAll(events) \subseteq DataOf(lines)
  /\ \A i \in LinesOfAll(events), k \in DataOf(lines) : k < i => k \in LinesOfAll(events)
  /\ outcome = "ended" => LinesOfAll(events) = DataOf(lines)
  /\ outcome \in {"reading", "error"} =>
       LinesOfAll(events) = DataOf(lines) \ Unread(lines)

(* The inductive invariant: what is read of an event is the data of the    *)
(* lines since the last blank one.                                         *)
EventsInv ==
  /\ lines \in Seq(Kinds) /\ data \in Seq(Nat) /\ events \in Seq(Seq(Nat))
  /\ outcome \in {"reading", "ended", "error", "left"}
  /\ outcome = "reading" => Lists(data, Unread(lines))
  /\ EventsAreWhole
=============================================================================
