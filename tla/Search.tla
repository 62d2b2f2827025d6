------------------------------- MODULE Search -------------------------------
(***************************************************************************)
(* search.Files (src/internal/search/search.go): a walk over the files of  *)
(* a folder that collects the lines that match, file by file, and stops    *)
(* one match past the limit.                                               *)
(*                                                                         *)
(* A folder is the sequence of its files in the order of the walk.  Of a   *)
(* line it only matters whether it matches, and whether it is too long for *)
(* the scanner; a match is the file's place and the line's number.         *)
(***************************************************************************)
EXTENDS Naturals, Sequences, SequencesExt

CONSTANTS
  MaxLines,      (* bound: lines of a file                                 *)
  MaxFiles,      (* bound: files of the folder                             *)
  MatchLimits    (* the values of Config.MaxMatches, 0 for no limit        *)

(* Why a file is passed over: it is not regular, does not match Glob, the  *)
(* walk cannot reach it, it does not open, or it looks binary.             *)
Skips == {"irregular", "other name", "unreachable", "unopened", "binary"}

Files ==
  [skip : {"no"}, deep : BOOLEAN, lines : BoundedSeq({"hit", "miss", "long"}, MaxLines)]
    \union [skip : Skips, deep : {FALSE}, lines : {<<"hit">>}]

VARIABLES
  folder,       (* Config.Dir                                              *)
  recursive,    (* Config.Recursive                                        *)
  maxMatches,   (* Config.MaxMatches                                       *)
  at,           (* the file the walk is at                                 *)
  line,         (* the line the scanner comes to, or 0 with no file open   *)
  found,        (* searchFile's matches: a file's place, a line's number   *)
  matches,      (* result.Matches                                          *)
  truncated,    (* result.Truncated                                        *)
  outcome       (* "walking", "result", "error"                            *)

config == <<folder, recursive, maxMatches>>
vars == <<config, at, line, found, matches, truncated, outcome>>

Init ==
  /\ folder \in BoundedSeq(Files, MaxFiles)
  /\ recursive \in BOOLEAN
  /\ maxMatches \in MatchLimits
  /\ at = 1 /\ line = 0 /\ found = <<>>
  /\ matches = <<>> /\ truncated = FALSE /\ outcome = "walking"

(* The walk enters the folders below only if the search is recursive.      *)
Visited(file) == recursive \/ ~file.deep

(* Mutant of Limit: the search stops at the limit.                         *)
LimitExact == maxMatches

(* One match past the limit tells whether there are more.                  *)
Limit == IF maxMatches > 0 THEN maxMatches + 1 ELSE 0

Stopped == Limit > 0 /\ Len(matches) = Limit

(* The budget of the file, the matches still wanted, is used up.           *)
Full == Limit > 0 /\ Len(found) = Limit - Len(matches)

Walking == outcome = "walking" /\ line = 0

(* The walk comes to a file, which is searched or passed over.             *)
VisitFile ==
  /\ Walking /\ at <= Len(folder) /\ ~Stopped
  /\ IF Visited(folder[at]) /\ folder[at].skip = "no"
     THEN line' = 1 /\ UNCHANGED at
     ELSE at' = at + 1 /\ UNCHANGED line
  /\ UNCHANGED <<config, found, matches, truncated, outcome>>

Scanned == line > Len(folder[at].lines)
TooLong == ~Scanned /\ folder[at].lines[line] = "long"

ScanLine ==
  /\ line > 0 /\ ~Full /\ ~Scanned /\ ~TooLong
  /\ found' = IF folder[at].lines[line] = "hit" THEN Append(found, <<at, line>>)
                                               ELSE found
  /\ line' = line + 1
  /\ UNCHANGED <<config, at, matches, truncated, outcome>>

(* The end of searchFile: a line too long for the scanner loses what was   *)
(* found before it, unless the budget was used up before.                  *)
CloseFile ==
  /\ line > 0 /\ (Full \/ Scanned \/ TooLong)
  /\ matches' = IF Full \/ Scanned THEN matches \o found ELSE matches
  /\ at' = at + 1 /\ line' = 0 /\ found' = <<>>
  /\ UNCHANGED <<config, truncated, outcome>>

(* The walk ends or was stopped, and the extra match is cut off.           *)
Finish ==
  /\ Walking /\ (at > Len(folder) \/ Stopped)
  /\ outcome' = "result"
  /\ truncated' = Stopped
  /\ matches' = IF Stopped THEN SubSeq(matches, 1, maxMatches) ELSE matches
  /\ UNCHANGED <<config, at, line, found>>

(* ctx ends during the walk, or the folder cannot be opened.               *)
GiveUp ==
  /\ Walking
  /\ outcome' = "error"
  /\ UNCHANGED <<config, at, line, found, matches, truncated>>

Next == VisitFile \/ ScanLine \/ CloseFile \/ Finish \/ GiveUp

Spec == Init /\ [][Next]_vars

-----------------------------------------------------------------------------
(* What must hold.                                                         *)

(* A file that is searched: its matches count.                             *)
Searchable(file) ==
  file.skip = "no" /\ Visited(file) /\ \A k \in DOMAIN file.lines : file.lines[k] # "long"

(* Every match there is, and the order of the walk.                        *)
MatchesOf(i) == {<<i, k>> : k \in {n \in DOMAIN folder[i].lines : folder[i].lines[n] = "hit"}}
AllMatches == UNION {MatchesOf(i) : i \in {n \in DOMAIN folder : Searchable(folder[n])}}
Before(m, n) == m[1] < n[1] \/ (m[1] = n[1] /\ m[2] < n[2])
InOrder(list) == \A i, j \in DOMAIN list : i < j => Before(list[i], list[j])

AllReadable ==
  \A i \in DOMAIN folder : \A k \in DOMAIN folder[i].lines : folder[i].lines[k] # "long"

(* A result that is not marked truncated holds every match, in order; one  *)
(* that is marked holds the first of them, as many as were asked for, and  *)
(* there are more, where every line can be read.                           *)
MarkIsHonest ==
  outcome = "result" =>
    LET listed == ToSet(matches)
        others == AllMatches \ listed
    IN  /\ InOrder(matches)
        /\ ~truncated => listed = AllMatches
        /\ truncated /\ AllReadable =>
             /\ Len(matches) = maxMatches /\ listed \subseteq AllMatches
             /\ others # {} /\ \A m \in listed, n \in others : Before(m, n)
=============================================================================
