------------------------------ MODULE FilePack ------------------------------
(***************************************************************************)
(* The file tools of packs.FileTools (src/packs/file.go) on one file of a  *)
(* folder under the pack's root: file_read, file_write, file_edit,         *)
(* file_delete, and Close of the pack.                                     *)
(*                                                                         *)
(* A text is a sequence of characters, of which NL ends a line: what file_ *)
(* edit counts and what file_read pages through are about nothing else.    *)
(* The file system is modelled by what the handlers see of it: a name      *)
(* leads to a node, an open file stays on its node when the name is        *)
(* removed, and os.Root.WriteFile empties a file before it writes.         *)
(***************************************************************************)
EXTENDS Naturals, Sequences, FiniteSets, FiniteSetsExt

CONSTANTS
  Callers,        (* the agents and other goroutines that call tools       *)
  NL,             (* the newline character                                 *)
  Texts,          (* the texts a file starts with                          *)
  Writes,         (* the texts a model writes                              *)
  Edits,          (* the edits a model asks for: [old, new]                *)
  Limits,         (* the page lengths a model asks for                     *)
  MaxReadBytes,   (* maxFileReadBytes                                      *)
  Nodes           (* bound: the files created under the name, 1..n         *)

None == 0

VARIABLES
  folder,     (* the folder the file is in exists                          *)
  entry,      (* the node the name leads to, or None                       *)
  content,    (* the text of each node                                     *)
  used,       (* the nodes created so far                                  *)
  root,       (* the pack's os.Root is open                                *)
  closed,     (* Close was called: the tools are not in the box            *)
  pc,         (* where each caller is                                      *)
  call,       (* the arguments of its call                                 *)
  fd,         (* the node of the file its call holds open                  *)
  total,      (* the line count of the page being read                     *)
  got,        (* the lines a caller that pages through the file has        *)
  touched     (* history: the file changed since the caller began paging   *)

files == <<folder, entry, content, used>>
paging == <<total, got, touched>>
vars == <<files, root, closed, pc, call, fd, paging>>

NoCall == [offset |-> 1, limit |-> 1, text |-> <<>>, old |-> <<>>]

Init ==
  /\ \/ entry = None /\ used = {} /\ content = [i \in Nodes |-> <<>>]
     \/ /\ entry = 1 /\ used = {1}
        /\ \E t \in Texts : content = [i \in Nodes |-> IF i = 1 THEN t ELSE <<>>]
  /\ folder \in BOOLEAN /\ (entry # None => folder)
  /\ root = TRUE /\ closed = FALSE
  /\ pc = [c \in Callers |-> "idle"]
  /\ call = [c \in Callers |-> NoCall]
  /\ fd = [c \in Callers |-> None]
  /\ total = [c \in Callers |-> 0]
  /\ got = [c \in Callers |-> <<>>]
  /\ touched = [c \in Callers |-> FALSE]

-----------------------------------------------------------------------------
(* Texts.                                                                  *)

Newlines(t) == {i \in 1..Len(t) : t[i] = NL}

(* The lines a bufio.Scanner finds: the last needs no newline.             *)
Lines(t) ==
  LET ends == {0} \union Newlines(t)
                \union (IF t # <<>> /\ t[Len(t)] # NL THEN {Len(t) + 1} ELSE {})
      End(k) == CHOOSE e \in ends : Cardinality({d \in ends : d < e}) = k
  IN  [k \in 1..(Cardinality(ends) - 1) |-> SubSeq(t, End(k - 1) + 1, End(k) - 1)]

(* Mutant of CountLines: a last line without a newline is not counted.     *)
CountNewlines(t) == Cardinality(Newlines(t))

CountLines(t) ==
  Cardinality(Newlines(t)) + (IF t # <<>> /\ t[Len(t)] # NL THEN 1 ELSE 0)

Places(t, s) ==
  {i \in 1..(Len(t) + 1 - Len(s)) : SubSeq(t, i, i + Len(s) - 1) = s}

First(t, s) == CHOOSE i \in Places(t, s) : \A j \in Places(t, s) : i <= j

(* strings.Count(t, s) = 1: it counts places that do not overlap.          *)
MatchesOnce(t, s) ==
  /\ Places(t, s) # {}
  /\ \A i \in Places(t, s) :
       i < First(t, s) + (IF s = <<>> THEN 1 ELSE Len(s))

(* strings.Replace(t, s, new, 1)                                           *)
Replaced(t, s, new) ==
  SubSeq(t, 1, First(t, s) - 1) \o new
    \o SubSeq(t, First(t, s) + Len(s), Len(t))

(* The bytes of the lines from..to, newlines included.                     *)
Bytes(lines, from, to) == MapThenSumSet(LAMBDA i : Len(lines[i]) + 1, from..to)

(* readPage's loop goes on to the k-th line of the page.                   *)
Fits(lines, offset, limit, k) ==
  /\ k <= limit /\ offset + k - 1 <= Len(lines)
  /\ Bytes(lines, offset, offset + k - 2) < MaxReadBytes

(* readPage's scan: a line too long for the scanner spoils every page that *)
(* reaches it, or starts after it.                                         *)
Page(lines, offset, limit) ==
  LET n == Max({0} \union {k \in 1..Len(lines) : Fits(lines, offset, limit, k)})
      scanned == 1..Min({Len(lines), offset + n - 1})
  IN  [lines |-> SubSeq(lines, offset, offset + n - 1),
       error |-> \E i \in scanned : Len(lines[i]) >= MaxReadBytes]

-----------------------------------------------------------------------------
(* Calls.                                                                  *)

(* A call is looked up in the box and starts.                              *)
Starts(c, from, to) ==
  /\ pc[c] = from /\ ~closed
  /\ pc' = [pc EXCEPT ![c] = to]

Goes(c, from, to) == pc[c] = from /\ pc' = [pc EXCEPT ![c] = to]

Touched ==
  touched' = [c \in Callers |->
                touched[c] \/ pc[c] \in {"paging", "open", "count", "scan", "read"}]

(* A caller begins to page through the file.                               *)
BeginPaging(c, limit) ==
  /\ Goes(c, "idle", "paging")
  /\ call' = [call EXCEPT ![c] = [NoCall EXCEPT !.limit = limit]]
  /\ UNCHANGED <<files, root, closed, fd, paging>>

ReadFile(c) ==
  /\ Starts(c, "paging", "open")
  /\ UNCHANGED <<files, root, closed, call, fd, paging>>

(* root.Open                                                               *)
OpenFile(c) ==
  /\ IF root /\ entry # None
     THEN Goes(c, "open", "count") /\ fd' = [fd EXCEPT ![c] = entry]
     ELSE Goes(c, "open", "failed") /\ UNCHANGED fd
  /\ UNCHANGED <<files, root, closed, call, paging>>

(* countLines                                                              *)
Count(c) ==
  /\ Goes(c, "count", "scan")
  /\ total' = [total EXCEPT ![c] = CountLines(content[fd[c]])]
  /\ UNCHANGED <<files, root, closed, call, fd, got, touched>>

(* The scan and the result.  A caller that pages asks for the lines after  *)
(* those it has, until the result's "from-to of total" says it has them    *)
(* all.                                                                    *)
Scan(c) ==
  /\ pc[c] = "scan"
  /\ LET page == Page(Lines(content[fd[c]]), call[c].offset, call[c].limit)
         next == call[c].offset + Len(page.lines)
     IN  IF page.error THEN Goes(c, "scan", "failed") /\ UNCHANGED <<call, got>>
         ELSE /\ Goes(c, "scan", IF next > total[c] THEN "read" ELSE "paging")
              /\ call' = [call EXCEPT ![c].offset = next]
              /\ got' = [got EXCEPT ![c] = @ \o page.lines]
  /\ fd' = [fd EXCEPT ![c] = None]
  /\ total' = [total EXCEPT ![c] = 0]
  /\ UNCHANGED <<files, root, closed, touched>>

EndPaging(c) ==
  /\ pc[c] \in {"read", "failed"} \/ (pc[c] = "paging" /\ closed)
  /\ pc' = [pc EXCEPT ![c] = "idle"]
  /\ call' = [call EXCEPT ![c] = NoCall]
  /\ got' = [got EXCEPT ![c] = <<>>]
  /\ touched' = [touched EXCEPT ![c] = FALSE]
  /\ UNCHANGED <<files, root, closed, fd, total>>

WriteFile(c, t) ==
  /\ Starts(c, "idle", "mkdir")
  /\ call' = [call EXCEPT ![c] = [NoCall EXCEPT !.text = t]]
  /\ UNCHANGED <<files, root, closed, fd, paging>>

(* root.MkdirAll                                                           *)
MakeFolder(c) ==
  /\ IF root THEN Goes(c, "mkdir", "create") /\ folder' = TRUE
             ELSE Goes(c, "mkdir", "idle") /\ UNCHANGED folder
  /\ call' = IF root THEN call ELSE [call EXCEPT ![c] = NoCall]
  /\ UNCHANGED <<entry, content, used, root, closed, fd, paging>>

(* root.WriteFile opens the file and empties it ...                        *)
Truncate(c) ==
  /\ root /\ entry # None
  /\ Goes(c, "create", "put")
  /\ content' = [content EXCEPT ![entry] = <<>>]
  /\ fd' = [fd EXCEPT ![c] = entry]
  /\ Touched
  /\ UNCHANGED <<folder, entry, used, root, closed, call, total, got>>

(* ... or creates it where there is none ...                               *)
Create(c) ==
  /\ root /\ folder /\ entry = None
  /\ \E i \in Nodes \ used :
       /\ \A j \in Nodes \ used : i <= j
       /\ entry' = i /\ used' = used \union {i}
       /\ fd' = [fd EXCEPT ![c] = i]
  /\ Goes(c, "create", "put")
  /\ Touched
  /\ UNCHANGED <<folder, content, root, closed, call, total, got>>

(* ... and fails if the pack was closed or the folder was deleted.         *)
CannotWrite(c) ==
  /\ ~root \/ (entry = None /\ ~folder)
  /\ Goes(c, "create", "idle")
  /\ call' = [call EXCEPT ![c] = NoCall]
  /\ UNCHANGED <<files, root, closed, fd, paging>>

(* The write goes to the start of the file: what another call put there    *)
(* since the file was emptied stays where the text is shorter.             *)
Put(c) ==
  LET t == call[c].text
      i == fd[c]
  IN  /\ Goes(c, "put", "idle")
      /\ content' = [content EXCEPT ![i] = t \o SubSeq(@, Len(t) + 1, Len(@))]
      /\ fd' = [fd EXCEPT ![c] = None]
      /\ call' = [call EXCEPT ![c] = NoCall]
      /\ Touched
      /\ UNCHANGED <<folder, entry, used, root, closed, total, got>>

EditFile(c, e) ==
  /\ Starts(c, "idle", "load")
  /\ call' = [call EXCEPT ![c] = [NoCall EXCEPT !.old = e.old, !.text = e.new]]
  /\ UNCHANGED <<files, root, closed, fd, paging>>

(* root.ReadFile and the count: the edited text is written as it is known  *)
(* here, whatever happens to the file before the write.                    *)
Load(c) ==
  /\ pc[c] = "load"
  /\ LET t == content[entry] IN
     IF root /\ entry # None /\ MatchesOnce(t, call[c].old)
     THEN /\ Goes(c, "load", "create")
          /\ call' = [call EXCEPT ![c].text = Replaced(t, call[c].old, @)]
     ELSE Goes(c, "load", "idle") /\ call' = [call EXCEPT ![c] = NoCall]
  /\ UNCHANGED <<files, root, closed, fd, paging>>

DeleteFile(c) ==
  /\ Starts(c, "idle", "remove")
  /\ UNCHANGED <<files, root, closed, call, fd, paging>>

(* root.Remove of the file, or of its folder where that is empty.          *)
RemoveEntry(c) ==
  /\ Goes(c, "remove", "idle")
  /\ \/ /\ root /\ entry # None
        /\ entry' = None
        /\ Touched
        /\ UNCHANGED <<folder, content, used, total, got>>
     \/ /\ root /\ entry = None /\ folder
        /\ folder' = FALSE
        /\ UNCHANGED <<entry, content, used, paging>>
     \/ UNCHANGED <<files, paging>>
  /\ UNCHANGED <<root, closed, call, fd>>

(* Close: calls in progress go on, with the files they hold open.          *)
Close ==
  /\ ~closed /\ closed' = TRUE
  /\ root' = FALSE
  /\ UNCHANGED <<files, pc, call, fd, paging>>

Step(c) ==
  \/ ReadFile(c) \/ OpenFile(c) \/ Count(c) \/ Scan(c)
  \/ MakeFolder(c) \/ Truncate(c) \/ Create(c) \/ CannotWrite(c) \/ Put(c)
  \/ Load(c) \/ RemoveEntry(c)

Next ==
  \/ \E c \in Callers :
       \/ \E limit \in Limits : BeginPaging(c, limit)
       \/ \E t \in Writes : WriteFile(c, t)
       \/ \E e \in Edits : EditFile(c, e)
       \/ DeleteFile(c) \/ EndPaging(c) \/ Step(c)
  \/ Close

Spec == Init /\ [][Next]_vars

-----------------------------------------------------------------------------
(* What must hold.                                                         *)

(* A caller that reads page by page, starting each page where the last one *)
(* ended, has every line of the file once and in order when the result     *)
(* says it has them all, if no call changed the file meanwhile: the line   *)
(* count and the pages, which are computed in different ways, agree.       *)
PagesJoin ==
  \A c \in Callers :
    pc[c] = "read" /\ ~touched[c] =>
      got[c] = Lines(content[entry])

=============================================================================
