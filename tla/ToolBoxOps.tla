----------------------------- MODULE ToolBoxOps -----------------------------
(***************************************************************************)
(* The operations of a tools.ToolBox (src/tools/tool_box.go) on its map    *)
(* from tool names to entries.  A box is a function from Names; an entry   *)
(* stands for a tool together with the handler that runs it, and NoTool    *)
(* marks a name nothing is registered under.  Every operation of the code  *)
(* holds the box's lock for its whole body, so each one is a single step   *)
(* of whatever module uses it.                                             *)
(***************************************************************************)

CONSTANTS
  Names,       (* the tool names that can occur                            *)
  ValidNames,  (* those ValidToolName accepts                              *)
  NoTool       (* the entry of a name that is not registered               *)

ASSUME ValidNamesAssumption == ValidNames \subseteq Names

EmptyBox == [n \in Names |-> NoTool]

(* ToolBox.Tool: is something registered under n?                          *)
HasTool(box, n) == box[n] # NoTool

(* ToolBox.Add refuses a name the providers would reject and registers     *)
(* nothing; otherwise it replaces whatever the name held.                  *)
AddAccepts(n) == n \in ValidNames

AddTool(box, n, entry) ==
  IF AddAccepts(n) THEN [box EXCEPT ![n] = entry] ELSE box

(* ToolBox.Remove drops the name, whoever registered what it holds.        *)
RemoveTool(box, n) == [box EXCEPT ![n] = NoTool]
=============================================================================
