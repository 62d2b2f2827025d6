---------------------------- MODULE MCCommandTool ----------------------------
(* One call of a tool, of a command that writes up to two lines.           *)
EXTENDS CommandTool

MCCallers == {Runner}
NoWriters == {}
=============================================================================
