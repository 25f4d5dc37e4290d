--------------------------- MODULE MCCommandLocks ---------------------------
(* A small installation: two requests of one MCP server and one shell.  The *)
(* server runs a workflow whose steps are a library writer of another       *)
(* group and an export; the shell tails into the file the export names.     *)
EXTENDS CommandLocks

CONSTANTS s1, s2, h1, personal, group, install, x, y

MCServer == {s1, s2}
MCShells == {h1}
MCLibraries == {personal, group}
MCPaths == {x, y}
MCOrder == <<x, y>>
MCCommands == {"write", "export", "workflow", "tail", "health"}

Command(lock, output, sidecars, deliver, steps, library) ==
    [lock |-> lock, output |-> output, sidecars |-> sidecars, deliver |-> deliver,
     steps |-> steps, library |-> library]

MCProfile == [cmd \in MCCommands |->
    CASE cmd = "write" -> Command("body", {}, {}, None, {}, group)
      [] cmd = "export" -> Command("none", {x}, {}, y, {}, personal)
      [] cmd = "workflow" -> Command("body", {}, {}, None, {"write", "export"}, personal)
      [] cmd = "tail" -> Command("cycle", {}, {x}, None, {"workflow"}, personal)
      [] cmd = "health" -> Command("none", {}, {x, y}, None, {}, group)]

MCUses == [c \in MCServer \cup MCShells |->
    CASE c = s1 -> {"workflow"}
      [] c = s2 -> {"write", "health"}
      [] c = h1 -> {"tail"}]

=============================================================================
