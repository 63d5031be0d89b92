----------------------------- MODULE MCPreamble -----------------------------
(***************************************************************************)
(* Two MCP servers and one tool of mcp-client itself; some tool is hidden  *)
(* in each mode, the expected tools span both servers and the synthetic    *)
(* one.                                                                    *)
(***************************************************************************)
EXTENDS Preamble

MCServers    == {"filesystem", "browser"}
MCServerOf   == [t \in {"read_file", "browser_navigate", "browser_snapshot",
                        "browser_mouse_click_xy"} |->
                   IF t = "read_file" THEN "filesystem" ELSE "browser"]
MCSynthetic  == {"browser_extract"}
MCTools      == DOMAIN MCServerOf \cup MCSynthetic
MCVisionOnly == {"browser_mouse_click_xy"}
MCBlocked    == {"read_file", "browser_snapshot", "browser_extract"}
MCExpected   == {"read_file", "browser_navigate", "browser_extract"}
MCCallers    == {"preamble", "chat"}
=============================================================================
