---------------------------- MODULE ToolsSchema -----------------------------
(***************************************************************************)
(* The tool schema as two processes keep it: mcp-client's registry, which  *)
(* only ever gains tools, its own and those of the servers that answered,  *)
(* and the cache of langgraph-agent, filled from it by whoever asks while  *)
(* it is empty (_get_tools_schema awaits the HTTP answer between its test  *)
(* and its assignment, so several callers may be filling it at once).      *)
(***************************************************************************)
EXTENDS Naturals, FiniteSets

CONSTANTS
  Servers,     \* the MCP servers behind mcp-client
  Tools,       \* the tools there are
  Synthetic,   \* those that mcp-client adds itself, if "browser" is among SERVERS
  ServerOf,    \* the server that declares each of the others
  VisionOnly,  \* _VISION_ONLY_TOOLS: hidden in the default mode
  Blocked,     \* _VISUAL_ONLY_BLOCKED_TOOLS: hidden in the visual mode
  Callers      \* tasks of langgraph-agent that may ask for the schema

ASSUME SchemaAssumption ==
  /\ Synthetic \subseteq Tools /\ ServerOf \in [Tools \ Synthetic -> Servers]
  /\ VisionOnly \subseteq Tools /\ Blocked \subseteq Tools

VARIABLES
  up,          \* servers that answer list_tools
  registry,    \* the tools in mcp-client's _tool_registry
  filled,      \* _tools_schema_cache is not None
  cache,       \* _tools_schema_cache
  fetching,    \* callers waiting for mcp-client's answer
  agentVisual, \* VISUAL_NAVIGATION_ONLY of the running langgraph-agent
  mcpVisual    \* VISUAL_NAVIGATION_ONLY of the running mcp-client

schemaVars == <<up, registry, filled, cache, fetching, agentVisual, mcpVisual>>

ToolsOf(servers) == {t \in Tools \ Synthetic : ServerOf[t] \in servers}
Hidden(visual)   == IF visual THEN Blocked ELSE VisionOnly
Visible(tools, visual) == tools \ Hidden(visual)

SchemaTypeOK ==
  /\ up \subseteq Servers /\ registry \subseteq Tools
  /\ filled \in BOOLEAN /\ cache \subseteq Tools
  /\ fetching \subseteq Callers
  /\ agentVisual \in BOOLEAN /\ mcpVisual \in BOOLEAN

SchemaInit ==
  /\ up \in SUBSET Servers /\ registry = {}
  /\ filled = FALSE /\ cache = {} /\ fetching = {}
  /\ agentVisual \in BOOLEAN /\ mcpVisual \in BOOLEAN

----------------------------------------------------------------------------
\* _refresh_registry: a server that does not answer is skipped, and what it
\* declared earlier stays; the tools of mcp-client itself are always added.
Refreshed == registry \cup ToolsOf(up) \cup Synthetic

\* A first caller, or another one before the first has its answer.
AskSchema(c) ==
  /\ ~filled /\ c \notin fetching
  /\ fetching' = fetching \cup {c}
  /\ UNCHANGED <<up, registry, filled, cache, agentVisual, mcpVisual>>

SchemaAnswered(c) ==
  /\ c \in fetching
  /\ registry' = Refreshed
  /\ filled' = TRUE /\ cache' = Visible(registry', agentVisual)
  /\ fetching' = fetching \ {c}
  /\ UNCHANGED <<up, agentVisual, mcpVisual>>

\* mcp-client is down, slow or answers nonsense: no tools, for good.
SchemaFails(c) ==
  /\ c \in fetching
  /\ filled' = TRUE /\ cache' = {}
  /\ fetching' = fetching \ {c}
  /\ UNCHANGED <<up, registry, agentVisual, mcpVisual>>

----------------------------------------------------------------------------
(* The containers *)

RestartAgent ==
  /\ filled' = FALSE /\ cache' = {} /\ fetching' = {}
  /\ agentVisual' \in BOOLEAN
  /\ UNCHANGED <<up, registry, mcpVisual>>

RestartMcpClient ==
  /\ registry' = {}
  /\ mcpVisual' \in BOOLEAN
  /\ UNCHANGED <<up, filled, cache, fetching, agentVisual>>

ServerChanges(s) ==
  /\ up' = IF s \in up THEN up \ {s} ELSE up \cup {s}
  /\ UNCHANGED <<registry, filled, cache, fetching, agentVisual, mcpVisual>>
=============================================================================
