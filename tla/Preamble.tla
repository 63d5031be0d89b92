------------------------------ MODULE Preamble ------------------------------
(***************************************************************************)
(* The campaign preamble (campaign_preflight.py, run_preflight): one check *)
(* after the other against a deployment that goes on living, each raising  *)
(* PreflightError.  The campaign runs once it has passed.                  *)
(***************************************************************************)
EXTENDS ToolsSchema

CONSTANTS
  Expected,    \* EXPECTED_TOOLS
  Harness      \* the caller that is the preamble's GET /tools/schema

ASSUME PreambleAssumption == Expected \subseteq Tools /\ Harness \in Callers

\* What the checks other than the tools look at, in the order they are made.
Conditions == {"llm", "image", "placement", "flags", "fixtures"}
Steps == {"none", "llm", "image", "placement", "flags", "modes", "agentTools",
          "mcpTools", "fixtures", "reset", "passed"}

VARIABLES
  at,          \* the check to make next
  broken,      \* the condition that does not hold, or "nothing"
  envVisual,   \* VISUAL_NAVIGATION_ONLY as the preamble read it
  agentTools,  \* the tools langgraph-agent said it has
  disturbed,   \* the deployment was changed since the preamble began (history)
  contended    \* another caller was filling the cache when it was read (history)

vars == <<schemaVars, at, broken, envVisual, agentTools, disturbed, contended>>

TypeOK ==
  /\ SchemaTypeOK
  /\ at \in Steps /\ broken \in Conditions \cup {"nothing"}
  /\ envVisual \in BOOLEAN /\ agentTools \subseteq Tools
  /\ disturbed \in BOOLEAN /\ contended \in BOOLEAN

Init ==
  /\ SchemaInit
  /\ at = "none" /\ broken \in Conditions \cup {"nothing"}
  /\ envVisual = FALSE /\ agentTools = {}
  /\ disturbed = FALSE /\ contended = FALSE

----------------------------------------------------------------------------
Begin ==
  /\ at = "none"
  /\ at' = "llm" /\ disturbed' = FALSE /\ contended' = FALSE
  /\ UNCHANGED <<schemaVars, broken, envVisual, agentTools>>

\* PreflightError: the campaign does not start.
Refuse ==
  /\ at' = "none" /\ envVisual' = FALSE /\ agentTools' = {}
  /\ disturbed' = FALSE /\ contended' = FALSE
  /\ UNCHANGED <<schemaVars, broken>>

PassTo(step) ==
  /\ at' = step
  /\ UNCHANGED <<schemaVars, broken, disturbed, contended>>

\* wait_for_llm_ready polls, so it passes as soon as the LLM answers.
CheckLlm ==
  /\ at = "llm"
  /\ \/ broken # "llm" /\ PassTo("image") /\ UNCHANGED <<envVisual, agentTools>>
     \/ broken = "llm" /\ Refuse

CheckImage ==
  /\ at = "image"
  /\ IF broken = "image" THEN Refuse
     ELSE PassTo("placement") /\ UNCHANGED <<envVisual, agentTools>>

CheckPlacement ==
  /\ at = "placement"
  /\ IF broken = "placement" THEN Refuse
     ELSE PassTo("flags") /\ UNCHANGED <<envVisual, agentTools>>

\* agent_env is read once, here; the visual flag is used from it later.
CheckFlags ==
  /\ at = "flags"
  /\ IF broken = "flags" THEN Refuse
     ELSE PassTo("modes") /\ envVisual' = agentVisual /\ UNCHANGED agentTools

\* Faulty variant: the two containers' modes are not compared.
CheckModesSkipped ==
  /\ at = "modes"
  /\ PassTo("agentTools") /\ UNCHANGED <<envVisual, agentTools>>

CheckModes ==
  /\ at = "modes"
  /\ IF envVisual # mcpVisual THEN Refuse
     ELSE PassTo("agentTools") /\ UNCHANGED <<envVisual, agentTools>>

\* GET /tools/schema of langgraph-agent fills an empty cache first.
AskAgentTools ==
  /\ at = "agentTools"
  /\ AskSchema(Harness)
  /\ UNCHANGED <<at, broken, envVisual, agentTools, disturbed, contended>>

FetchAgentTools ==
  /\ at = "agentTools" /\ filled /\ Harness \notin fetching
  /\ agentTools' = cache
  /\ contended' = (fetching # {})
  /\ at' = "mcpTools"
  /\ UNCHANGED <<schemaVars, broken, envVisual, disturbed>>

\* Faulty variant: the two lists agree, so all is well.
ToolsAgreeOnly(mcpTools) == agentTools = Visible(mcpTools, envVisual)

\* check_tools_schema: the two lists first, then what is expected of them.
ToolsAgree(mcpTools) ==
  /\ agentTools = Visible(mcpTools, envVisual)
  /\ Expected \ Hidden(envVisual) \subseteq agentTools

CompareTools ==
  /\ at = "mcpTools"
  /\ IF ToolsAgree(Refreshed)
     THEN /\ at' = "fixtures"
          /\ UNCHANGED <<envVisual, agentTools, broken, disturbed, contended>>
     ELSE /\ at' = "none" /\ envVisual' = FALSE /\ agentTools' = {}
          /\ disturbed' = FALSE /\ contended' = FALSE
          /\ UNCHANGED broken
  /\ registry' = Refreshed
  /\ UNCHANGED <<up, filled, cache, fetching, agentVisual, mcpVisual>>

CheckFixtures ==
  /\ at = "fixtures"
  /\ IF broken = "fixtures" THEN Refuse
     ELSE PassTo("reset") /\ UNCHANGED <<envVisual, agentTools>>

\* purge_downloads, reset_browser_session: best effort, then the campaign.
PurgeAndReset ==
  /\ at = "reset"
  /\ PassTo("passed") /\ UNCHANGED <<envVisual, agentTools>>

CampaignEnds ==
  /\ at = "passed"
  /\ Refuse

----------------------------------------------------------------------------
(* The deployment, meanwhile *)

Otherwise == UNCHANGED <<at, broken, envVisual, agentTools, disturbed, contended>>
Disturb   == /\ disturbed' = (at # "none")
             /\ UNCHANGED <<at, envVisual, agentTools, contended>>

SomeoneAsks == \E c \in Callers \ {Harness} : AskSchema(c) /\ Otherwise
SomeoneIsAnswered ==
  \E c \in Callers : (SchemaAnswered(c) \/ SchemaFails(c)) /\ Otherwise
McpServerChanges == \E s \in Servers : ServerChanges(s) /\ Otherwise

AgentRestarts == RestartAgent /\ Disturb /\ UNCHANGED broken
McpClientRestarts == RestartMcpClient /\ Disturb /\ UNCHANGED broken

Breaks ==
  /\ broken' \in (Conditions \cup {"nothing"}) \ {broken}
  /\ Disturb /\ UNCHANGED schemaVars

Next ==
  \/ Begin \/ CheckLlm \/ CheckImage \/ CheckPlacement \/ CheckFlags \/ CheckModes
  \/ AskAgentTools \/ FetchAgentTools \/ CompareTools \/ CheckFixtures
  \/ PurgeAndReset \/ CampaignEnds
  \/ SomeoneAsks \/ SomeoneIsAnswered \/ McpServerChanges
  \/ AgentRestarts \/ McpClientRestarts \/ Breaks

Spec == Init /\ [][Next]_vars

----------------------------------------------------------------------------
(* Properties *)

\* A campaign that started against a deployment left alone runs on the tools
\* the preamble compared, all the expected ones among them, provided nobody
\* else was filling the cache when the preamble read it (run_preflight,
\* _get_tools_schema).
CampaignHasItsTools ==
  at = "passed" /\ ~disturbed /\ ~contended =>
    cache = agentTools /\ Expected \ Hidden(agentVisual) \subseteq cache

\* It also runs on a deployment that is as expected, both containers in the
\* same mode: every condition is looked at before the first run.
CampaignDeploymentSound ==
  at = "passed" /\ ~disturbed => broken = "nothing" /\ agentVisual = mcpVisual
=============================================================================
