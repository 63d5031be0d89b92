--------------------------- MODULE Preamble_proofs ---------------------------
(***************************************************************************)
(* What the campaign preamble establishes, for any servers, tools, modes   *)
(* and expected tools, and any number of callers that share the cache.     *)
(***************************************************************************)
EXTENDS Preamble, TLAPS

PastFlags == at \in {"modes", "agentTools", "mcpTools", "fixtures", "reset", "passed"}
PastModes == at \in {"agentTools", "mcpTools", "fixtures", "reset", "passed"}
PastFetch == at \in {"mcpTools", "fixtures", "reset", "passed"}
PastTools == at \in {"fixtures", "reset", "passed"}

(* The modes were read off the containers that still run.                  *)
ModesInv == ~disturbed =>
  /\ PastFlags => envVisual = agentVisual
  /\ PastModes => envVisual = mcpVisual

(* What the preamble read stays what the agent has, since nobody was left  *)
(* to fill the cache again.                                                *)
ToolsInv == ~disturbed /\ ~contended =>
  /\ PastFetch => filled /\ fetching = {} /\ cache = agentTools
  /\ PastTools => Expected \ Hidden(agentVisual) \subseteq agentTools

(* What a check has seen to hold still holds.                              *)
ConditionsInv == ~disturbed =>
  /\ at \notin {"none", "llm"} => broken # "llm"
  /\ at \notin {"none", "llm", "image"} => broken # "image"
  /\ at \notin {"none", "llm", "image", "placement"} => broken # "placement"
  /\ PastFlags => broken # "flags"
  /\ at \in {"reset", "passed"} => broken # "fixtures"

IInv == TypeOK /\ ModesInv /\ ToolsInv /\ ConditionsInv

LEMMA RefreshedTools ==
  ASSUME registry \subseteq Tools PROVE Refreshed \subseteq Tools
BY SchemaAssumption DEF Refreshed, ToolsOf

LEMMA Initially == Init => IInv
BY DEF Init, SchemaInit, IInv, TypeOK, SchemaTypeOK, Steps, ModesInv, ToolsInv,
       ConditionsInv, PastFlags, PastModes, PastFetch, PastTools

LEMMA TypeStep == TypeOK /\ [Next]_vars => TypeOK'
<1> SUFFICES ASSUME TypeOK, [Next]_vars PROVE TypeOK'
  OBVIOUS
<1> USE DEF TypeOK, SchemaTypeOK, Steps, schemaVars
<1>1. CASE Begin \/ CheckLlm \/ CheckImage \/ CheckPlacement \/ CheckFlags \/ CheckModes
  BY <1>1 DEF Begin, CheckLlm, CheckImage, CheckPlacement, CheckFlags, CheckModes,
              PassTo, Refuse
<1>2. CASE AskAgentTools \/ FetchAgentTools \/ CompareTools
  BY <1>2, PreambleAssumption, RefreshedTools
     DEF AskAgentTools, AskSchema, FetchAgentTools, CompareTools
<1>3. CASE CheckFixtures \/ PurgeAndReset \/ CampaignEnds
  BY <1>3 DEF CheckFixtures, PurgeAndReset, CampaignEnds, PassTo, Refuse
<1>4. CASE SomeoneAsks \/ SomeoneIsAnswered \/ McpServerChanges
  <2>1. CASE SomeoneAsks \/ McpServerChanges
    BY <1>4, <2>1 DEF SomeoneAsks, McpServerChanges, AskSchema, ServerChanges, Otherwise
  <2>2. ASSUME NEW c \in Callers, SchemaAnswered(c) \/ SchemaFails(c), Otherwise
        PROVE  TypeOK'
    <3>1. registry' \subseteq Tools /\ cache' \subseteq Tools
      BY <2>2, RefreshedTools DEF SchemaAnswered, SchemaFails, Visible
    <3> QED
      BY <2>2, <3>1 DEF SchemaAnswered, SchemaFails, Otherwise
  <2> QED
    BY <1>4, <2>1, <2>2 DEF SomeoneIsAnswered
<1>5. CASE AgentRestarts \/ McpClientRestarts \/ Breaks
  BY <1>5 DEF AgentRestarts, McpClientRestarts, Breaks, RestartAgent, RestartMcpClient, Disturb
<1>6. CASE UNCHANGED vars
  BY <1>6 DEF vars
<1> QED
  BY <1>1, <1>2, <1>3, <1>4, <1>5, <1>6 DEF Next

LEMMA Inductive == IInv /\ [Next]_vars => IInv'
<1> SUFFICES ASSUME IInv, [Next]_vars PROVE IInv'
  OBVIOUS
<1>1. TypeOK /\ TypeOK'
  BY TypeStep DEF IInv
<1> USE DEF IInv, ModesInv, ToolsInv, ConditionsInv, PastFlags, PastModes, PastFetch,
            PastTools, schemaVars
<1>2. CASE Begin \/ CheckLlm \/ CheckImage \/ CheckPlacement
  BY <1>1, <1>2 DEF Begin, CheckLlm, CheckImage, CheckPlacement, PassTo, Refuse
<1>3. CASE CheckFlags \/ CheckModes
  BY <1>1, <1>3 DEF CheckFlags, CheckModes, PassTo, Refuse
<1>4. CASE AskAgentTools \/ FetchAgentTools
  BY <1>1, <1>4 DEF AskAgentTools, AskSchema, FetchAgentTools
<1>5. CASE CompareTools
  BY <1>1, <1>5 DEF CompareTools, ToolsAgree
<1>6. CASE CheckFixtures \/ PurgeAndReset \/ CampaignEnds
  BY <1>1, <1>6 DEF CheckFixtures, PurgeAndReset, CampaignEnds, PassTo, Refuse
<1>7. CASE SomeoneAsks \/ SomeoneIsAnswered \/ McpServerChanges
  BY <1>1, <1>7
     DEF SomeoneAsks, SomeoneIsAnswered, McpServerChanges, AskSchema, SchemaAnswered,
         SchemaFails, ServerChanges, Otherwise
<1>8. CASE AgentRestarts \/ McpClientRestarts \/ Breaks
  BY <1>1, <1>8
     DEF AgentRestarts, McpClientRestarts, Breaks, RestartAgent, RestartMcpClient, Disturb
<1>9. CASE UNCHANGED vars
  BY <1>1, <1>9 DEF vars
<1> QED
  BY <1>2, <1>3, <1>4, <1>5, <1>6, <1>7, <1>8, <1>9 DEF Next

LEMMA Always == Spec => []IInv
BY Initially, Inductive, PTL DEF Spec

(* The cache, the registry and the preamble keep their types.              *)
THEOREM PreambleTyped == Spec => []TypeOK
BY Always, PTL DEF IInv

(* A campaign whose deployment was left alone runs on the tools that were  *)
(* compared, all that are expected among them, provided nobody else was    *)
(* still filling the cache when the preamble read it.                      *)
THEOREM ToolsAreThere == Spec => []CampaignHasItsTools
<1>1. IInv => CampaignHasItsTools
  BY DEF IInv, ToolsInv, PastFetch, PastTools, CampaignHasItsTools
<1> QED
  BY <1>1, Always, PTL

(* It also runs on a deployment on which every check holds.                *)
THEOREM DeploymentIsSound == Spec => []CampaignDeploymentSound
<1>1. IInv => CampaignDeploymentSound
  BY DEF IInv, TypeOK, ModesInv, ConditionsInv, PastFlags, PastModes, Conditions,
         CampaignDeploymentSound
<1> QED
  BY <1>1, Always, PTL

=============================================================================
