CONSTANTS
  Tools <- MCTools
  Args <- MCArgs
  ManagePlanTool = "manage_plan"
  TierReadTools <- MCRead
  TierReversibleTools = {}
  AutoApprovedTools = {}
  NeverGrantableTools <- MCNeverGrantable
  Rules = {}
  Requests = {r1}
  Proposals <- MCProposals
  SlashCalls <- MCSlashCalls
  FaultyNodes = {"retrieve_context", "select_skill", "call_llm", "call_tools", "auto_call_tools", "run_slash_command_direct"}
  MaxToolIterations = 1
  AutoApprovalStreakLimit = 1
  MaxEmptyAnswerRetries = 5
  MaxRequests = 3
SPECIFICATION FairSpec
PROPERTIES
  GrantsLastTheThread
  EveryRequestAnswered
