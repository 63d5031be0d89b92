CONSTANTS
  Tools <- MCTools
  Args <- MCArgs
  ManagePlanTool = "manage_plan"
  TierReadTools <- MCRead
  TierReversibleTools = {}
  AutoApprovedTools = {}
  NeverGrantableTools <- MCNeverGrantable
  Rules = {}
  Requests = {r1}
  Proposals <- MCProposals
  SlashCalls <- MCSlashCalls
  FaultyNodes = {"call_llm"}
  MaxToolIterations = 2
  AutoApprovalStreakLimit = 1
  MaxEmptyAnswerRetries = 1
  MaxRequests = 3
SPECIFICATION Spec
INVARIANTS
  IndividualApproval
