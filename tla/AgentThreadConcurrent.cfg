CONSTANTS
  Tools <- MCTools
  Args <- MCArgs
  ManagePlanTool = "manage_plan"
  TierReadTools <- MCRead
  TierReversibleTools = {}
  AutoApprovedTools = {}
  NeverGrantableTools <- MCNeverGrantable
  Rules = {}
  Requests = {r1, r2}
  Proposals <- MCPairProposals
  SlashCalls = {}
  FaultyNodes = {}
  MaxToolIterations = 2
  AutoApprovalStreakLimit = 1
  MaxEmptyAnswerRetries = 0
  MaxRequests = 3
SPECIFICATION Spec
SYMMETRY RequestSymmetry
INVARIANTS
  UnsupervisedTurnsBounded
  PausesUnlessGranted
