CONSTANTS
  Tools <- MCTools
  Args <- MCArgs
  ManagePlanTool = "manage_plan"
  TierReadTools <- MCRead
  TierReversibleTools = {}
  AutoApprovedTools = {}
  NeverGrantableTools <- MCNeverGrantable
  Rules <- MCRules
  Requests = {r1}
  Proposals <- MCProposals
  SlashCalls <- MCSlashCalls
  FaultyNodes = {}
  MaxToolIterations = 2
  AutoApprovalStreakLimit = 1
  MaxEmptyAnswerRetries = 1
  MaxRequests = 4
SPECIFICATION Spec
INVARIANTS
  TypeOK
  DecidedOnThisTurn
  ExecutedAtMostOnce
  DecisionsAnswerAPause
  WithinRecursionLimit
PROPERTIES
  HumanSupervises
