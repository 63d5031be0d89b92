CONSTANTS
  Servers <- MCServers
  Tools <- MCTools
  Synthetic <- MCSynthetic
  ServerOf <- MCServerOf
  VisionOnly <- MCVisionOnly
  Blocked <- MCBlocked
  Callers <- MCCallers
  Expected <- MCExpected
  Harness = "preamble"
SPECIFICATION Spec
INVARIANTS
  CampaignHasItsTools
  CampaignDeploymentSound
