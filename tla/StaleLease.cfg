SPECIFICATION FairAgentSpec
CONSTANTS
  Agent = {a1, a2}
  NoAgent = NoAgent
  LeaseTimeout = 2
  MaxKills = 1
PROPERTY StaleLeaseIsTaken
CHECK_DEADLOCK FALSE
