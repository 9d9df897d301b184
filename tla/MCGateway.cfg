SPECIFICATION GatewaySpec
CONSTANTS
  ToolCall <- Calls
  MaxFaults = 1
CHECK_DEADLOCK FALSE
INVARIANTS EffectEntitled ClaimNotWasted GovernanceForesees OnlyTransientRetried
