SPECIFICATION FairSpec
CONSTANTS
  Unset = Unset
  Default <- MCDefault
  Policies <- MCPolicies
  Calls <- MCCalls
  Settings <- MCSettings
INVARIANTS
  BackoffWithinPolicy
PROPERTIES
  RetrySpec
  Returns
CHECK_DEADLOCK FALSE
