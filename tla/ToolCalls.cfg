SPECIFICATION CheckedFairSpec
CONSTANTS
  NumCalls = 3
  MaxConcurrency = 2
  Timeouts = {TRUE, FALSE}
  ToolName = "lookup"
  Tools <- MCTools
  Arguments <- MCArguments
  Policies <- MCPolicies
  Inputs <- MCInputs
  Registrable <- HasItsSchema
  Fits <- SchemaAccepts
  Promised <- SchemaHolds
  Decide <- Decisions
  Permits <- MayApprove
  Containers <- ContainersOf
INVARIANTS
  TypeOK
  ConcurrencyBounded
  RunsOnlyChecked
  AuditClosed
PROPERTY CallsReturn
