SPECIFICATION CheckedSpec
CONSTANTS
  NumCalls = 2
  MaxConcurrency = 1
  Timeouts = {TRUE}
  ToolName = "lookup"
  Tools <- MCTools
  Arguments <- MCArguments
  Policies <- MCPolicies
  Inputs <- MCInputs
  Registrable <- HasItsSchema
  Fits <- SchemaAccepts
  Promised <- SchemaHolds
  Decide <- Decisions
  Permits <- MayApprove
  Containers <- ContainersOf
PROPERTY RefusedOnlyInExcess
