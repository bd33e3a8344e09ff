---------------------------- MODULE GuardedCalls ----------------------------
(***************************************************************************)
(* The checks in front of a tool's execution (CheckedCalls) as the SDK has *)
(* them: validation against the tool's schema (ToolSchemas), whichever way *)
(* the tool came by it, and the approval policies (ToolPolicies).  What is *)
(* defined here gives the parameters of CheckedCalls their values.         *)
(***************************************************************************)
EXTENDS CheckedCalls, ToolSchemas, ToolPolicies

\* The schema of a tool, or none.  The schema of a struct must have been
\* generated; an MCP tool whose server lists no schema has none.
Schema(tool) ==
  CASE tool.source = "schema" -> {tool.declared}
    [] tool.source = "struct" -> FromStruct(tool.declared)
    [] tool.source = "mcp"    -> IF DOMAIN tool.declared = {} THEN {} ELSE {ConvertMCPSchema(tool.declared)}
    [] tool.source = "none"   -> {}

HasItsSchema(tool) == tool.source = "struct" => Schema(tool) # {}

SchemaAccepts(tool, v) == \A s \in Schema(tool) : Validates(v, s)

RECURSIVE ContainersOf(_)
ContainersOf(v) ==
  CASE v.kind = "object" -> {v} \cup UNION {ContainersOf(v.members[m]) : m \in DOMAIN v.members}
    [] v.kind = "array"  -> {v} \cup UNION {ContainersOf(v.elements[k]) : k \in DOMAIN v.elements}
    [] OTHER             -> {}

----------------------------------------------------------------------------
\* What a source of schemas promises of arguments that passed, up to null
\* members, which count as missing.
SourceHolds(tool, v) ==
  CASE tool.source = "struct" -> Inhabits(v, tool.declared)
    [] tool.source = "mcp"    -> Conforms(v, Kept(tool.declared))
    [] OTHER                  -> TRUE

\* The schema has no constraint in a place that validation passes over because
\* it states no type there.
RECURSIVE Typed(_)
Typed(s) ==
  /\ EffectiveType(s) = "any" => s = Unconstrained
  /\ \A p \in DOMAIN s.properties : Typed(s.properties[p])
  /\ \A t \in s.items : Typed(t)

\* The arguments conform to the document the model was sent and are what the
\* schema's source promised.
SchemaHolds(tool, arguments) ==
  LET v == Present(arguments)
  IN  /\ \A s \in Schema(tool) : Typed(s) => Conforms(v, JSONSchema(s))
      /\ SourceHolds(tool, v)
=============================================================================
