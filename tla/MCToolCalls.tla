---------------------------- MODULE MCToolCalls ----------------------------
(* Three calls of one tool, with and without a timeout, for TLC: the first *)
(* with any of the arguments below for any of the schemas, the others with *)
(* arguments that fit or do not.                                           *)
EXTENDS GuardedCalls

Is(type) == [Unconstrained EXCEPT !.type = type]

Profile ==
  [Is("object") EXCEPT
     !.properties =
       [label |-> [Is("string") EXCEPT !.minLength = {1}, !.maxLength = {2}, !.pattern = TRUE],
        count |-> [Is("integer") EXCEPT !.minimum = {2}, !.maximum = {4}, !.enum = <<Number("int", 4), Number("int", 6)>>],
        tags  |-> [Is("array") EXCEPT !.items = {Is("boolean")}, !.minItems = {1}, !.maxItems = {2}]],
     !.required = {"label"}, !.additional = {FALSE}]

Nested == [Is("") EXCEPT !.properties = [profile |-> Profile], !.required = {"profile"}]

Tag(name, text, reads) == name :> [text |-> text, reads |-> reads]
Field(name, json, type, tags) == [name |-> name, exported |-> TRUE, json |-> json, type |-> type, tags |-> tags]
Whole(n) == {Number("int", 2 * n)}

\* A struct like Profile.  Tags that do not fit the type make a second one fail.
Struct(countType) ==
  [go |-> "struct", fields |->
    <<Field("Label", "label", [go |-> "string"],
            Tag("required", Text(4, FALSE), {Truth(TRUE)}) @@ Tag("pattern", Text(2, FALSE), {})
            @@ Tag("minLength", Text(1, FALSE), Whole(1))),
      Field("Count", "count", [go |-> "pointer", elem |-> [go |-> countType]],
            Tag("min", Text(1, FALSE), Whole(1)) @@ Tag("max", Text(3, FALSE), {Number("float64", 5)})
            @@ ("enum" :> <<[text |-> Text(1, FALSE), reads |-> Whole(1)], [text |-> Text(1, FALSE), reads |-> Whole(3)]>>)),
      Field("Tags", "tags", [go |-> "array", len |-> 2, elem |-> [go |-> "bool"]], <<>>),
      Field("Skipped", "-", [go |-> "func"], <<>>),
      [name |-> "hidden", exported |-> FALSE, json |-> "", type |-> [go |-> "string"], tags |-> <<>>]>>]

Listed ==
  [type |-> <<"object">>, required |-> {"label"}, additionalProperties |-> FALSE,
   properties |-> [label |-> [type |-> <<"null", "string">>, minLength |-> 2],
                   count |-> [type |-> <<"number">>],
                   tags  |-> [type |-> <<"array">>, items |-> [type |-> <<"boolean">>]]]]

MCTools ==
  <<[source |-> "schema", declared |-> Profile, risk |-> "read"],
    [source |-> "schema", declared |-> Nested, risk |-> "write"],
    [source |-> "struct", declared |-> Struct("int"), risk |-> "read"],
    [source |-> "struct", declared |-> Struct("float"), risk |-> "read"],
    [source |-> "struct", declared |-> Struct("bool"), risk |-> "read"],
    [source |-> "mcp", declared |-> Listed, risk |-> "read"],
    [source |-> "mcp", declared |-> <<>>, risk |-> "read"],
    [source |-> "none", risk |-> ""]>>

Label(n, fits) == [label |-> Text(n, fits)]
Count(go, h)   == Label(1, TRUE) @@ [count |-> Number(go, h)]
TagList(s)     == Label(1, TRUE) @@ [tags |-> Array(s)]

Members ==
  <<Label(1, TRUE), Label(3, TRUE), Label(0, TRUE), Label(1, FALSE), <<>>,
    [label |-> Null], [label |-> Truth(TRUE)],
    Count("float64", 4), Count("float64", 5), Count("int", 2), Count("float64", 6),
    Label(1, TRUE) @@ [count |-> Null], Label(1, TRUE) @@ [count |-> NonFinite],
    Label(1, TRUE) @@ [count |-> Text(1, TRUE)],
    TagList(<<>>), TagList(<<Truth(TRUE)>>), TagList(<<Truth(TRUE), Truth(FALSE)>>),
    TagList(<<Truth(TRUE), Null>>), TagList(<<Truth(TRUE), Truth(FALSE), Truth(FALSE)>>),
    Label(1, TRUE) @@ [tags |-> Object(<<>>)],
    Label(1, TRUE) @@ [extra |-> Truth(TRUE)], Label(1, TRUE) @@ [extra |-> Null]>>

MCArguments ==
  [k \in 1..(2 * Len(Members)) |->
    IF k <= Len(Members) THEN Object(Members[k])
    ELSE Object([profile |-> Object(Members[k - Len(Members)])])]

Custom == [policy |-> "custom"]
Lists  == <<[policy |-> "denyTools", names |-> {"", "shell"}], [policy |-> "allowTools", names |-> {"lookup"}],
            [policy |-> "allowRisks", risks |-> {"read", ""}]>>

MCPolicies ==
  <<[policy |-> "requireAll", policies |-> <<[policy |-> "requireAll", policies |-> Lists], Custom>>],
    [policy |-> "requireAll", policies |-> Lists],
    [policy |-> "requireAll", policies |-> <<Custom, [policy |-> "denyAll"]>>],
    [policy |-> "requireAll", policies |-> <<>>],
    [policy |-> "requireAll", policies |-> <<Custom, [policy |-> "nil"], Custom>>]>>

MCInputs ==
  [i \in Calls |->
    IF i = 1 THEN ({"lookup"} \X (1..Len(MCTools)) \X (1..(2 * Len(Members)))) \cup {<<"missing", 1, 1>>}
    ELSE {<<"lookup", 1, 1>>, <<"lookup", 1, 2>>}]
=============================================================================
