---------------------------- MODULE ToolSchemas ----------------------------
(***************************************************************************)
(* The parameter schemas of tools (internal/schema, internal/mcp/client):  *)
(* how they are generated from Go structs and converted from the schemas   *)
(* MCP servers list, how they are written for providers, and how the       *)
(* arguments of a call are validated.                                      *)
(*                                                                         *)
(* Abstractions: a string is its length and whether it matches the         *)
(* schema's pattern; numbers are counted in halves; names are strings.     *)
(* An optional field is a set of at most one element.  Which parameter an  *)
(* error names, descriptions and defaults (written, never injected) are    *)
(* left out.                                                               *)
(***************************************************************************)
EXTENDS Integers, Sequences, TLC

\* The values of decoded arguments; go is the type the decoder or the
\* declaration of an enum chose for a number.
Text(n, fits)   == [kind |-> "string", length |-> n, matches |-> fits]
Number(go, h)   == [kind |-> "number", go |-> go, halves |-> h]
Truth(b)        == [kind |-> "boolean", truth |-> b]
Object(members) == [kind |-> "object", members |-> members]
Array(elements) == [kind |-> "array", elements |-> elements]
Null            == [kind |-> "null"]
NonFinite       == [kind |-> "nonfinite"]

\* ToolParametersSchema with no field set.
Unconstrained ==
  [type |-> "", properties |-> <<>>, required |-> {}, items |-> {}, enum |-> <<>>,
   minimum |-> {}, maximum |-> {}, minLength |-> {}, maxLength |-> {},
   minItems |-> {}, maxItems |-> {}, pattern |-> FALSE, additional |-> {}]

SchemaTypes == {"string", "number", "integer", "boolean", "object", "array"}

Within(n, least, most) == (\A m \in least : n >= m) /\ (\A m \in most : n <= m)

Float64(v)   == IF v.kind = "number" THEN {v.halves} ELSE {}
IsInteger(v) == v.kind = "number" /\ v.halves % 2 = 0

----------------------------------------------------------------------------
(* Validation.                                                              *)

EffectiveType(s) ==
  IF s.type # "" THEN s.type
  ELSE IF DOMAIN s.properties # {} \/ s.required # {} THEN "object"
  ELSE IF s.items # {} THEN "array" ELSE "any"

\* Numbers are compared as floats, everything else by reflect.DeepEqual.
EnumContains(s, v) ==
  \E k \in DOMAIN s.enum :
    IF s.type \in {"number", "integer"}
      THEN Float64(s.enum[k]) \cap Float64(v) # {}
      ELSE s.enum[k] = v

InEnum(s, v) == s.enum # <<>> => EnumContains(s, v)

RECURSIVE Validates(_, _)

\* A null member counts as missing, wherever it is not an element of an array.
ObjectValidates(v, s) ==
  /\ v.kind = "object"
  /\ \A r \in s.required : r \in DOMAIN v.members /\ v.members[r] # Null
  /\ \A p \in DOMAIN s.properties \cap DOMAIN v.members :
       v.members[p] # Null => Validates(v.members[p], s.properties[p])
  /\ FALSE \in s.additional => DOMAIN v.members \subseteq DOMAIN s.properties

ArrayValidates(v, s) ==
  /\ v.kind = "array"
  /\ Within(Len(v.elements), s.minItems, s.maxItems)
  /\ \A t \in s.items : \A k \in DOMAIN v.elements : Validates(v.elements[k], t)

StringValidates(v, s) ==
  /\ v.kind = "string"
  /\ Within(v.length, s.minLength, s.maxLength)
  /\ s.pattern => v.matches

NumberValidates(v, s) ==
  v.kind = "number" /\ Within(v.halves, s.minimum, s.maximum)

Validates(v, s) ==
  LET type == EffectiveType(s)
  IN  \/ type = "any"
      \/ /\ CASE type = "object"  -> ObjectValidates(v, s)
              [] type = "array"   -> ArrayValidates(v, s)
              [] type = "string"  -> StringValidates(v, s)
              [] type = "number"  -> NumberValidates(v, s)
              [] type = "integer" -> IsInteger(v) /\ NumberValidates(v, s)
              [] type = "boolean" -> v.kind = "boolean"
              [] OTHER            -> FALSE
         /\ InEnum(s, v)

----------------------------------------------------------------------------
(* Documents: JSON Schema as providers are sent it and as MCP servers list  *)
(* it.  A document is a function of the keywords it has; its "type" is a    *)
(* sequence of names.                                                       *)

Keyword(name, present, value) == IF present THEN name :> value ELSE <<>>
Bound(name, bound) == IF bound = {} THEN <<>> ELSE name :> CHOOSE n \in bound : TRUE

RECURSIVE JSONSchema(_)
JSONSchema(s) ==
     Keyword("type", s.type # "", <<s.type>>)
  @@ Keyword("enum", s.enum # <<>>, s.enum)
  @@ Bound("minimum", s.minimum)     @@ Bound("maximum", s.maximum)
  @@ Bound("minLength", s.minLength) @@ Bound("maxLength", s.maxLength)
  @@ Bound("minItems", s.minItems)   @@ Bound("maxItems", s.maxItems)
  @@ Keyword("pattern", s.pattern, TRUE)
  @@ Bound("additionalProperties", s.additional)
  @@ Keyword("properties", DOMAIN s.properties # {},
             [p \in DOMAIN s.properties |-> JSONSchema(s.properties[p])])
  @@ Keyword("required", s.required # {}, s.required)
  @@ Bound("items", {JSONSchema(t) : t \in s.items})

\* The first supported type of a list; every other keyword of a server's
\* document than these four is dropped.
SchemaType(names) ==
  LET supported == SelectSeq(names, LAMBDA n : n \in SchemaTypes)
  IN  IF supported = <<>> THEN "" ELSE Head(supported)

RECURSIVE ConvertMCPSchema(_)
ConvertMCPSchema(d) ==
  [Unconstrained EXCEPT
     !.type       = IF "type" \in DOMAIN d THEN SchemaType(d.type) ELSE "",
     !.required   = IF "required" \in DOMAIN d THEN d.required ELSE {},
     !.properties = IF "properties" \in DOMAIN d
                      THEN [p \in DOMAIN d.properties |-> ConvertMCPSchema(d.properties[p])]
                      ELSE <<>>,
     !.items      = IF "items" \in DOMAIN d THEN {ConvertMCPSchema(d.items)} ELSE {}]

----------------------------------------------------------------------------
(* Generation from Go types.  A field is its name, whether it is exported,  *)
(* the name in its json tag, its type and its other tags; a tag's text is a *)
(* string that may also read as a boolean or a number.  The text of "enum"  *)
(* is the sequence of its parts.                                            *)

ParseScalar(x, type) ==
  CASE type = "string"  -> {x.text}
    [] type = "boolean" -> {r \in x.reads : r.kind = "boolean"}
    [] type = "integer" -> {r \in x.reads : r.kind = "number" /\ r.go = "int"}
    [] type = "number"  -> {Number("float64", r.halves) : r \in {q \in x.reads : q.kind = "number"}}
    [] OTHER            -> {}

FieldTag(f, name) == IF name \in DOMAIN f.tags THEN {f.tags[name]} ELSE {}

ReadNumber(f, name) == UNION {ParseScalar(x, "number") : x \in FieldTag(f, name)}
ReadCount(f, name)  == {r.halves \div 2 : r \in
                          {q \in UNION {ParseScalar(x, "integer") : x \in FieldTag(f, name)} : q.halves >= 0}}
ReadBool(f, name)   == {r.truth : r \in UNION {ParseScalar(x, "boolean") : x \in FieldTag(f, name)}}

\* A tag that the field's type does not have, or whose text does not parse.
WrongTag(s, f) ==
  LET has(names) == names \cap DOMAIN f.tags # {}
      bad(names, read(_)) == \E n \in names \cap DOMAIN f.tags : read(n) = {}
      number(n) == ReadNumber(f, n)
      count(n)  == ReadCount(f, n)
      bool(n)   == ReadBool(f, n)
      scalar(n) == UNION {ParseScalar(x, s.type) : x \in FieldTag(f, n)}
  IN  \/ \E parts \in FieldTag(f, "enum") : \E k \in DOMAIN parts : ParseScalar(parts[k], s.type) = {}
      \/ bad({"default"}, scalar)
      \/ has({"min", "max"}) /\ s.type \notin {"number", "integer"}
      \/ bad({"min", "max"}, number)
      \/ has({"minLength", "maxLength", "pattern"}) /\ s.type # "string"
      \/ has({"minItems", "maxItems"}) /\ s.type # "array"
      \/ bad({"minLength", "maxLength", "minItems", "maxItems"}, count)
      \/ has({"additionalProperties"}) /\ s.type # "object"
      \/ bad({"additionalProperties", "required"}, bool)

Tagged(s, f) ==
  LET or(new, old) == IF new # {} THEN new ELSE old
      halves(n)    == {r.halves : r \in ReadNumber(f, n)}
  IN  IF WrongTag(s, f) THEN {}
      ELSE {[s EXCEPT
        !.enum       = IF "enum" \in DOMAIN f.tags
                         THEN [k \in DOMAIN f.tags.enum |-> CHOOSE v \in ParseScalar(f.tags.enum[k], s.type) : TRUE]
                         ELSE @,
        !.minimum    = or(halves("min"), @),          !.maximum   = or(halves("max"), @),
        !.minLength  = or(ReadCount(f, "minLength"), @), !.maxLength = or(ReadCount(f, "maxLength"), @),
        !.minItems   = or(ReadCount(f, "minItems"), @),  !.maxItems  = or(ReadCount(f, "maxItems"), @),
        !.pattern    = "pattern" \in DOMAIN f.tags,
        !.additional = or(ReadBool(f, "additionalProperties"), @)]}

JSONName(f) == IF f.json = "" THEN f.name ELSE f.json
InJSON(f)   == f.exported /\ f.json # "-"

RECURSIVE FromType(_)

\* The schema of a struct, or none when one of its fields has none.
FromStruct(t) ==
  LET kept     == {k \in DOMAIN t.fields : InJSON(t.fields[k])}
      field(k) == UNION {Tagged(s, t.fields[k]) : s \in FromType(t.fields[k].type)}
      of(n)    == CHOOSE k \in kept : JSONName(t.fields[k]) = n
                    /\ \A j \in kept : JSONName(t.fields[j]) = n => j <= k
  IN  IF \E k \in kept : field(k) = {} THEN {}
      ELSE {[Unconstrained EXCEPT
               !.type       = "object",
               !.properties = [n \in {JSONName(t.fields[k]) : k \in kept} |-> CHOOSE s \in field(of(n)) : TRUE],
               !.required   = {JSONName(t.fields[k]) : k \in
                                 {j \in kept : TRUE \in ReadBool(t.fields[j], "required")}}]}

FromType(t) ==
  CASE t.go = "pointer" -> FromType(t.elem)
    [] t.go = "struct"  -> FromStruct(t)
    [] t.go = "slice"   -> {[Unconstrained EXCEPT !.type = "array", !.items = {e}] : e \in FromType(t.elem)}
    [] t.go = "array"   -> {[Unconstrained EXCEPT !.type = "array", !.items = {e},
                              !.minItems = {t.len}, !.maxItems = {t.len}] : e \in FromType(t.elem)}
    [] t.go = "string"  -> {[Unconstrained EXCEPT !.type = "string"]}
    [] t.go = "bool"    -> {[Unconstrained EXCEPT !.type = "boolean"]}
    [] t.go = "int"     -> {[Unconstrained EXCEPT !.type = "integer"]}
    [] t.go = "float"   -> {[Unconstrained EXCEPT !.type = "number"]}
    [] OTHER            -> {}

----------------------------------------------------------------------------
(* What the documents and the Go types mean, keyword by keyword and field   *)
(* by field, for the properties.                                            *)

\* Arguments without their null members.
RECURSIVE Present(_)
Present(v) ==
  CASE v.kind = "object" -> Object([m \in {n \in DOMAIN v.members : v.members[n] # Null} |-> Present(v.members[m])])
    [] v.kind = "array"  -> Array([k \in DOMAIN v.elements |-> Present(v.elements[k])])
    [] OTHER             -> v

HasType(v, type) ==
  CASE type = "integer" -> v.kind = "number" /\ v.halves % 2 = 0
    [] OTHER            -> v.kind = type

SameValue(x, v) == IF x.kind = "number" THEN v.kind = "number" /\ x.halves = v.halves ELSE x = v

RECURSIVE Conforms(_, _)
Conforms(v, d) ==
  LET has(k) == k \in DOMAIN d
  IN  /\ has("type") => \E k \in DOMAIN d.type : HasType(v, d.type[k])
      /\ has("enum") => \E k \in DOMAIN d.enum : SameValue(d.enum[k], v)
      /\ v.kind = "number" =>
           /\ has("minimum") => v.halves >= d.minimum
           /\ has("maximum") => v.halves <= d.maximum
      /\ v.kind = "string" =>
           /\ has("minLength") => v.length >= d.minLength
           /\ has("maxLength") => v.length <= d.maxLength
           /\ has("pattern") => v.matches
      /\ v.kind = "array" =>
           /\ has("minItems") => Len(v.elements) >= d.minItems
           /\ has("maxItems") => Len(v.elements) <= d.maxItems
           /\ has("items") => \A k \in DOMAIN v.elements : Conforms(v.elements[k], d.items)
      /\ v.kind = "object" =>
           /\ has("required") => d.required \subseteq DOMAIN v.members
           /\ has("properties") =>
                \A p \in DOMAIN d.properties \cap DOMAIN v.members : Conforms(v.members[p], d.properties[p])
           /\ has("additionalProperties") /\ ~d.additionalProperties =>
                has("properties") /\ DOMAIN v.members \subseteq DOMAIN d.properties

\* The part of a server's document the SDK promises to enforce.
RECURSIVE Kept(_)
Kept(d) ==
  LET keywords == {k \in DOMAIN d \cap {"type", "required", "properties", "items"} :
                     k = "type" => \E n \in DOMAIN d.type : d.type[n] \in SchemaTypes}
  IN  [k \in keywords |->
        CASE k = "properties" -> [p \in DOMAIN d.properties |-> Kept(d.properties[p])]
          [] k = "items"      -> Kept(d.items)
          [] OTHER            -> d[k]]

RECURSIVE Inhabits(_, _)

FieldAllows(v, f) ==
  LET count(n) == IF v.kind = "string" THEN {v.length} ELSE IF v.kind = "array" THEN {Len(v.elements)} ELSE {}
  IN  /\ \A parts \in FieldTag(f, "enum") : \E k \in DOMAIN parts :
           \E x \in {parts[k].text} \cup parts[k].reads : SameValue(x, v)
      /\ \A b \in ReadNumber(f, "min") : v.halves >= b.halves
      /\ \A b \in ReadNumber(f, "max") : v.halves <= b.halves
      /\ \A b \in ReadCount(f, "minLength") \cup ReadCount(f, "minItems") : \A n \in count(v) : n >= b
      /\ \A b \in ReadCount(f, "maxLength") \cup ReadCount(f, "maxItems") : \A n \in count(v) : n <= b
      /\ "pattern" \in DOMAIN f.tags => v.matches
      /\ FALSE \in ReadBool(f, "additionalProperties") =>
           DOMAIN v.members \subseteq {JSONName(g) : g \in {f.type.fields[k] : k \in DOMAIN f.type.fields}}

\* v is a value that encoding/json can store in a variable of the type.
Inhabits(v, t) ==
  CASE t.go = "pointer" -> Inhabits(v, t.elem)
    [] t.go = "string"  -> v.kind = "string"
    [] t.go = "bool"    -> v.kind = "boolean"
    [] t.go = "int"     -> HasType(v, "integer")
    [] t.go = "float"   -> v.kind = "number"
    [] t.go = "slice"   -> v.kind = "array" /\ \A k \in DOMAIN v.elements : Inhabits(v.elements[k], t.elem)
    [] t.go = "array"   -> v.kind = "array" /\ Len(v.elements) = t.len
                           /\ \A k \in DOMAIN v.elements : Inhabits(v.elements[k], t.elem)
    [] t.go = "struct"  ->
         v.kind = "object" /\ \A k \in {j \in DOMAIN t.fields : InJSON(t.fields[j])} :
           LET f == t.fields[k]
               n == JSONName(f)
           IN  IF n \in DOMAIN v.members
                 THEN Inhabits(v.members[n], f.type) /\ FieldAllows(v.members[n], f)
                 ELSE TRUE \notin ReadBool(f, "required")
    [] OTHER            -> FALSE
=============================================================================
