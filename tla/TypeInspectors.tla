--------------------------- MODULE TypeInspectors ---------------------------
(***************************************************************************)
(* The declarative type inspectors (oidtypes/declarative.py) between       *)
(* typebridge.py and the debugger: a types file is loaded, entries that do *)
(* not validate are left out, and the first inspector that matches a       *)
(* symbol turns it into buffer metadata, field by field.  Validation and   *)
(* resolution are two independent readings of the same JSON.               *)
(*                                                                         *)
(* A JSON value is a record tagged with its shape.  A string is what the   *)
(* readers tell apart: the placeholders it uses and whether it is an       *)
(* expression, one bare placeholder, a decimal, a dtype name, a layout or  *)
(* a regex.  What resolving a value node may end in is a set of outcomes,  *)
(* one per way the debugger may answer.  The readers recurse over a value's *)
(* parts: valid[part] and resolve[part] are what they say of a part.       *)
(***************************************************************************)
EXTENDS Integers, Sequences, SequencesExt, TLC

CONSTANTS DebuggerInts,  \* integers an expression may evaluate to
          Json,          \* the JSON values that occur in the entries of types files
          Depth(_),      \* how deep one is nested
          Documents      \* the "types" arrays of the files that may be loaded

JNull == [shape |-> "null"]
JBool(b) == [shape |-> "bool", b |-> b]
JInt(n) == [shape |-> "int", n |-> n]
JFloat(n) == [shape |-> "float", trunc |-> n]
JList(items) == [shape |-> "list", items |-> items]
JObject(at) == [shape |-> "object", at |-> at]
JString(form, uses) == [shape |-> "str", form |-> form, uses |-> uses]

Is(node, shapes) == node.shape \in shapes
Has(node, key) == Is(node, {"object"}) /\ key \in DOMAIN node.at

RESOLUTION_ORDER == <<"dtype", "transpose", "width", "height", "channels",
                      "pointer", "row_stride", "pixel_layout">>
REQUIRED_FIELDS == {"match", "pointer", "width", "height", "dtype"}
KNOWN_ENTRY_KEYS == Range(RESOLUTION_ORDER)
                    \cup {"name", "description", "match", "language", "display_name"}
FIELD_DEFAULTS == [channels |-> JInt(1), row_stride |-> JString("bare", {"width"}),
                   pixel_layout |-> JString("layout", {}), transpose |-> JBool(FALSE)]

\* What json.load() may yield: a tree, whose parts are JSON values less deep.
PartsOf(node) ==
    CASE Is(node, {"list"}) -> Range(node.items)
      [] Is(node, {"object"}) -> {node.at[key] : key \in DOMAIN node.at}
      [] OTHER -> {}

IsJson(node) ==
    CASE Is(node, {"null"}) -> node = JNull
      [] Is(node, {"bool"}) -> node = JBool(node.b) /\ node.b \in BOOLEAN
      [] Is(node, {"int"}) -> node = JInt(node.n) /\ node.n \in Int
      [] Is(node, {"float"}) -> node = JFloat(node.trunc) /\ node.trunc \in Int
      [] Is(node, {"str"}) -> /\ node = JString(node.form, node.uses)
                              /\ node.form = "bare" => \E t \in node.uses : node.uses = {t}
      [] Is(node, {"list"}) -> node.items \in Seq(Json)
      [] Is(node, {"object"}) -> DOMAIN node.at \subseteq STRING
      [] OTHER -> FALSE

ASSUME JsonAssumption ==
    /\ DebuggerInts \subseteq Int
    /\ \A document \in Documents : \A entry \in Range(document) :
          IsJson(entry) /\ PartsOf(entry) \subseteq Json
    /\ \A field \in DOMAIN FIELD_DEFAULTS : FIELD_DEFAULTS[field] \in Json
    /\ \A node \in Json :
          /\ IsJson(node) /\ Depth(node) \in Nat
          /\ \A part \in PartsOf(node) : part \in Json /\ Depth(part) < Depth(node)

VALID_DTYPE_CODES == {0, 2, 3, 4, 5, 6}
DTYPE_ELEMSIZE == [c \in VALID_DTYPE_CODES |->
                       CASE c = 0 -> 1 [] c \in {2, 3} -> 2 [] c \in {4, 5} -> 4 [] c = 6 -> 8]

\* Mutant: row_stride may mention itself.
Bug_StrideOfItself(field) ==
    CASE field = "dtype" -> {}
      [] field = "transpose" -> {"dtype", "elemsize"}
      [] field = "width" -> {"dtype", "elemsize", "transpose"}
      [] field = "height" -> {"dtype", "elemsize", "transpose", "width"}
      [] field = "channels" -> {"dtype", "elemsize", "transpose", "width", "height"}
      [] OTHER -> {"dtype", "elemsize", "transpose", "width", "height", "channels", "row_stride"}

\* What a field's strings may mention, checked when the file is loaded.
_DERIVED_BY_STAGE(field) ==
    CASE field = "dtype" -> {}
      [] field = "transpose" -> {"dtype", "elemsize"}
      [] field = "width" -> {"dtype", "elemsize", "transpose"}
      [] field = "height" -> {"dtype", "elemsize", "transpose", "width"}
      [] field = "channels" -> {"dtype", "elemsize", "transpose", "width", "height"}
      [] field \in {"pointer", "row_stride"} ->
             {"dtype", "elemsize", "transpose", "width", "height", "channels"}
      [] field = "pixel_layout" ->
             {"dtype", "elemsize", "transpose", "width", "height", "channels", "row_stride"}
-----------------------------------------------------------------------------
(* Load-time validation: TRUE stands for an empty list of problems.         *)

_string_node_errors(text, field) ==
    text.uses \subseteq _DERIVED_BY_STAGE(field) \cup {"sym", "targ"}

\* The bare numbers a field takes, at the top and inside every node.
_numeric_literal_errors(node, field) ==
    CASE field = "pointer" -> FALSE
      [] field = "transpose" -> TRUE
      [] OTHER -> Is(node, {"int"})

Expression(node, key, field) ==
    Is(node.at[key], {"str"}) /\ _string_node_errors(node.at[key], field)

_validate_min_wrapper(node, field) ==
    /\ DOMAIN node.at = {"expr", "min"}
    /\ Is(node.at["min"], {"int"})
    /\ Expression(node, "expr", field)

_validate_first_valid(candidates, field, valid) ==
    /\ Is(candidates, {"list"}) /\ candidates.items # <<>>
    /\ \A candidate \in Range(candidates.items) :
          IF Has(candidate, "min")
          THEN field # "pointer" /\ _validate_min_wrapper(candidate, field)
          ELSE valid[candidate]

_validate_map(node, field, valid) ==
    /\ DOMAIN node.at \subseteq {"expr", "map", "default"}
    /\ Expression(node, "expr", field)
    /\ Is(node.at["map"], {"object"}) /\ DOMAIN node.at["map"].at # {}
    /\ \A key \in DOMAIN node.at["map"].at : valid[node.at["map"].at[key]]
    /\ Has(node, "default") => valid[node.at["default"]]

\* if/then/else, shared by value nodes and layouts.
_validate_value_node(node, field, valid) ==
    /\ DOMAIN node.at \subseteq {"if", "then", "else"}
    /\ Expression(node, "if", field)
    /\ \A branch \in {"then", "else"} : Has(node, branch) /\ valid[node.at[branch]]

NodeIsValid(node, field, valid) ==
    IF field = "pixel_layout"
    THEN \/ Is(node, {"str"}) /\ node.form = "layout"
         \/ Has(node, "if") /\ _validate_value_node(node, field, valid)
    ELSE \/ Is(node, {"bool", "int", "float"}) /\ _numeric_literal_errors(node, field)
         \/ Is(node, {"str"}) /\ _string_node_errors(node, field)
         \/ /\ Has(node, "first_valid") /\ DOMAIN node.at = {"first_valid"}
            /\ _validate_first_valid(node.at["first_valid"], field, valid)
         \/ Has(node, "if") /\ _validate_value_node(node, field, valid)
         \/ Has(node, "expr") /\ Has(node, "map") /\ _validate_map(node, field, valid)

_validate_node(field) ==
    LET valid[node \in Json] == NodeIsValid(node, field, valid) IN valid

\* An absent required field has been reported already.
_validate_field(entry, field) ==
    LET node == IF Has(entry, field) THEN entry.at[field] ELSE FIELD_DEFAULTS[field] IN
    (Has(entry, field) \/ field \notin REQUIRED_FIELDS) =>
        _validate_node(field)[node]

_validate_display_name(entry) ==
    Has(entry, "display_name") =>
        /\ Is(entry.at["display_name"], {"str"})
        /\ entry.at["display_name"].uses \subseteq {"name", "type", "targ"}

_validate_entry(entry) ==
    /\ REQUIRED_FIELDS \subseteq DOMAIN entry.at /\ DOMAIN entry.at \subseteq KNOWN_ENTRY_KEYS
    /\ Is(entry.at["match"], {"str"}) /\ entry.at["match"].form = "regex"
    /\ \A field \in Range(RESOLUTION_ORDER) : _validate_field(entry, field)
    /\ _validate_display_name(entry)
    /\ Has(entry, "description") => Is(entry.at["description"], {"str"})

\* The inspectors a file yields; another backend's entries and invalid ones are
\* left out.
_load_types_file(entries) ==
    {entry \in Range(entries) :
        /\ Is(entry, {"object"})
        /\ Has(entry, "language") => entry.at["language"] = JString("cpp", {})
        /\ _validate_entry(entry)}
-----------------------------------------------------------------------------
(* Plot-time resolution.  An outcome is a value or an exception: "entry" is *)
(* EntryEvaluationError, "raised" the debugger's own exception, which only  *)
(* plot_variable() catches, and "crash" the reader tripping over the JSON   *)
(* (KeyError, TypeError).  avoidable marks a failure the file shows.        *)

Ok(v) == [end |-> "ok", v |-> v, avoidable |-> FALSE]
Failure(end) == [end |-> end, v |-> JNull, avoidable |-> FALSE]
EntryError == Failure("entry")
AvoidableError == [EntryError EXCEPT !.avoidable = TRUE]

Bind(outcomes, F(_)) == UNION {IF o.end = "ok" THEN F(o.v) ELSE {o} : o \in outcomes}

\* What the debugger may answer: a number, LLDB's text for a boolean, a text
\* that is no number, or a struct, which int() refuses with gdb.error.
_evaluate_via_bridge ==
    {Ok(JInt(n)) : n \in DebuggerInts}
    \cup {Ok([shape |-> "answer", text |-> t]) : t \in {"true", "false", "other", "struct"}}
    \cup {EntryError}

\* The text after substitution.  A template argument resolves to a number, to a
\* type name or not at all; text of one placeholder becomes that number.
substitute(node, placeholders) ==
    IF ~Is(node, {"str"}) \/ ~(node.uses \subseteq DOMAIN placeholders \cup {"sym", "targ"})
    THEN {AvoidableError}
    ELSE CASE node.form = "bare" /\ node.uses = {"targ"} ->
                  {Ok(JInt(n)) : n \in DebuggerInts}
                  \cup {Ok(JString("uint8", {})), Ok(JString("expr", {})), EntryError}
           [] node.form = "bare" /\ node.uses \subseteq DOMAIN placeholders ->
                  {Ok(JInt(placeholders[t])) : t \in node.uses}
           [] OTHER -> {Ok(JString(node.form, {}))}
                       \cup (IF "targ" \in node.uses THEN {EntryError} ELSE {})

\* A number never reaches the debugger.
evaluate_text(text) == IF Is(text, {"int"}) THEN {Ok(text)} ELSE _evaluate_via_bridge

evaluate(node, placeholders) == Bind(substitute(node, placeholders), evaluate_text)

\* int(value); TypeError and ValueError become an entry error in every caller.
_to_int(value) ==
    CASE Is(value, {"int"}) -> {Ok(value)}
      [] Is(value, {"answer"}) /\ value.text = "struct" -> {Failure("raised")}
      [] OTHER -> {EntryError}

_to_bool(value) ==
    CASE Is(value, {"bool"}) -> {Ok(value)}
      [] Is(value, {"int"}) -> {Ok(JBool(value.n # 0))}
      [] Is(value, {"float"}) -> {Ok(JBool(value.trunc # 0))}
      [] Is(value, {"answer"}) /\ value.text \in {"true", "false"} -> {Ok(JBool(value.text = "true"))}
      [] Is(value, {"answer"}) /\ value.text = "struct" -> {Failure("raised")}
      [] OTHER -> {EntryError}

Evaluated(node, placeholders) ==
    IF Is(node, {"str"}) THEN evaluate(node, placeholders) ELSE {Ok(node)}

NonNegative(v) == IF v.n < 0 THEN {EntryError} ELSE {Ok(v)}

_leaf_int(node, placeholders) ==
    IF ~Is(node, {"str", "int"}) THEN {AvoidableError}
    ELSE Bind(Bind(Evaluated(node, placeholders), _to_int), NonNegative)

_leaf_bool(node, placeholders) ==
    IF Is(node, {"null", "list"}) THEN {AvoidableError}
    ELSE Bind(Evaluated(node, placeholders), _to_bool)

\* A dtype is named, or its code is given or asked of the debugger.
DtypeOfText(text) ==
    IF text = JString("uint8", {}) THEN {Ok(JInt(0))}
    ELSE Bind(evaluate_text(text), _to_int)
KnownCode(v) == IF v.n \in VALID_DTYPE_CODES THEN {Ok(v)} ELSE {EntryError}

_leaf_dtype(node, placeholders) ==
    CASE Is(node, {"str"}) -> Bind(Bind(substitute(node, placeholders), DtypeOfText), KnownCode)
      [] Is(node, {"int"}) -> KnownCode(node)
      [] OTHER -> {AvoidableError}

\* Always through the debugger: the result must be a value that can be cast.
_leaf_pointer(node, placeholders) ==
    LET Ask(text) == _evaluate_via_bridge IN Bind(substitute(node, placeholders), Ask)

Leaf(field, node, placeholders) ==
    CASE field = "dtype" -> _leaf_dtype(node, placeholders)
      [] field = "transpose" -> _leaf_bool(node, placeholders)
      [] field = "pointer" -> _leaf_pointer(node, placeholders)
      [] field = "pixel_layout" -> {Ok(node)}
      [] OTHER -> _leaf_int(node, placeholders)

_condition_bool(node, placeholders) == Bind(evaluate(node, placeholders), _to_bool)

_resolve_if(node, placeholders, resolve) ==
    LET Branch(c) == LET key == IF c.b THEN "then" ELSE "else" IN
                     IF Has(node, key) THEN resolve[node.at[key]] ELSE {Failure("crash")} IN
    Bind(_condition_bool(node.at["if"], placeholders), Branch)

\* The wrapped integer, if it is not below the minimum, read by the field's leaf.
ResolveMin(field, node, placeholders) ==
    LET Enough(v) == IF ~Is(node.at["min"], {"int"}) THEN {AvoidableError}
                     ELSE IF v.n < node.at["min"].n THEN {EntryError}
                     ELSE Leaf(field, v, placeholders) IN
    IF Has(node, "expr")
    THEN Bind(Bind(evaluate(node.at["expr"], placeholders), _to_int), Enough)
    ELSE {Failure("crash")}

\* The candidates in order: one that ends in an entry error is passed over, but a
\* failure the file shows is kept.
PassedOver(o) == o.end = "entry" /\ ~o.avoidable

TryInOrder(tried) ==
    LET Reached(k) == \A i \in 1..(k - 1) : \E o \in tried[i] : PassedOver(o) IN
    {o \in UNION {tried[k] : k \in {k \in DOMAIN tried : Reached(k)}} : ~PassedOver(o)}
    \cup {o \in {EntryError} : Reached(Len(tried) + 1)}

_resolve_first_valid(field, candidates, placeholders, resolve) ==
    IF Is(candidates, {"list"})
    THEN TryInOrder([i \in DOMAIN candidates.items |->
            IF Has(candidates.items[i], "min")
            THEN ResolveMin(field, candidates.items[i], placeholders)
            ELSE resolve[candidates.items[i]]])
    ELSE {Failure("crash")}

\* The key is the number's decimal, or the text of the answer.
_resolve_map(node, placeholders, resolve) ==
    LET Select(raw) ==
            LET key == IF Is(raw, {"int"}) THEN ToString(raw.n) ELSE raw.text IN
            IF key = "struct" THEN {Failure("raised")}
            ELSE IF Has(node.at["map"], key) THEN resolve[node.at["map"].at[key]]
            ELSE IF Has(node, "default") THEN resolve[node.at["default"]]
            ELSE {EntryError} IN
    IF Has(node, "expr") /\ Has(node, "map") /\ Is(node.at["map"], {"object"})
    THEN Bind(evaluate(node.at["expr"], placeholders), Select)
    ELSE {Failure("crash")}

\* _resolve_node(), and _resolve_pixel_layout() for a layout, which knows
\* conditions only.
NodeOutcomes(field, node, placeholders, resolve) ==
    CASE ~Is(node, {"object"}) -> Leaf(field, node, placeholders)
      [] Has(node, "first_valid") /\ field # "pixel_layout" ->
             _resolve_first_valid(field, node.at["first_valid"], placeholders, resolve)
      [] Has(node, "if") /\ (field = "pixel_layout" \/ ~Has(node, "first_valid")) ->
             _resolve_if(node, placeholders, resolve)
      [] OTHER -> IF field = "pixel_layout" THEN {Failure("crash")}
                  ELSE _resolve_map(node, placeholders, resolve)

_resolve_node(field, placeholders) ==
    LET resolve[node \in Json] == NodeOutcomes(field, node, placeholders, resolve) IN resolve
-----------------------------------------------------------------------------
VARIABLES
    inspectors, \* the entries TypeBridge registered
    entry,      \* the inspector resolving the symbol, or JNull
    fields,     \* the fields resolved so far
    plot        \* how the request stands or ended

inspectorVars == <<inspectors, entry, fields, plot>>

_field_node(field) == IF Has(entry, field) THEN entry.at[field] ELSE FIELD_DEFAULTS[field]

\* Substitution texts of the fields resolved so far; a pointer is not one.
placeholders ==
    LET named == DOMAIN fields \ {"pointer", "pixel_layout"}
        derived == IF "dtype" \in named THEN {"elemsize"} ELSE {} IN
    [t \in named \cup derived |->
        CASE t = "elemsize" -> DTYPE_ELEMSIZE[fields["dtype"].n]
          [] t = "transpose" -> IF fields["transpose"].b THEN 1 ELSE 0
          [] OTHER -> fields[t].n]

\* TypeBridge.__init__(): the user's types file.
LoadInspectors ==
    /\ plot = "unloaded"
    /\ \E document \in Documents : inspectors' = _load_types_file(document)
    /\ plot' = "ready"
    /\ UNCHANGED <<entry, fields>>

\* TypeBridge.get_buffer_metadata(): the first inspector whose regex matches one
\* of the symbol's type strings; a later one is no fallback.
PickInspector ==
    /\ plot = "ready"
    /\ entry' \in inspectors
    /\ plot' = "resolving"
    /\ UNCHANGED <<inspectors, fields>>

NoInspector ==
    /\ plot = "ready"
    /\ plot' = "None"
    /\ UNCHANGED <<inspectors, entry, fields>>

\* DeclarativeInspector.get_buffer_metadata(): one field after the other.  A null
\* pointer is an entry error, a value that cannot be cast the debugger's.
ResolveField ==
    /\ plot = "resolving" /\ Cardinality(DOMAIN fields) < Len(RESOLUTION_ORDER)
    /\ LET field == RESOLUTION_ORDER[Cardinality(DOMAIN fields) + 1]
           Cast(v) == CASE Is(v, {"int"}) /\ v.n = 0 -> {EntryError}
                        [] Is(v, {"int"}) /\ v.n # 0 -> {Ok(v)}
                        [] OTHER -> {Ok(JInt(1)), Failure("raised")} IN
       \E o \in IF field = "pointer" THEN Bind(_resolve_node(field, placeholders)[_field_node(field)], Cast)
                ELSE _resolve_node(field, placeholders)[_field_node(field)] :
          IF o.avoidable \/ o.end # "ok"
          THEN plot' = (IF o.avoidable THEN "avoidable" ELSE o.end) /\ UNCHANGED fields
          ELSE /\ fields' = [f \in DOMAIN fields \cup {field} |-> IF f = field THEN o.v ELSE fields[f]]
               /\ UNCHANGED plot
    /\ UNCHANGED <<inspectors, entry>>

Resolved == plot = "resolving" /\ DOMAIN fields = Range(RESOLUTION_ORDER)

\* The metadata as a geometry.
Metadata == [width |-> fields["width"].n, height |-> fields["height"].n,
             channels |-> fields["channels"].n, stride |-> fields["row_stride"].n,
             type |-> fields["dtype"].n]

InspectorInit ==
    /\ inspectors = {}
    /\ entry = JNull
    /\ fields = <<>>
    /\ plot = "unloaded"

\* Whatever a types file holds, an entry that is loaded is sound: resolving it
\* never trips over the JSON, never meets a placeholder that is not there yet or a
\* literal of the wrong type -- not even in a candidate that first_valid passes
\* over -- and the metadata it ends in is well formed.  Failures are left to
\* values that only the debugger knows (docstring of _validate_entry(); "Error
\* handling" in doc/declarative-types.md).
ValidatedResolves ==
    /\ plot \notin {"avoidable", "crash"}
    /\ Resolved =>
          /\ Metadata.type \in VALID_DTYPE_CODES
          /\ \A n \in {Metadata.width, Metadata.height, Metadata.channels, Metadata.stride} : n >= 0
          /\ Is(fields["transpose"], {"bool"}) /\ fields["pointer"].n # 0
          /\ Is(fields["pixel_layout"], {"str"}) /\ fields["pixel_layout"].form = "layout"
=============================================================================
