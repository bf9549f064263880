----------------------------- MODULE MCPlotPath -----------------------------
(***************************************************************************)
(* Types files for PlotPath: a sound entry with any one field replaced by  *)
(* any value node of small depth, sound or not.                            *)
(***************************************************************************)
EXTENDS PlotPath

\* A size below zero, zero, two sizes and one that an int cannot hold; 0, 2 and 5
\* are dtype codes as well.
MCDebuggerInts == {-1, 0, 2, 5, 66}

Expr(uses) == JString("expr", uses)

\* One literal or string of every kind, and every placeholder.
Scalars ==
    {JNull, JBool(TRUE), JFloat(1), JInt(2), JInt(-1), JList(<<>>),
     JString("uint8", {}), JString("layout", {}), JString("bare", {"targ"})}
    \cup {Expr({t}) : t \in {"sym", "targ", "dtype", "elemsize", "transpose", "width",
                             "height", "channels", "pointer", "row_stride", "pixel_layout"}}

\* What branches and candidates are made of.
Parts == {JBool(FALSE), JInt(2), Expr({"sym"}), JString("bare", {"width"}),
          JString("layout", {})}

Ifs(parts) ==
    {JObject([key \in {"if"} \cup keys |->
                 CASE key = "if" -> c [] key = "then" -> a [] OTHER -> b]) :
        keys \in {{}, {"then"}, {"else"}, {"then", "else"}, {"then", "else", "default"}},
        c \in {Expr({"sym"}), Expr({"height"}), JInt(2)}, a \in parts, b \in parts}

Mins == {JObject([expr |-> x, min |-> n]) :
            x \in {Expr({"sym"}), JString("bare", {"targ"}), Expr({"width"})},
            n \in {JInt(1), JBool(TRUE)}}
        \cup {JObject([min |-> JInt(1)])}

FirstValids(parts) ==
    {JObject([first_valid |-> x]) :
        x \in {JList(<<>>), JInt(2)}
              \cup {JList(<<a, b>>) : a \in parts \cup Mins, b \in parts \cup Mins}}

Maps(parts) ==
    {JObject([expr |-> Expr({"sym"}), map |-> m]) :
        m \in {JInt(2), JObject(<<>>)} \cup {JObject([k \in {"2", "true"} |-> a]) : a \in parts}}
    \cup {JObject([expr |-> x, map |-> JObject([k \in {"0"} |-> a]), default |-> b]) :
             x \in {Expr({"targ"}), Expr({"row_stride"})}, a \in parts, b \in parts}
    \cup {JObject([expr |-> Expr({"sym"})]), JObject([map |-> JObject(<<>>)])}

\* A node inside another.
Nested ==
    LET inner == {n \in Ifs({JInt(2), JString("layout", {})}) : n.at["if"] = Expr({"sym"})}
                 \cup {JObject([first_valid |-> JList(<<Expr({"pointer"}), JInt(2)>>)])} IN
    {JObject([if |-> Expr({"sym"}), then |-> a, else |-> b]) :
        a \in inner, b \in {JInt(2), JString("layout", {})}}
    \cup {JObject([first_valid |-> JList(<<a, JInt(2)>>)]) : a \in inner}
    \cup {JObject([expr |-> Expr({"sym"}), map |-> JObject([k \in {"2"} |-> a])]) : a \in inner}

Nodes == Scalars \cup Ifs(Parts) \cup FirstValids(Parts) \cup Maps(Parts) \cup Nested

Sound == [match |-> JString("regex", {}), dtype |-> JString("uint8", {}), width |-> JInt(2),
          height |-> JInt(2), pointer |-> Expr({"sym"})]

\* Every size asked of the debugger, the stride with its placeholders.
Asking == [Sound EXCEPT !.width = Expr({"sym"}), !.height = Expr({"sym", "width"})]
          @@ [row_stride |-> Expr({"sym", "channels", "elemsize"}),
              channels |-> JString("bare", {"targ"})]

\* Entries spoilt in some other way than a value node.
Spoilt ==
    {[k \in DOMAIN Sound \ {key} |-> Sound[k]] : key \in {"match", "dtype", "pointer"}}
    \cup {("language" :> JString("other", {})) @@ Sound,
          ("language" :> JString("cpp", {})) @@ ("display_name" :> JString("expr", {"name"})) @@ Sound,
          ("display_name" :> Expr({"width"})) @@ Sound,
          ("description" :> JNull) @@ Sound,
          ("pixel_order" :> JString("layout", {})) @@ Sound,
          ("match" :> JString("expr", {})) @@ Sound}

MCDocuments ==
    {<<JObject((field :> node) @@ Sound)>> : field \in Range(RESOLUTION_ORDER), node \in Nodes}
    \cup {<<JNull, JObject(e), JObject(Asking)>> : e \in Spoilt}

\* The parts of a value, theirs and so on: how deep it is, and all that is inside.
MCDepth(node) ==
    LET inside[k \in 0..9] == IF k = 0 THEN {node} ELSE UNION {PartsOf(part) : part \in inside[k - 1]} IN
    Cardinality({k \in 1..9 : inside[k] # {}})

AndParts(nodes) == {node : node \in nodes \cup UNION {PartsOf(n) : n \in nodes}}

JsonValues == AndParts(AndParts(AndParts(AndParts(
    Nodes \cup UNION {PartsOf(JObject(e)) : e \in Spoilt \cup {Sound, Asking}}
    \cup {FIELD_DEFAULTS[field] : field \in DOMAIN FIELD_DEFAULTS}))))
MCJson == JsonValues
=============================================================================
