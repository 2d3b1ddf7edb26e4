------------------------------- MODULE Forms -------------------------------
(***************************************************************************)
(* Component values and the forms they are edited in: FieldSpec and the    *)
(* path helpers of schema_registry.rs, FormState of app.rs.                *)
(*                                                                         *)
(* A component's YAML value is a function from dotted keys ("udp.          *)
(* listen_address") to leaves; no field table has both a key and a path    *)
(* below it, so reading and writing a path never meets a scalar on the     *)
(* way.  A leaf is tagged by what serde_json makes of it:                  *)
(*   <<"str", s>>  <<"bool", b>>  <<"arr", seq of leaves>>  <<"obj", v>>   *)
(*   <<"other", t>>  a number or null, which prints as t                   *)
(***************************************************************************)
EXTENDS Naturals, Sequences, SequencesExt

CONSTANTS
  Pieces(_),   \* a text split at its commas, each piece trimmed
  JsonText     \* how an array or object prints in a one-line text field

Str(s) == <<"str", s>>
Strs(seq) == <<"arr", [i \in DOMAIN seq |-> Str(seq[i])]>>
Missing == <<"missing">>

\* None and Some(x) of Rust.
None == << >>
Some(x) == <<x>>
UnwrapOr(opt, x) == IF opt = None THEN x ELSE opt[1]

\* FieldSpec: `options` is the argument of FieldKind::Enum.
Field(key, kind, required, default) ==
  [key |-> key, kind |-> kind, options |-> << >>, required |-> required,
   default |-> default]
EnumField(key, options, required, default) ==
  [Field(key, "Enum", required, default) EXCEPT !.options = options]

\* The leaf at a key, Missing if there is none.
get_path(value, key) == IF key \in DOMAIN value THEN value[key] ELSE Missing

\* The value with a leaf put at a path.
set_path(value, path, leaf) ==
  [k \in DOMAIN value \union {path} |-> IF k = path THEN leaf ELSE value[k]]

-----------------------------------------------------------------------------

\* minimal_value: the required fields, at their default or a placeholder.
\* The default is written as a string whatever the field's kind.
Placeholder(f) ==
  CASE f.default # None          -> Str(f.default[1])
    [] f.kind = "StringList"     -> Strs(<<"placeholder">>)
    [] f.kind = "Bool"           -> <<"bool", FALSE>>
    [] f.kind = "OperatorList"   -> <<"arr", << >>>>
    [] f.kind = "Enum"           -> Str(f.options[1])
    [] OTHER                     -> Str("placeholder")

minimal_value(fields) ==
  LET Required == {i \in DOMAIN fields : fields[i].required}
      At(k) == CHOOSE i \in Required : fields[i].key = k
  IN  [k \in {fields[i].key : i \in Required} |-> Placeholder(fields[At(k)])]

-----------------------------------------------------------------------------
\* The widgets.  A text field holds its text; a list field the pieces of its
\* comma-separated text, blanks included; an enum field the option selected.

IsStr(leaf) == leaf[1] = "str"

\* value_to_display_string.
Shown(leaf) ==
  CASE leaf[1] \in {"str", "other"} -> leaf[2]
    [] leaf[1] = "bool"             -> IF leaf[2] THEN "true" ELSE "false"
    [] OTHER                        -> JsonText

OptionIndex(options, s) ==
  IF \E i \in DOMAIN options : options[i] = s
  THEN CHOOSE i \in DOMAIN options : options[i] = s
  ELSE 1

\* The pieces of an array's texts, one text after the other.
PiecesOf(arr) ==
  FlattenSeq([i \in DOMAIN arr |->
    IF IsStr(arr[i]) THEN Pieces(arr[i][2]) ELSE << >>])

\* field_edit_state_from, one widget kind each.
EnumState(f, leaf) ==
  <<"enum", OptionIndex(f.options,
      IF IsStr(leaf) THEN leaf[2] ELSE UnwrapOr(f.default, f.options[1]))>>
BoolState(f, leaf) ==
  <<"bool", IF leaf[1] = "bool" THEN leaf[2] ELSE f.default = Some("true")>>
ListState(f, leaf) ==
  <<"list", IF leaf[1] = "arr" THEN PiecesOf(leaf[2]) ELSE << >>>>
OpsState(f, leaf) ==
  <<"ops", IF leaf[1] = "arr" THEN leaf[2] ELSE << >>>>
BugTextState(f, leaf) ==
  <<"text", IF leaf = Missing THEN "" ELSE UnwrapOr(f.default, Shown(leaf))>>
TextState(f, leaf) ==
  <<"text", IF leaf = Missing THEN UnwrapOr(f.default, "") ELSE Shown(leaf)>>

field_edit_state_from(f, value) ==
  LET leaf == get_path(value, f.key)
  IN  CASE f.kind = "Enum"         -> EnumState(f, leaf)
        [] f.kind = "Bool"         -> BoolState(f, leaf)
        [] f.kind = "StringList"   -> ListState(f, leaf)
        [] f.kind = "OperatorList" -> OpsState(f, leaf)
        [] OTHER                   -> TextState(f, leaf)

\* The widget of a field.
WidgetOf(f) ==
  CASE f.kind = "Enum" -> "enum" [] f.kind = "Bool" -> "bool"
    [] f.kind = "StringList" -> "list" [] f.kind = "OperatorList" -> "ops"
    [] OTHER -> "text"

\* FormState::new: what is on screen when a form opens.
OpenFields(fields, value) ==
  [i \in DOMAIN fields |-> field_edit_state_from(fields[i], value)]

\* What is left of a list without x.
Others(list, x) ==
  FlattenSeq([i \in DOMAIN list |-> IF list[i] = x THEN << >> ELSE <<list[i]>>])

\* One arm of to_value: what a widget writes, Missing if it is skipped.
Written(f, state) ==
  CASE state[1] = "text" -> IF state[2] = "" THEN Missing ELSE Str(state[2])
    [] state[1] = "bool" -> state
    [] state[1] = "enum" -> Str(f.options[state[2]])
    [] state[1] = "list" ->
         LET items == Others(state[2], "")
         IN  IF items = << >> THEN Missing ELSE Strs(items)
    [] state[1] = "ops"  ->
         IF state[2] = << >> THEN Missing ELSE <<"arr", state[2]>>

\* to_value, but for the `type:` key of operators.
WrittenFields(fields, states) ==
  LET Kept == {i \in DOMAIN fields : Written(fields[i], states[i]) # Missing}
      At(k) == CHOOSE i \in Kept : fields[i].key = k
  IN  [k \in {fields[i].key : i \in Kept} |->
         Written(fields[At(k)], states[At(k)])]
=============================================================================
