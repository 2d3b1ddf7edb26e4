---------------------------- MODULE ConfigEditor ----------------------------
(***************************************************************************)
(* `sgcia edit`: the document, the screens and what each key does on them  *)
(* (app.rs), and the document's relation to the file (model.rs).  One      *)
(* action per key, or per group of keys that do the same.                  *)
(*                                                                         *)
(* A category is named by its tab.  EditComponent and EditPipeline are one *)
(* screen, "Edit", as are the two prompts for a new name; the receivers    *)
(* and exporters fields of a pipeline are a form like any other.  Typing a *)
(* name or a text is one step to any of Names, Texts or Lists; a typed     *)
(* name is taken as trimmed.  Lists are counted from 1 (the code from 0).  *)
(***************************************************************************)
EXTENDS Forms, FiniteSets, TLC

CONSTANTS
  Ids,               \* component and pipeline ids
  Rank,              \* Rank[id]: position of id in string order
  component_type,    \* component_type[id]: the part of id before the '/'
  TypesFor, OperatorTypes, Templates, Build(_, _),   \* the registries
  Valid(_),          \* what `sgcia-otelcol validate` accepts (external)
  Files,             \* what the config file may hold at the start
  Names, Texts, Lists,   \* what the user types: ids, texts, list texts
  MaxChanges, MaxEdits,  \* bounds: document changes, edits of a field
  MaxOps                 \* bound: operators of a receiver while adding

Categories == {"Receivers", "Exporters", "Extensions"}
Tabs == Categories \union {"Pipelines"}

\* A field of a form is looked up by the form's schema: what `fields_spec`
\* points to.
Named(table, name) == \E i \in DOMAIN table : table[i].type_name = name
FieldsNamed(table, name) ==
  table[CHOOSE i \in DOMAIN table : table[i].type_name = name].fields
TemplateKeys == {Templates[i].key : i \in DOMAIN Templates}
TemplateOf(key) ==
  Templates[CHOOSE i \in DOMAIN Templates : Templates[i].key = key]

PIPELINE_FIELDS ==
  << Field("receivers", "StringList", FALSE, None),
     Field("exporters", "StringList", FALSE, None) >>

TypeNames(table) == {table[i].type_name : i \in DOMAIN table}
Schemas ==
  {<<"Pipelines", "">>}
    \union (UNION {{c} \X TypeNames(TypesFor[c]) : c \in Categories})
    \union {"Operator"} \X TypeNames(OperatorTypes)
    \union {"Template"} \X TemplateKeys

FieldsOf ==
  [s \in Schemas |->
     CASE s[1] = "Pipelines" -> PIPELINE_FIELDS
       [] s[1] = "Operator"  -> FieldsNamed(OperatorTypes, s[2])
       [] s[1] = "Template"  -> TemplateOf(s[2]).params
       [] OTHER              -> FieldsNamed(TypesFor[s[1]], s[2])]

IsSequence(s) == s \in Seq(ToSet(s))
IsTable(s) == IsSequence(s) /\ s # << >>

\* A document: for each section, what its ids stand for.
DocOK(d) == DOMAIN d = Tabs /\ \A tab \in Tabs : DOMAIN d[tab] \subseteq Ids

\* No table has a field twice, and only "operators" is edited as a list of
\* operators (OPERATORS).
ASSUME RegistryAssumption ==
  /\ Rank \in [Ids -> Nat] /\ \A i, j \in Ids : Rank[i] = Rank[j] => i = j
  /\ \A c \in Categories : IsTable(TypesFor[c])
  /\ IsSequence(OperatorTypes) /\ IsSequence(Templates)
  /\ \A s \in Schemas : IsTable(FieldsOf[s])
  /\ \A s \in Schemas : \A i \in DOMAIN FieldsOf[s] :
       LET f == FieldsOf[s][i]
       IN  /\ f.kind = "Enum" => IsTable(f.options)
           /\ f.kind = "OperatorList" <=> f.key = "operators"
           /\ \A j \in DOMAIN FieldsOf[s] : FieldsOf[s][j].key = f.key => i = j
  /\ \A list \in Lists : IsSequence(list)
  /\ Names \union {Templates[i].default_id : i \in DOMAIN Templates}
       \subseteq Ids \union {""}
  /\ MaxChanges \in Nat /\ MaxEdits \in Nat /\ MaxOps \in Nat

\* Arrays of a parsed file are lists, and its sections are maps.
ASSUME FilesAssumption ==
  \A file \in Files :
    /\ DocOK(file.sections)
    /\ \A tab \in Tabs :
         /\ IsFiniteSet(DOMAIN file.sections[tab])
         /\ \A id \in DOMAIN file.sections[tab] :
              \A key \in DOMAIN file.sections[tab][id] :
                LET leaf == file.sections[tab][id][key]
                IN  leaf[1] = "arr" => IsSequence(leaf[2])

VARIABLES
  doc,      \* doc[tab][id]: the value of a component or pipeline
  disk,     \* the config file as this editor last read or wrote it
  screen, dirty,
  quit,     \* should_quit
  help,     \* show_help
  touched,  \* history: fields of the component form changed since it opened
  used      \* bound: changes and edits so far

vars == <<doc, disk, screen, dirty, quit, help, touched, used>>

-----------------------------------------------------------------------------
\* FormState.

NewForm(schema, value) ==
  [schema |-> schema, fields |-> OpenFields(FieldsOf[schema], value),
   focused |-> 1]

\* Only operators are written with their type (write_type_key).
to_value(form) ==
  LET written == WrittenFields(FieldsOf[form.schema], form.fields)
  IN  IF form.schema[1] # "Operator" THEN written
      ELSE [k \in DOMAIN written \union {"type"} |->
              IF k = "type" THEN Str(form.schema[2]) ELSE written[k]]

focused_kind(form) == FieldsOf[form.schema][form.focused].kind

OperatorFields(form) ==
  {i \in DOMAIN form.fields : FieldsOf[form.schema][i].kind = "OperatorList"}
operators(form) ==
  IF OperatorFields(form) = {} THEN << >>
  ELSE form.fields[CHOOSE i \in OperatorFields(form) : TRUE][2]
set_operators(form, ops) ==
  [form EXCEPT !.fields = [i \in DOMAIN @ |->
     IF i \in OperatorFields(form) THEN <<"ops", ops>> ELSE @[i]]]

\* One further, or back, in 1..n, wrapping around.
BugAfter(i, n) == i + 1
After(i, n) == IF i = n THEN 1 ELSE i + 1
Before(i, n) == IF i = 1 THEN n ELSE i - 1

advance_focus(form) ==
  [form EXCEPT !.focused = After(@, Len(form.fields))]

\* What keys can make of a widget: text is typed over, a box flipped, an
\* option moved.
Edited(f, state) ==
  CASE state[1] = "text" -> {<<"text", t>> : t \in Texts}
    [] state[1] = "list" -> {<<"list", l>> : l \in Lists}
    [] state[1] = "bool" -> {<<"bool", ~ state[2]>>}
    [] state[1] = "enum" ->
         {<<"enum", After(state[2], Len(f.options))>>,
          <<"enum", Before(state[2], Len(f.options))>>}
    [] state[1] = "ops"  -> {}

-----------------------------------------------------------------------------
\* Screens.

TopLevel(tab, selected) ==
  [kind |-> "TopLevel", tab |-> tab, selected |-> selected]
EditScreen(tab, id, form) ==
  [kind |-> "Edit", tab |-> tab, id |-> id, form |-> form]
OperatorList(s, form, selected) ==
  [kind |-> "OperatorList", tab |-> s.tab, id |-> s.id, form |-> form,
   selected |-> selected]
TemplateParams(key, id, value) ==
  [kind |-> "EditTemplateParams", template |-> key, id |-> id,
   form |-> NewForm(<<"Template", key>>, value)]

\* What the program loads (parse) and what it writes (to_value): other
\* sections are not kept, and every extension is active.
Loaded(file) == file.sections
Saved(d) ==
  [sections |-> d, active |-> DOMAIN d["Extensions"], other |-> {}]

Init ==
  /\ disk \in Files /\ doc = Loaded(disk)
  /\ screen = TopLevel("Receivers", 1)
  /\ dirty = FALSE /\ quit = FALSE /\ help = FALSE
  /\ touched = {} /\ used = [changes |-> 0, edits |-> 0]

At(kind) == ~ quit /\ ~ help /\ screen.kind = kind
AtAny(kinds) == ~ quit /\ ~ help /\ screen.kind \in kinds

\* A key that only leads to another screen.
Goto(s) ==
  /\ screen' = s
  /\ UNCHANGED <<doc, disk, dirty, quit, help, touched, used>>

-----------------------------------------------------------------------------
\* Keys that work alike on several screens.

ListScreens ==
  {"TopLevel", "PickType", "OperatorList", "OperatorPickType",
   "TemplateBrowse"}

ListLength ==
  CASE screen.kind = "TopLevel" -> Cardinality(DOMAIN doc[screen.tab])
    [] screen.kind = "PickType" -> Len(TypesFor[screen.tab])
    [] screen.kind = "OperatorList" -> Len(operators(screen.form))
    [] screen.kind = "OperatorPickType" -> Len(OperatorTypes)
    [] screen.kind = "TemplateBrowse" -> Len(Templates)

\* Down stops at the last item, Up at the first.
Down ==
  /\ AtAny(ListScreens)
  /\ Goto([screen EXCEPT !.selected =
       IF ListLength = 0 THEN 1
       ELSE IF @ < ListLength THEN @ + 1 ELSE ListLength])

Up ==
  /\ AtAny(ListScreens)
  /\ Goto([screen EXCEPT !.selected = IF @ = 1 THEN 1 ELSE @ - 1])

\* `?` where it cannot be meant as text; any key closes the overlay.
screen_accepts_help_hotkey ==
  screen.kind \in ListScreens \union {"ConfirmRemove"}

Help ==
  /\ ~ quit /\ (help \/ screen_accepts_help_hotkey)
  /\ help' = ~ help
  /\ UNCHANGED <<doc, disk, screen, dirty, quit, touched, used>>

\* Where Esc leads from each screen.  ConfirmRemove takes any key but 'y' for
\* a no.
Back ==
  CASE screen.kind \in {"PickType", "NameNew", "Edit", "ConfirmRemove"} ->
         TopLevel(screen.tab, 1)
    [] screen.kind = "OperatorList" ->
         EditScreen(screen.tab, screen.id, advance_focus(screen.form))
    [] screen.kind = "OperatorPickType" -> OperatorList(screen, screen.form, 1)
    [] screen.kind = "OperatorEdit" ->
         OperatorList(screen, screen.form, UnwrapOr(screen.index, 1))
    [] screen.kind \in {"TemplateBrowse", "NameTemplateReceiver",
                        "EditTemplateParams"} -> TopLevel("Receivers", 1)
    [] screen.kind = "ReviewTemplateReceiver" ->
         TemplateParams(screen.template, screen.id, screen.params)

Escape ==
  /\ ~ quit /\ ~ help /\ screen.kind # "TopLevel"
  /\ Goto(Back)

\* q or Esc on the top level.
Quit ==
  /\ At("TopLevel")
  /\ quit' = TRUE
  /\ UNCHANGED <<doc, disk, screen, dirty, help, touched, used>>

-----------------------------------------------------------------------------
\* Forms: the component's, the operator's inside it, a template's parameters.

FormScreens == {"Edit", "OperatorEdit", "EditTemplateParams"}
Form == IF screen.kind = "OperatorEdit" THEN screen.op_form ELSE screen.form
WithForm(form) ==
  IF screen.kind = "OperatorEdit" THEN [screen EXCEPT !.op_form = form]
  ELSE [screen EXCEPT !.form = form]

\* Tab and BackTab.
MoveFocus ==
  /\ AtAny(FormScreens)
  /\ \E i \in {After(Form.focused, Len(Form.fields)),
               Before(Form.focused, Len(Form.fields))} :
       Goto(WithForm([Form EXCEPT !.focused = i]))

EditField ==
  /\ AtAny(FormScreens) /\ used.edits < MaxEdits
  /\ LET i == Form.focused
         f == FieldsOf[Form.schema][i]
     IN  /\ \E state \in Edited(f, Form.fields[i]) :
              screen' = WithForm([Form EXCEPT !.fields[i] = state])
         /\ touched' = IF screen.kind = "Edit" THEN touched \union {f.key}
                       ELSE touched
  /\ used' = [used EXCEPT !.edits = @ + 1]
  /\ UNCHANGED <<doc, disk, dirty, quit, help>>

\* Shows a component, pipeline or template form.
OpenForm(s) ==
  /\ screen' = s
  /\ touched' = {}
  /\ UNCHANGED <<doc, disk, dirty, quit, help, used>>

\* The document changes and the top level comes back.
Change(d, s) ==
  /\ doc' = d
  /\ dirty' = TRUE
  /\ screen' = s
  /\ used' = [used EXCEPT !.changes = @ + 1]
  /\ UNCHANGED <<disk, quit, help, touched>>

With(d, tab, id, value) ==
  [d EXCEPT ![tab] =
     [i \in DOMAIN @ \union {id} |-> IF i = id THEN value ELSE @[i]]]
Without(d, tab, id) ==
  [d EXCEPT ![tab] = [i \in DOMAIN @ \ {id} |-> @[i]]]

\* Enter, but on the operators field.
Submit ==
  /\ At("Edit") /\ focused_kind(screen.form) # "OperatorList"
  /\ Change(With(doc, screen.tab, screen.id, to_value(screen.form)),
            TopLevel(screen.tab, 1))

-----------------------------------------------------------------------------
\* The top level.

\* Tab and BackTab through Receivers, Exporters, Extensions, Pipelines.
NextTab ==
  [Receivers |-> "Exporters", Exporters |-> "Extensions",
   Extensions |-> "Pipelines", Pipelines |-> "Receivers"]

SwitchTab ==
  /\ At("TopLevel")
  /\ \E t \in Tabs :
       /\ NextTab[screen.tab] = t \/ NextTab[t] = screen.tab
       /\ Goto(TopLevel(t, 1))

\* ids_for_tab: the ids in string order, of which one is selected.
Position(tab, id) ==
  Cardinality({j \in DOMAIN doc[tab] : Rank[j] <= Rank[id]})
Selected(id) ==
  id \in DOMAIN doc[screen.tab] /\ Position(screen.tab, id) = screen.selected

\* Bound: a new name, form or removal is begun only while the document may
\* still change.
MayBegin == At("TopLevel") /\ used.changes < MaxChanges

\* An unregistered type is edited as the first of its category.
SchemaFor(tab, id) ==
  IF tab = "Pipelines" THEN <<"Pipelines", "">>
  ELSE IF Named(TypesFor[tab], component_type[id])
  THEN <<tab, component_type[id]>> ELSE <<tab, TypesFor[tab][1].type_name>>

OpenItem ==
  /\ MayBegin
  /\ \E id \in Ids :
       /\ Selected(id)
       /\ OpenForm(EditScreen(screen.tab, id,
            NewForm(SchemaFor(screen.tab, id), doc[screen.tab][id])))

\* `a`.
Add ==
  /\ MayBegin
  /\ Goto(IF screen.tab = "Pipelines"
          THEN [kind |-> "NameNew", tab |-> screen.tab, type_name |-> "",
                input |-> ""]
          ELSE [kind |-> "PickType", tab |-> screen.tab, selected |-> 1])

PickType ==
  /\ At("PickType") /\ screen.selected <= ListLength
  /\ Goto([kind |-> "NameNew", tab |-> screen.tab, input |-> "",
           type_name |-> TypesFor[screen.tab][screen.selected].type_name])

TypeName ==
  /\ AtAny({"NameNew", "NameTemplateReceiver"})
  /\ \E name \in Names : Goto([screen EXCEPT !.input = name])

\* The form is of the type picked, whatever the id says.
NewItem(tab, type_name) ==
  LET schema == <<tab, type_name>>
  IN  NewForm(schema, IF tab = "Pipelines" THEN << >>
                      ELSE minimal_value(FieldsOf[schema]))

\* A name that can be given to a new item.
BugFree(tab, name) == name # ""
Free(tab, name) == name # "" /\ name \notin DOMAIN doc[tab]

NameItem ==
  /\ At("NameNew") /\ Free(screen.tab, screen.input)
  /\ OpenForm(EditScreen(screen.tab, screen.input,
                         NewItem(screen.tab, screen.type_name)))

category_key == [Receivers |-> "receivers", Exporters |-> "exporters"]

\* Whether a pipeline lists a component.
Refers(def, tab, id) ==
  LET leaf == get_path(def, category_key[tab])
  IN  leaf[1] = "arr" /\ \E i \in DOMAIN leaf[2] : leaf[2][i] = Str(id)

pipelines_referencing(tab, id) ==
  IF tab \notin DOMAIN category_key THEN {}
  ELSE {p \in DOMAIN doc["Pipelines"] : Refers(doc["Pipelines"][p], tab, id)}

\* A pipeline without its references to a component.
BugStripped(def, tab, id) ==
  IF get_path(def, "receivers")[1] # "arr" THEN def
  ELSE [def EXCEPT !["receivers"] = <<"arr", Others(@[2], Str(id))>>]
Stripped(def, tab, id) ==
  LET key == category_key[tab]
  IN  IF get_path(def, key)[1] # "arr" THEN def
      ELSE [def EXCEPT ![key] = <<"arr", Others(@[2], Str(id))>>]

strip_from_pipelines(tab, id) ==
  IF tab \notin DOMAIN category_key THEN doc
  ELSE [doc EXCEPT !["Pipelines"] =
          [p \in DOMAIN @ |-> Stripped(@[p], tab, id)]]

\* `d`: at once, unless a pipeline refers to the component.
RemoveItem ==
  /\ MayBegin
  /\ \E id \in Ids :
       /\ Selected(id)
       /\ IF screen.tab = "Pipelines"
             \/ pipelines_referencing(screen.tab, id) = {}
          THEN Change(Without(doc, screen.tab, id), TopLevel(screen.tab, 1))
          ELSE Goto([kind |-> "ConfirmRemove", tab |-> screen.tab, id |-> id])

\* `y`.
ConfirmRemove ==
  /\ At("ConfirmRemove")
  /\ Change(Without(strip_from_pipelines(screen.tab, screen.id),
                    screen.tab, screen.id), TopLevel(screen.tab, 1))

\* `s`: validate, then replace the file (ConfigApply has its steps); either
\* can fail.
BugSave ==
  /\ At("TopLevel")
  /\ disk' = IF Valid(doc) THEN Saved(doc) ELSE disk
  /\ dirty' = FALSE
  /\ UNCHANGED <<doc, screen, quit, help, touched, used>>
Save ==
  /\ At("TopLevel") /\ Valid(doc)
  /\ disk' = Saved(doc)
  /\ dirty' = FALSE
  /\ UNCHANGED <<doc, screen, quit, help, touched, used>>

-----------------------------------------------------------------------------
\* The operators of the component on screen; they reach the document when the
\* component's form is submitted.

DrillDown ==
  /\ At("Edit") /\ focused_kind(screen.form) = "OperatorList"
  /\ Goto(OperatorList(screen, screen.form, 1))

AddOperator ==
  /\ At("OperatorList") /\ Len(operators(screen.form)) < MaxOps
  /\ Goto([screen EXCEPT !.kind = "OperatorPickType", !.selected = 1])

OperatorEdit(schema, value, index) ==
  [kind |-> "OperatorEdit", tab |-> screen.tab, id |-> screen.id,
   form |-> screen.form, index |-> index, op_form |-> NewForm(schema, value)]

PickOperatorType ==
  /\ At("OperatorPickType") /\ screen.selected <= ListLength
  /\ LET type == OperatorTypes[screen.selected]
     IN  Goto(OperatorEdit(<<"Operator", type.type_name>>,
                           minimal_value(type.fields), None))

OperatorTypeOf(op) ==
  IF op[1] = "obj" /\ IsStr(get_path(op[2], "type")) THEN op[2]["type"][2]
  ELSE ""

\* Nothing happens on an operator of an unregistered type.
BugOpenOperator ==
  /\ At("OperatorList") /\ screen.selected <= ListLength
  /\ LET op == operators(screen.form)[screen.selected]
         first == OperatorTypes[1].type_name
     IN  Goto(OperatorEdit(<<"Operator", first>>, op[2],
                           Some(screen.selected)))
OpenOperator ==
  /\ At("OperatorList") /\ screen.selected <= ListLength
  /\ LET op == operators(screen.form)[screen.selected]
     IN  /\ Named(OperatorTypes, OperatorTypeOf(op))
         /\ Goto(OperatorEdit(<<"Operator", OperatorTypeOf(op)>>, op[2],
                              Some(screen.selected)))

\* Back in the list, with other operators.
ChangeOperators(ops, selected) ==
  /\ screen' = OperatorList(screen, set_operators(screen.form, ops), selected)
  /\ touched' = touched \union {"operators"}
  /\ UNCHANGED <<doc, disk, dirty, quit, help, used>>

BugDeleteOperator ==
  /\ At("OperatorList") /\ screen.selected <= ListLength
  /\ ChangeOperators(RemoveAt(operators(screen.form), screen.selected),
                     screen.selected)
DeleteOperator ==
  /\ At("OperatorList") /\ screen.selected <= ListLength
  /\ ChangeOperators(RemoveAt(operators(screen.form), screen.selected), 1)

SubmitOperator ==
  /\ At("OperatorEdit")
  /\ LET ops == operators(screen.form)
         op == <<"obj", to_value(screen.op_form)>>
         i == UnwrapOr(screen.index, 0)
     IN  IF i \in DOMAIN ops
         THEN ChangeOperators([ops EXCEPT ![i] = op], i)
         ELSE ChangeOperators(Append(ops, op), Len(ops) + 1)

-----------------------------------------------------------------------------
\* Source templates: browse, name, fill in, review, insert.

\* `T`.
BrowseTemplates ==
  /\ MayBegin /\ screen.tab = "Receivers"
  /\ Goto([kind |-> "TemplateBrowse", selected |-> 1])

PickTemplate ==
  /\ At("TemplateBrowse") /\ screen.selected <= ListLength
  /\ LET template == Templates[screen.selected]
     IN  Goto([kind |-> "NameTemplateReceiver", template |-> template.key,
               input |-> template.default_id])

NameTemplateReceiver ==
  /\ At("NameTemplateReceiver") /\ Free("Receivers", screen.input)
  /\ OpenForm(TemplateParams(screen.template, screen.input, << >>))

SubmitParams ==
  /\ At("EditTemplateParams")
  /\ LET params == to_value(screen.form)
     IN  Goto([kind |-> "ReviewTemplateReceiver", id |-> screen.id,
               template |-> screen.template, params |-> params,
               receiver |-> Build(screen.template, params)])

InsertReceiver ==
  /\ At("ReviewTemplateReceiver")
  /\ Change(With(doc, "Receivers", screen.id, screen.receiver),
            TopLevel("Receivers", 1))

Next ==
  \/ Down \/ Up \/ Help \/ Escape \/ Quit
  \/ MoveFocus \/ EditField \/ Submit
  \/ SwitchTab \/ OpenItem \/ Add \/ PickType \/ TypeName \/ NameItem
  \/ RemoveItem \/ ConfirmRemove \/ Save
  \/ DrillDown \/ AddOperator \/ PickOperatorType \/ OpenOperator
  \/ DeleteOperator \/ SubmitOperator
  \/ BrowseTemplates \/ PickTemplate \/ NameTemplateReceiver \/ SubmitParams
  \/ InsertReceiver

Spec == Init /\ [][Next]_vars

-----------------------------------------------------------------------------

\* A widget is of its field's kind, and an enum's option exists.
Fits(f, state) ==
  /\ state[1] = WidgetOf(f)
  /\ f.kind = "Enum" => state[2] \in DOMAIN f.options

FormOK(form) ==
  /\ form.schema \in Schemas
  /\ DOMAIN form.fields = DOMAIN FieldsOf[form.schema]
  /\ form.focused \in DOMAIN form.fields
  /\ \A i \in DOMAIN form.fields :
       Fits(FieldsOf[form.schema][i], form.fields[i])

\* What the code looks up without a check is there: screen by screen the type,
\* the template, the focused field, the option of an enum.
ScreenOK ==
  CASE screen.kind = "TopLevel" -> screen.tab \in Tabs
    [] screen.kind = "PickType" -> screen.tab \in Categories
    [] screen.kind = "NameNew" ->
         /\ <<screen.tab, screen.type_name>> \in Schemas
         /\ screen.input \in Ids \union {""}
    [] screen.kind = "Edit" -> screen.id \in Ids /\ FormOK(screen.form)
    [] screen.kind = "ConfirmRemove" ->
         screen.tab \in Categories /\ screen.id \in DOMAIN doc[screen.tab]
    [] screen.kind \in {"OperatorList", "OperatorPickType"} ->
         /\ screen.id \in Ids /\ FormOK(screen.form)
         /\ OperatorFields(screen.form) # {}
    [] screen.kind = "OperatorEdit" ->
         /\ screen.id \in Ids /\ FormOK(screen.form)
         /\ OperatorFields(screen.form) # {}
         /\ FormOK(screen.op_form) /\ screen.op_form.schema[1] = "Operator"
    [] screen.kind = "TemplateBrowse" -> TRUE
    [] screen.kind = "NameTemplateReceiver" ->
         screen.template \in TemplateKeys /\ screen.input \in Ids \union {""}
    [] screen.kind = "EditTemplateParams" ->
         FormOK(screen.form) /\ screen.id \in Ids
           /\ screen.form.schema = <<"Template", screen.template>>
    [] screen.kind = "ReviewTemplateReceiver" ->
         screen.template \in TemplateKeys /\ screen.id \in Ids

\* The code's indexing, `expect`s and map lookups never fail (App::on_key).
TypeOK ==
  /\ DocOK(doc) /\ DocOK(disk.sections)
  /\ ScreenOK
  /\ dirty \in BOOLEAN /\ quit \in BOOLEAN /\ help \in BOOLEAN
  /\ used.changes \in 0..MaxChanges /\ used.edits \in 0..MaxEdits

\* After a removal, a cancel or an operator edit the highlighted row is one of
\* the list, or the first of an empty one (`selected` of the list screens).
SelectionInRange ==
  screen.kind \in ListScreens =>
    screen.selected = 1 \/ screen.selected \in 1..ListLength

\* No "[unsaved changes]" means that this document is what the editor last read
\* from the file or wrote to it (dirty, set by submit, removal and insertion,
\* cleared by a save that succeeded).
DirtyTracksDisk == ~ dirty => doc = Loaded(disk)

\* "call before actually deleting the component so no dangling reference
\* survives" (strip_from_pipelines): whichever way a receiver or exporter is
\* removed, no pipeline lists it afterwards.
LeavesNoReference ==
  \A tab \in DOMAIN category_key :
    \A id \in DOMAIN doc[tab] \ DOMAIN doc'[tab] :
      \A p \in DOMAIN doc'["Pipelines"] :
        ~ Refers(doc'["Pipelines"][p], tab, id)
RemovalLeavesNoReference == [][LeavesNoReference]_vars

\* The name checked when a template receiver is named is still free when it
\* is inserted, some screens later: templates never replace a receiver.
TemplateNeverOverwrites ==
  screen.kind \in {"EditTemplateParams", "ReviewTemplateReceiver"} =>
    screen.id \notin DOMAIN doc["Receivers"]

\* The index an operator form was opened with still names the operator it
\* edits when it is submitted, so `ops[i] = value` replaces that one by one of
\* the same type.
EditedOperatorInPlace ==
  screen.kind = "OperatorEdit" /\ screen.index # None =>
    LET ops == operators(screen.form)
    IN  /\ screen.index[1] \in DOMAIN ops
        /\ OperatorTypeOf(ops[screen.index[1]]) = screen.op_form.schema[2]

\* A leaf that a widget can hold without changing it.
Ordinary(f, leaf) ==
  CASE f.kind = "Bool" -> leaf = <<"bool", leaf[2]>>
    [] f.kind = "OperatorList" -> leaf = <<"arr", leaf[2]>> /\ leaf[2] # << >>
    [] f.kind = "Enum" ->
         \E i \in DOMAIN f.options : leaf = Str(f.options[i])
    [] f.kind = "StringList" ->
         /\ leaf = <<"arr", leaf[2]>> /\ IsTable(leaf[2])
         /\ \A i \in DOMAIN leaf[2] :
              LET text == leaf[2][i][2]
              IN  /\ leaf[2][i] = Str(text) /\ text # ""
                  /\ Pieces(text) = <<text>>
    [] OTHER -> leaf = Str(leaf[2]) /\ leaf # Str("")

\* Whatever is opened, looked at and submitted, also through the operator
\* screens: a registered field that the user left alone, and that its widget
\* can show, is written back as it was (field_edit_state_from, to_value).
KeepsKnownFields ==
  Submit /\ screen.id \in DOMAIN doc[screen.tab] =>
    LET fields == FieldsOf[screen.form.schema]
        old == doc[screen.tab][screen.id]
        new == doc'[screen.tab][screen.id]
    IN  \A i \in DOMAIN fields :
          LET k == fields[i].key
          IN  k \in DOMAIN old \ touched /\ Ordinary(fields[i], old[k])
                => k \in DOMAIN new /\ new[k] = old[k]
KnownFieldsSurvive == [][KeepsKnownFields]_vars

\* "unknown/not-yet-registered fields survive a load -> edit -> save round
\* trip untouched (only fields the user actually edits change)" (EditorDoc).
OnlyEditedFieldsChange ==
  [][Submit /\ screen.id \in DOMAIN doc[screen.tab] =>
       LET old == doc[screen.tab][screen.id]
           new == doc'[screen.tab][screen.id]
       IN  \A k \in (DOMAIN old \union DOMAIN new) \ touched :
             k \in DOMAIN old \intersect DOMAIN new /\ new[k] = old[k]]_vars

\* A value opened in a form and submitted as it is keeps what it had.
Reopens(schema, value) ==
  LET again == to_value(NewForm(schema, value))
  IN  \A k \in DOMAIN value : k \in DOMAIN again /\ again[k] = value[k]

\* "indistinguishable from a receiver built by hand once inserted"
\* (templates.rs): the receiver form of the template's type can show every
\* field the template writes, and the operator forms every operator.
TemplateReceiverReopens ==
  screen.kind = "ReviewTemplateReceiver" =>
    LET type == TemplateOf(screen.template).receiver_type
        ops == screen.receiver["operators"][2]
    IN  /\ Named(TypesFor["Receivers"], type)
        /\ Reopens(<<"Receivers", type>>, screen.receiver)
        /\ \A i \in DOMAIN ops :
             /\ Named(OperatorTypes, OperatorTypeOf(ops[i]))
             /\ Reopens(<<"Operator", OperatorTypeOf(ops[i])>>, ops[i][2])

\* Esc on the review "can return to EditTemplateParams pre-filled with what
\* was already typed" (ReviewTemplateReceiver): from there Enter builds the
\* same receiver, also when a parameter was left blank and the form shows its
\* default while the build function used its own fallback.
ReviewCanGoBack ==
  screen.kind = "ReviewTemplateReceiver" =>
    LET form == TemplateParams(screen.template, screen.id, screen.params).form
    IN  Build(screen.template, to_value(form)) = screen.receiver
=============================================================================
