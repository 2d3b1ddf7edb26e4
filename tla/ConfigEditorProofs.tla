------------------------- MODULE ConfigEditorProofs -------------------------
(***************************************************************************)
(* The editor, for any registry, files and validator: what it indexes and  *)
(* looks up without a check is there, the selection stays in its list, an  *)
(* operator is put back where it came from, what the title bar and the     *)
(* template screens promise of the document holds, a field that is left    *)
(* alone survives its form, and a removed component leaves no reference.   *)
(* For the tables of SchemaRegistry and SourceTemplates: what a template   *)
(* builds opens in the forms, and its review leads back to what it shows.  *)
(***************************************************************************)
EXTENDS ConfigEditor, SchemaRegistry, SourceTemplates, SequenceTheorems,
        FiniteSetTheorems, WellFoundedInduction, TLAPS

-----------------------------------------------------------------------------
(* The document and the file.                                              *)

\* A step that leaves the file as it is and the document too, or says that
\* the document has changed.
LEMMA DirtyStep ==
  ASSUME DirtyTracksDisk, [Next]_vars
  PROVE  DirtyTracksDisk'
<1>1. CASE UNCHANGED <<doc, disk, dirty>>
  BY <1>1 DEF DirtyTracksDisk
<1>2. CASE dirty' = TRUE
  BY <1>2 DEF DirtyTracksDisk
<1>3. CASE Save
  BY <1>3 DEF Save, DirtyTracksDisk, Loaded, Saved
<1>4. CASE Down \/ Up \/ Help \/ Escape \/ Quit \/ MoveFocus \/ EditField
  BY <1>1, <1>4 DEF Down, Up, Help, Escape, Quit, MoveFocus, EditField, Goto
<1>5. CASE Submit \/ ConfirmRemove \/ InsertReceiver
  BY <1>2, <1>5 DEF Submit, ConfirmRemove, InsertReceiver, Change
<1>6. CASE SwitchTab \/ OpenItem \/ Add \/ PickType \/ TypeName \/ NameItem
  BY <1>1, <1>6
  DEF SwitchTab, OpenItem, Add, PickType, TypeName, NameItem, Goto, OpenForm
<1>7. CASE RemoveItem
  BY <1>1, <1>2, <1>7 DEF RemoveItem, Change, Goto
<1>8. CASE DrillDown \/ AddOperator \/ PickOperatorType \/ OpenOperator
             \/ DeleteOperator \/ SubmitOperator
  BY <1>1, <1>8
  DEF DrillDown, AddOperator, PickOperatorType, OpenOperator, DeleteOperator,
      SubmitOperator, ChangeOperators, Goto
<1>9. CASE BrowseTemplates \/ PickTemplate \/ NameTemplateReceiver
             \/ SubmitParams \/ UNCHANGED vars
  BY <1>1, <1>9
  DEF BrowseTemplates, PickTemplate, NameTemplateReceiver, SubmitParams, Goto,
      OpenForm, vars
<1> QED
  BY <1>3, <1>4, <1>5, <1>6, <1>7, <1>8, <1>9 DEF Next

\* No "[unsaved changes]" means that this document is what the editor last read
\* from the file or wrote to it: every key that changes it sets dirty, and only a save that succeeded, and wrote
\* what is on screen, clears it.
THEOREM DirtyCorrect == Spec => []DirtyTracksDisk
<1>1. Init => DirtyTracksDisk
  BY DEF Init, DirtyTracksDisk
<1>2. DirtyTracksDisk /\ [Next]_vars => DirtyTracksDisk'
  BY DirtyStep
<1> QED
  BY <1>1, <1>2, PTL DEF Spec

-----------------------------------------------------------------------------
(* Sequences and forms.                                                    *)

LEMMA SequenceFacts ==
  ASSUME NEW s, IsSequence(s)
  PROVE  /\ Len(s) \in Nat /\ DOMAIN s = 1..Len(s)
         /\ s = [i \in 1..Len(s) |-> s[i]]
         /\ s # << >> => 1 \in DOMAIN s /\ Len(s) \in DOMAIN s
BY DEF IsSequence, ToSet

LEMMA ListedIsSequence ==
  ASSUME NEW n \in Nat, NEW s, s = [i \in 1..n |-> s[i]]
  PROVE  IsSequence(s) /\ Len(s) = n
<1> DEFINE S == {s[i] : i \in DOMAIN s}
<1>1. s \in [1..n -> S]
  OBVIOUS
<1>2. s \in Seq(S)
  BY <1>1
<1> QED
  BY <1>2 DEF IsSequence, ToSet

LEMMA Registry ==
  /\ \A c \in Categories : IsTable(TypesFor[c])
  /\ IsSequence(OperatorTypes) /\ IsSequence(Templates)
  /\ \A s \in Schemas : IsTable(FieldsOf[s])
  /\ \A s \in Schemas : \A i \in DOMAIN FieldsOf[s] :
       FieldsOf[s][i].kind = "Enum" => IsTable(FieldsOf[s][i].options)
  /\ \A s \in Schemas : \A i \in DOMAIN FieldsOf[s] :
       FieldsOf[s][i].kind = "OperatorList"
         <=> FieldsOf[s][i].key = "operators"
  /\ \A s \in Schemas : \A i, j \in DOMAIN FieldsOf[s] :
       FieldsOf[s][j].key = FieldsOf[s][i].key => i = j
  /\ \A list \in Lists : IsSequence(list)
  /\ MaxChanges \in Nat /\ MaxEdits \in Nat
BY RegistryAssumption, Zenon

\* One further, or back, stays among 1..n.
LEMMA Around ==
  ASSUME NEW n \in Nat, NEW i \in 1..n
  PROVE  After(i, n) \in 1..n /\ Before(i, n) \in 1..n
BY DEF After, Before

\* A form of a registered schema; all of it is in its three fields.
IsForm(form) ==
  /\ form = [schema |-> form.schema, fields |-> form.fields,
             focused |-> form.focused]
  /\ IsSequence(form.fields)
  /\ FormOK(form)

\* The widget a field opens in fits it, whatever the value.
LEMMA StateFits ==
  ASSUME NEW f, NEW value, f.kind = "Enum" => IsTable(f.options)
  PROVE  Fits(f, field_edit_state_from(f, value))
<1> DEFINE leaf == get_path(value, f.key)
<1>1. CASE f.kind = "Enum"
  <2>1. field_edit_state_from(f, value) = EnumState(f, leaf)
    BY <1>1 DEF field_edit_state_from
  <2>2. 1 \in DOMAIN f.options
    BY <1>1, SequenceFacts DEF IsTable
  <2>3. \A s : OptionIndex(f.options, s) \in DOMAIN f.options
    BY <2>2 DEF OptionIndex
  <2>4. PICK s : EnumState(f, leaf) = <<"enum", OptionIndex(f.options, s)>>
    BY Zenon DEF EnumState
  <2> QED
    BY <1>1, <2>1, <2>3, <2>4 DEF Fits, WidgetOf
<1>2. CASE f.kind = "Bool"
  <2>1. field_edit_state_from(f, value) = BoolState(f, leaf)
    BY <1>2 DEF field_edit_state_from
  <2>2. PICK b : BoolState(f, leaf) = <<"bool", b>>
    BY Zenon DEF BoolState
  <2> QED
    BY <1>2, <2>1, <2>2 DEF Fits, WidgetOf
<1>3. CASE f.kind = "StringList"
  <2>1. field_edit_state_from(f, value) = ListState(f, leaf)
    BY <1>3 DEF field_edit_state_from
  <2>2. PICK l : ListState(f, leaf) = <<"list", l>>
    BY Zenon DEF ListState
  <2> QED
    BY <1>3, <2>1, <2>2 DEF Fits, WidgetOf
<1>4. CASE f.kind = "OperatorList"
  <2>1. field_edit_state_from(f, value) = OpsState(f, leaf)
    BY <1>4 DEF field_edit_state_from
  <2>2. PICK l : OpsState(f, leaf) = <<"ops", l>>
    BY Zenon DEF OpsState
  <2> QED
    BY <1>4, <2>1, <2>2 DEF Fits, WidgetOf
<1>5. CASE f.kind \notin {"Enum", "Bool", "StringList", "OperatorList"}
  <2>1. field_edit_state_from(f, value) = TextState(f, leaf)
    BY <1>5 DEF field_edit_state_from
  <2>2. PICK t : TextState(f, leaf) = <<"text", t>>
    BY Zenon DEF TextState
  <2> QED
    BY <1>5, <2>1, <2>2 DEF Fits, WidgetOf
<1> QED
  BY <1>1, <1>2, <1>3, <1>4, <1>5

LEMMA NewFormOK ==
  ASSUME NEW schema \in Schemas, NEW value
  PROVE  IsForm(NewForm(schema, value)) /\ NewForm(schema, value).schema = schema
<1> DEFINE table == FieldsOf[schema]
           fields == OpenFields(table, value)
           form == NewForm(schema, value)
<1>1. /\ Len(table) \in Nat /\ DOMAIN table = 1..Len(table)
      /\ 1 \in DOMAIN table
  BY Registry, SequenceFacts DEF IsTable
<1>2. fields = [i \in 1..Len(table) |-> fields[i]]
  BY <1>1, Zenon DEF OpenFields
<1>3. IsSequence(fields)
  BY <1>1, <1>2, ListedIsSequence
<1>4. \A i \in DOMAIN table : Fits(table[i], fields[i])
  <2> TAKE i \in DOMAIN table
  <2>1. table[i].kind = "Enum" => IsTable(table[i].options)
    BY Registry
  <2>2. fields[i] = field_edit_state_from(table[i], value)
    BY Zenon DEF OpenFields
  <2> QED
    BY <2>1, <2>2, StateFits, Zenon
<1>5. DOMAIN fields = DOMAIN table
  BY Zenon DEF OpenFields
<1>6. /\ form = [schema |-> schema, fields |-> fields, focused |-> 1]
      /\ form.schema = schema /\ form.fields = fields /\ form.focused = 1
  BY DEF NewForm
<1> HIDE DEF form, fields
<1>7. FormOK(form)
  BY <1>1, <1>4, <1>5, <1>6 DEF FormOK
<1>8. IsForm(form)
  BY <1>3, <1>6, <1>7 DEF IsForm
<1> QED
  BY <1>6, <1>8 DEF form

LEMMA Refocused ==
  ASSUME NEW form, IsForm(form), NEW i \in DOMAIN form.fields
  PROVE  LET new == [form EXCEPT !.focused = i]
         IN  /\ IsForm(new) /\ new.schema = form.schema
             /\ new.fields = form.fields
<1> DEFINE new == [form EXCEPT !.focused = i]
<1>1. /\ new = [schema |-> form.schema, fields |-> form.fields, focused |-> i]
      /\ new.schema = form.schema /\ new.fields = form.fields
      /\ new.focused = i
  BY DEF IsForm
<1> HIDE DEF new
<1>2. IsForm(new)
  BY <1>1 DEF IsForm, FormOK
<1> QED
  BY <1>1, <1>2 DEF new

\* A form with other widget states that fit its fields.
LEMMA Refilled ==
  ASSUME NEW form, IsForm(form), NEW states,
         states = [i \in DOMAIN form.fields |-> states[i]],
         \A i \in DOMAIN form.fields :
           Fits(FieldsOf[form.schema][i], states[i])
  PROVE  LET new == [form EXCEPT !.fields = states]
         IN  /\ IsForm(new) /\ new.schema = form.schema
             /\ new.fields = states
<1> DEFINE new == [form EXCEPT !.fields = states]
<1>1. /\ new = [schema |-> form.schema, fields |-> states,
                focused |-> form.focused]
      /\ new.schema = form.schema /\ new.fields = states
      /\ new.focused = form.focused
  BY DEF IsForm
<1>2. DOMAIN states = DOMAIN form.fields
  OBVIOUS
<1>3. IsSequence(states)
  <2>1. Len(form.fields) \in Nat /\ DOMAIN form.fields = 1..Len(form.fields)
    BY SequenceFacts DEF IsForm
  <2> QED
    BY <2>1, ListedIsSequence
<1> HIDE DEF new
<1>4. FormOK(new)
  BY <1>1, <1>2 DEF IsForm, FormOK
<1>5. IsForm(new)
  BY <1>1, <1>3, <1>4 DEF IsForm
<1> QED
  BY <1>1, <1>5 DEF new

\* What a key makes of a widget fits the field as well.
LEMMA EditedFits ==
  ASSUME NEW f, NEW state, Fits(f, state), f.kind = "Enum" => IsTable(f.options),
         NEW new \in Edited(f, state)
  PROVE  Fits(f, new)
<1>1. CASE state[1] = "enum"
  <2>1. f.kind = "Enum" /\ state[2] \in DOMAIN f.options
    BY <1>1 DEF Fits, WidgetOf
  <2> DEFINE n == Len(f.options)
  <2>2. n \in Nat /\ DOMAIN f.options = 1..n
    BY <2>1, SequenceFacts DEF IsTable
  <2>3. new \in {<<"enum", After(state[2], n)>>, <<"enum", Before(state[2], n)>>}
    BY <1>1 DEF Edited
  <2> QED
    BY <2>1, <2>2, <2>3, Around DEF Fits, WidgetOf
<1>2. CASE state[1] = "text"
  BY <1>2 DEF Edited, Fits, WidgetOf
<1>3. CASE state[1] = "list"
  BY <1>3 DEF Edited, Fits, WidgetOf
<1>4. CASE state[1] = "bool"
  <2>1. PICK b : new = <<"bool", b>>
    BY <1>4, Zenon DEF Edited
  <2> QED
    BY <1>4, <2>1 DEF Fits, WidgetOf
<1>5. CASE state[1] = "ops"
  BY <1>5 DEF Edited
<1> QED
  BY <1>1, <1>2, <1>3, <1>4, <1>5 DEF Fits, WidgetOf

LEMMA EditedForm ==
  ASSUME NEW form, IsForm(form),
         NEW state \in Edited(FieldsOf[form.schema][form.focused],
                              form.fields[form.focused])
  PROVE  LET new == [form EXCEPT !.fields[form.focused] = state]
         IN  /\ IsForm(new) /\ new.schema = form.schema
             /\ new.fields = [form.fields EXCEPT ![form.focused] = state]
<1> DEFINE i == form.focused
           states == [form.fields EXCEPT ![i] = state]
<1>1. i \in DOMAIN form.fields /\ DOMAIN form.fields = DOMAIN FieldsOf[form.schema]
      /\ form.schema \in Schemas
  BY DEF IsForm, FormOK
<1>2. Fits(FieldsOf[form.schema][i], state)
  <2>1. FieldsOf[form.schema][i].kind = "Enum"
          => IsTable(FieldsOf[form.schema][i].options)
    BY <1>1, Registry
  <2>2. Fits(FieldsOf[form.schema][i], form.fields[i])
    BY <1>1 DEF IsForm, FormOK
  <2> QED
    BY <2>1, <2>2, EditedFits
<1>3. /\ states = [j \in DOMAIN form.fields |-> states[j]]
      /\ \A j \in DOMAIN form.fields :
           states[j] = IF j = i THEN state ELSE form.fields[j]
  <2>1. form.fields = [j \in DOMAIN form.fields |-> form.fields[j]]
    BY SequenceFacts DEF IsForm
  <2> QED
    BY <1>1, <2>1
<1>4. \A j \in DOMAIN form.fields : Fits(FieldsOf[form.schema][j], states[j])
  BY <1>2, <1>3 DEF IsForm, FormOK
<1>5. [form EXCEPT !.fields[i] = state] = [form EXCEPT !.fields = states]
  BY DEF IsForm
<1> HIDE DEF i, states
<1>6. LET new == [form EXCEPT !.fields = states]
      IN  IsForm(new) /\ new.schema = form.schema /\ new.fields = states
  BY <1>3, <1>4, Refilled
<1> QED
  BY <1>5, <1>6 DEF i, states

LEMMA SetOperators ==
  ASSUME NEW form, IsForm(form), NEW ops
  PROVE  LET new == set_operators(form, ops)
         IN  /\ IsForm(new) /\ new.schema = form.schema
             /\ OperatorFields(new) = OperatorFields(form)
             /\ \A i \in OperatorFields(form) : new.fields[i] = <<"ops", ops>>
<1> DEFINE states == [i \in DOMAIN form.fields |->
                        IF i \in OperatorFields(form) THEN <<"ops", ops>>
                        ELSE form.fields[i]]
           new == set_operators(form, ops)
<1>1. \A i \in DOMAIN form.fields : Fits(FieldsOf[form.schema][i], states[i])
  <2> TAKE i \in DOMAIN form.fields
  <2>1. CASE i \in OperatorFields(form)
    BY <2>1 DEF OperatorFields, Fits, WidgetOf
  <2>2. CASE i \notin OperatorFields(form)
    BY <2>2 DEF IsForm, FormOK
  <2> QED
    BY <2>1, <2>2
<1>2. new = [form EXCEPT !.fields = states]
  BY DEF set_operators, IsForm
<1>3. states = [i \in DOMAIN form.fields |-> states[i]]
      /\ DOMAIN states = DOMAIN form.fields
  OBVIOUS
<1>4. \A i \in OperatorFields(form) : states[i] = <<"ops", ops>>
  BY DEF OperatorFields
<1> HIDE DEF states, new
<1>5. IsForm(new) /\ new.schema = form.schema /\ new.fields = states
  BY <1>1, <1>2, <1>3, Refilled
<1>6. OperatorFields(new) = OperatorFields(form)
  BY <1>3, <1>5 DEF OperatorFields
<1> QED
  BY <1>4, <1>5, <1>6 DEF new

LEMMA Advanced ==
  ASSUME NEW form, IsForm(form)
  PROVE  IsForm(advance_focus(form)) /\ advance_focus(form).schema = form.schema
         /\ advance_focus(form).fields = form.fields
<1> DEFINE i == After(form.focused, Len(form.fields))
<1>1. /\ Len(form.fields) \in Nat /\ DOMAIN form.fields = 1..Len(form.fields)
      /\ form.focused \in DOMAIN form.fields
  BY SequenceFacts DEF IsForm, FormOK
<1>2. i \in DOMAIN form.fields
  BY <1>1, Around
<1>3. advance_focus(form) = [form EXCEPT !.focused = i]
  BY DEF advance_focus, IsForm
<1> QED
  BY <1>2, <1>3, Refocused

-----------------------------------------------------------------------------
(* The screens.  Each is all of what its constructor gives it; ScreenOK says *)
(* which of that the code looks up.                                          *)

\* What can stand in the input of a name, and what that gives.
Inputs == Ids \union {""}

LEMMA InputFacts ==
  /\ "" \in Inputs /\ Ids \subseteq Inputs
  /\ \A tab, name : name \in Inputs /\ Free(tab, name) => name \in Ids
BY Zenon DEF Inputs, Free

Kinds ==
  ListScreens \union FormScreens
    \union {"NameNew", "ConfirmRemove", "NameTemplateReceiver",
            "ReviewTemplateReceiver"}

\* The component or pipeline under edit, also behind the operator screens.
OfComponent(s) ==
  /\ s.tab \in Tabs /\ s.id \in Ids
  /\ IsForm(s.form) /\ s.form.schema[1] = s.tab

ComponentShape(s) ==
  /\ s.kind = "Edit" => s = EditScreen(s.tab, s.id, s.form) /\ OfComponent(s)
  /\ s.kind \in {"OperatorList", "OperatorPickType"} =>
       /\ s = [OperatorList(s, s.form, s.selected) EXCEPT !.kind = s.kind]
       /\ OfComponent(s) /\ OperatorFields(s.form) # {}
  /\ s.kind = "OperatorEdit" =>
       /\ s = [kind |-> "OperatorEdit", tab |-> s.tab, id |-> s.id,
               form |-> s.form, index |-> s.index, op_form |-> s.op_form]
       /\ OfComponent(s) /\ OperatorFields(s.form) # {}
       /\ IsForm(s.op_form) /\ s.op_form.schema[1] = "Operator"

TemplateShape(s) ==
  /\ s.kind = "TemplateBrowse" =>
       s = [kind |-> "TemplateBrowse", selected |-> s.selected]
  /\ s.kind = "NameTemplateReceiver" =>
       /\ s = [kind |-> "NameTemplateReceiver", template |-> s.template,
               input |-> s.input]
       /\ s.template \in TemplateKeys /\ s.input \in Inputs
  /\ s.kind = "EditTemplateParams" =>
       /\ s = [kind |-> "EditTemplateParams", template |-> s.template,
               id |-> s.id, form |-> s.form]
       /\ s.id \in Ids /\ IsForm(s.form) /\ s.template \in TemplateKeys
       /\ s.form.schema = <<"Template", s.template>>
  /\ s.kind = "ReviewTemplateReceiver" =>
       /\ s = [kind |-> "ReviewTemplateReceiver", id |-> s.id,
               template |-> s.template, params |-> s.params,
               receiver |-> s.receiver]
       /\ s.template \in TemplateKeys /\ s.id \in Ids

ItemShape(s) ==
  /\ s.kind = "TopLevel" => s = TopLevel(s.tab, s.selected) /\ s.tab \in Tabs
  /\ s.kind = "PickType" =>
       /\ s = [kind |-> "PickType", tab |-> s.tab, selected |-> s.selected]
       /\ s.tab \in Categories
  /\ s.kind = "NameNew" =>
       /\ s = [kind |-> "NameNew", tab |-> s.tab, type_name |-> s.type_name,
               input |-> s.input]
       /\ s.tab \in Tabs /\ <<s.tab, s.type_name>> \in Schemas
       /\ s.input \in Inputs
  /\ s.kind = "ConfirmRemove" =>
       /\ s = [kind |-> "ConfirmRemove", tab |-> s.tab, id |-> s.id]
       /\ s.tab \in Categories

\* The selection of a picker, whose list never changes, counts from 1.
Pickers == {"PickType", "OperatorPickType", "TemplateBrowse"}
Counted(s) == s.kind \in Pickers => s.selected \in Nat \ {0}

Shape(s) ==
  /\ s.kind \in Kinds /\ Counted(s)
  /\ ItemShape(s) /\ ComponentShape(s) /\ TemplateShape(s)

\* What can be removed is there, and there is one change left to make of all
\* that was begun.
Begun ==
  /\ screen.kind = "ConfirmRemove" => screen.id \in DOMAIN doc[screen.tab]
  /\ screen.kind # "TopLevel" => used.changes < MaxChanges

Typed ==
  /\ DocOK(doc) /\ DocOK(disk.sections)
  /\ Shape(screen) /\ Begun
  /\ dirty \in BOOLEAN /\ quit \in BOOLEAN /\ help \in BOOLEAN
  /\ used.changes \in 0..MaxChanges /\ used.edits \in 0..MaxEdits
  /\ used = [changes |-> used.changes, edits |-> used.edits]

LEMMA TopShape ==
  ASSUME NEW tab \in Tabs, NEW n
  PROVE  Shape(TopLevel(tab, n))
BY DEF Shape, Kinds, Counted, ItemShape, ComponentShape, TemplateShape,
       TopLevel, Pickers, ListScreens, FormScreens

LEMMA PickerShape ==
  ASSUME NEW tab \in Categories, NEW n \in Nat \ {0}
  PROVE  Shape([kind |-> "PickType", tab |-> tab, selected |-> n])
BY DEF Shape, Kinds, Counted, ItemShape, ComponentShape, TemplateShape,
       Pickers, ListScreens, FormScreens

LEMMA NameShape ==
  ASSUME NEW tab \in Tabs, NEW type_name, NEW input \in Inputs,
         <<tab, type_name>> \in Schemas
  PROVE  Shape([kind |-> "NameNew", tab |-> tab, type_name |-> type_name,
                input |-> input])
<1> DEFINE s == [kind |-> "NameNew", tab |-> tab, type_name |-> type_name,
                 input |-> input]
<1>1. /\ s.kind = "NameNew" /\ s.tab = tab /\ s.type_name = type_name
      /\ s.input = input
      /\ s = [kind |-> "NameNew", tab |-> s.tab, type_name |-> s.type_name,
              input |-> s.input]
  OBVIOUS
<1> HIDE DEF s
<1>2. Shape(s)
  BY <1>1
  DEF Shape, Kinds, Counted, ItemShape, ComponentShape, TemplateShape,
      Pickers, ListScreens, FormScreens
<1> QED
  BY <1>2 DEF s

LEMMA RemovalShape ==
  ASSUME NEW tab \in Categories, NEW id
  PROVE  Shape([kind |-> "ConfirmRemove", tab |-> tab, id |-> id])
BY DEF Shape, Kinds, Counted, ItemShape, ComponentShape, TemplateShape,
       Pickers, ListScreens, FormScreens

LEMMA EditShape ==
  ASSUME NEW tab \in Tabs, NEW id \in Ids, NEW form, IsForm(form),
         form.schema[1] = tab
  PROVE  Shape(EditScreen(tab, id, form))
<1> DEFINE s == EditScreen(tab, id, form)
<1>1. /\ s.kind = "Edit" /\ s.tab = tab /\ s.id = id /\ s.form = form
      /\ s = EditScreen(s.tab, s.id, s.form)
  BY DEF EditScreen
<1> HIDE DEF s
<1>2. Shape(s)
  BY <1>1 DEF Shape, Kinds, Counted, ItemShape, ComponentShape, TemplateShape,
              OfComponent, Pickers, ListScreens, FormScreens
<1> QED
  BY <1>2 DEF s

LEMMA OperatorsShape ==
  ASSUME NEW s, NEW form, NEW n,
         NEW kind \in {"OperatorList", "OperatorPickType"},
         kind = "OperatorPickType" => n \in Nat \ {0},
         s.tab \in Tabs, s.id \in Ids, IsForm(form),
         form.schema[1] = s.tab, OperatorFields(form) # {}
  PROVE  Shape([OperatorList(s, form, n) EXCEPT !.kind = kind])
<1> DEFINE t == [OperatorList(s, form, n) EXCEPT !.kind = kind]
<1>1. /\ t.kind = kind /\ t.tab = s.tab /\ t.id = s.id /\ t.form = form
      /\ t.selected = n
      /\ t = [OperatorList(t, t.form, t.selected) EXCEPT !.kind = t.kind]
  BY DEF OperatorList
<1> HIDE DEF t
<1>2. Shape(t)
  BY <1>1 DEF Shape, Kinds, Counted, ItemShape, ComponentShape, TemplateShape,
              OfComponent, Pickers, ListScreens, FormScreens
<1> QED
  BY <1>2 DEF t

LEMMA OperatorListShape ==
  ASSUME NEW s, NEW form, NEW n,
         s.tab \in Tabs, s.id \in Ids, IsForm(form),
         form.schema[1] = s.tab, OperatorFields(form) # {}
  PROVE  Shape(OperatorList(s, form, n))
<1>1. OperatorList(s, form, n)
        = [OperatorList(s, form, n) EXCEPT !.kind = "OperatorList"]
  BY DEF OperatorList
<1>2. Shape([OperatorList(s, form, n) EXCEPT !.kind = "OperatorList"])
  BY OperatorsShape
<1> QED
  BY <1>1, <1>2

LEMMA OperatorEditShape ==
  ASSUME NEW s, NEW tab \in Tabs, NEW id \in Ids, NEW form, NEW index, NEW op_form,
         IsForm(form), form.schema[1] = tab, OperatorFields(form) # {},
         IsForm(op_form), op_form.schema[1] = "Operator",
         s = [kind |-> "OperatorEdit", tab |-> tab, id |-> id,
              form |-> form, index |-> index, op_form |-> op_form]
  PROVE  Shape(s)
<1>1. /\ s.kind = "OperatorEdit" /\ s.tab = tab /\ s.id = id /\ s.form = form
      /\ s.index = index /\ s.op_form = op_form
  OBVIOUS
<1>2. s = [kind |-> "OperatorEdit", tab |-> s.tab, id |-> s.id,
           form |-> s.form, index |-> s.index, op_form |-> s.op_form]
  BY <1>1
<1> QED
  BY <1>1, <1>2
  DEF Shape, Kinds, Counted, ItemShape, ComponentShape, TemplateShape,
      OfComponent, Pickers, ListScreens, FormScreens

LEMMA BrowseShape ==
  ASSUME NEW n \in Nat \ {0}
  PROVE  Shape([kind |-> "TemplateBrowse", selected |-> n])
BY DEF Shape, Kinds, Counted, ItemShape, ComponentShape, TemplateShape,
       Pickers, ListScreens, FormScreens

LEMMA TemplateNameShape ==
  ASSUME NEW key \in TemplateKeys, NEW input \in Inputs
  PROVE  Shape([kind |-> "NameTemplateReceiver", template |-> key,
                input |-> input])
BY DEF Shape, Kinds, Counted, ItemShape, ComponentShape, TemplateShape,
       Pickers, ListScreens, FormScreens

LEMMA TemplateFormShape ==
  ASSUME NEW key \in TemplateKeys, NEW id \in Ids, NEW form, IsForm(form),
         form.schema = <<"Template", key>>
  PROVE  Shape([kind |-> "EditTemplateParams", template |-> key,
                id |-> id, form |-> form])
<1> DEFINE s == [kind |-> "EditTemplateParams", template |-> key, id |-> id,
                 form |-> form]
<1>1. /\ s.kind = "EditTemplateParams" /\ s.template = key /\ s.id = id
      /\ s.form = form
      /\ s = [kind |-> "EditTemplateParams", template |-> s.template,
              id |-> s.id, form |-> s.form]
  OBVIOUS
<1> HIDE DEF s
<1>2. Shape(s)
  BY <1>1
  DEF Shape, Kinds, Counted, ItemShape, ComponentShape, TemplateShape,
      Pickers, ListScreens, FormScreens
<1> QED
  BY <1>2 DEF s

LEMMA ReviewShape ==
  ASSUME NEW key \in TemplateKeys, NEW id \in Ids, NEW params, NEW receiver
  PROVE  Shape([kind |-> "ReviewTemplateReceiver", id |-> id,
                template |-> key, params |-> params, receiver |-> receiver])
BY DEF Shape, Kinds, Counted, ItemShape, ComponentShape, TemplateShape,
       Pickers, ListScreens, FormScreens

LEMMA Selecting ==
  ASSUME NEW s, Shape(s), s.kind \in ListScreens, NEW n,
         s.kind \in Pickers => n \in Nat \ {0}
  PROVE  Shape([s EXCEPT !.selected = n]) /\ [s EXCEPT !.selected = n].kind = s.kind
<1>1. CASE s.kind = "TopLevel"
  <2>1. s = TopLevel(s.tab, s.selected) /\ s.tab \in Tabs
    BY <1>1 DEF Shape, ItemShape
  <2>2. [s EXCEPT !.selected = n] = TopLevel(s.tab, n)
    BY <2>1 DEF TopLevel
  <2> QED
    BY <1>1, <2>1, <2>2, TopShape DEF TopLevel
<1>2. CASE s.kind = "PickType"
  <2>1. s = [kind |-> "PickType", tab |-> s.tab, selected |-> s.selected]
        /\ s.tab \in Categories /\ n \in Nat \ {0}
    BY <1>2 DEF Shape, ItemShape, Pickers
  <2>2. [s EXCEPT !.selected = n]
          = [kind |-> "PickType", tab |-> s.tab, selected |-> n]
    BY <2>1
  <2> QED
    BY <1>2, <2>1, <2>2, PickerShape
<1>3. CASE s.kind \in {"OperatorList", "OperatorPickType"}
  <2>1. s = [OperatorList(s, s.form, s.selected) EXCEPT !.kind = s.kind]
        /\ OfComponent(s) /\ OperatorFields(s.form) # {}
    BY <1>3 DEF Shape, ComponentShape
  <2>2. [s EXCEPT !.selected = n]
          = [OperatorList(s, s.form, n) EXCEPT !.kind = s.kind]
    BY <2>1 DEF OperatorList
  <2>3. Shape([OperatorList(s, s.form, n) EXCEPT !.kind = s.kind])
    BY <1>3, <2>1, OperatorsShape DEF OfComponent, Pickers
  <2> QED
    BY <2>2, <2>3 DEF OperatorList
<1>4. CASE s.kind = "TemplateBrowse"
  <2>1. s = [kind |-> "TemplateBrowse", selected |-> s.selected]
        /\ n \in Nat \ {0}
    BY <1>4 DEF Shape, TemplateShape, Pickers
  <2>2. [s EXCEPT !.selected = n]
          = [kind |-> "TemplateBrowse", selected |-> n]
    BY <2>1
  <2> QED
    BY <1>4, <2>1, <2>2, BrowseShape
<1> QED
  BY <1>1, <1>2, <1>3, <1>4 DEF ListScreens

LEMMA FormOnScreen ==
  ASSUME Shape(screen), screen.kind \in FormScreens
  PROVE  IsForm(Form)
BY DEF Shape, ComponentShape, TemplateShape, OfComponent, Form, FormScreens

\* The screen with its form changed, but not its schema.
LEMMA Reformed ==
  ASSUME Shape(screen), screen.kind \in FormScreens, NEW form, IsForm(form),
         form.schema = Form.schema
  PROVE  Shape(WithForm(form)) /\ WithForm(form).kind = screen.kind
<1>1. CASE screen.kind = "Edit"
  <2>1. screen = EditScreen(screen.tab, screen.id, screen.form)
        /\ OfComponent(screen)
    BY <1>1 DEF Shape, ComponentShape
  <2>2. WithForm(form) = EditScreen(screen.tab, screen.id, form)
        /\ Form = screen.form
    BY <1>1, <2>1 DEF EditScreen, WithForm, Form
  <2>3. Shape(EditScreen(screen.tab, screen.id, form))
    BY <2>1, <2>2, EditShape DEF OfComponent
  <2> QED
    BY <1>1, <2>2, <2>3 DEF EditScreen
<1>2. CASE screen.kind = "OperatorEdit"
  <2>1. /\ screen = [kind |-> "OperatorEdit", tab |-> screen.tab,
                     id |-> screen.id, form |-> screen.form,
                     index |-> screen.index, op_form |-> screen.op_form]
        /\ OfComponent(screen) /\ OperatorFields(screen.form) # {}
        /\ screen.op_form.schema[1] = "Operator"
    BY <1>2 DEF Shape, ComponentShape
  <2>2. WithForm(form) = [kind |-> "OperatorEdit", tab |-> screen.tab,
                          id |-> screen.id, form |-> screen.form,
                          index |-> screen.index, op_form |-> form]
        /\ Form = screen.op_form
    BY <1>2, <2>1 DEF WithForm, Form
  <2>3. Shape(WithForm(form))
    BY <2>1, <2>2, OperatorEditShape DEF OfComponent
  <2>4. WithForm(form).kind = "OperatorEdit"
    BY <2>2
  <2> QED
    BY <1>2, <2>3, <2>4
<1>3. CASE screen.kind = "EditTemplateParams"
  <2>1. /\ screen = [kind |-> "EditTemplateParams",
                     template |-> screen.template, id |-> screen.id,
                     form |-> screen.form]
        /\ screen.id \in Ids /\ screen.template \in TemplateKeys
        /\ screen.form.schema = <<"Template", screen.template>>
    BY <1>3 DEF Shape, TemplateShape
  <2>2. WithForm(form) = [kind |-> "EditTemplateParams",
                          template |-> screen.template, id |-> screen.id,
                          form |-> form]
        /\ Form = screen.form
    BY <1>3, <2>1 DEF WithForm, Form
  <2>3. form.schema = <<"Template", screen.template>>
    BY <2>1, <2>2
  <2>4. Shape(WithForm(form))
    BY <2>1, <2>2, <2>3, TemplateFormShape
  <2>5. WithForm(form).kind = "EditTemplateParams"
    BY <2>2
  <2> QED
    BY <1>3, <2>4, <2>5
<1> QED
  BY <1>1, <1>2, <1>3 DEF FormScreens

LEMMA SelectShape ==
  ASSUME Typed, Down \/ Up
  PROVE  Shape(screen') /\ screen'.kind = screen.kind
<1>1. screen.kind \in ListScreens /\ Shape(screen)
  BY DEF Down, Up, AtAny, Typed
<1>2. PICK n : /\ screen' = [screen EXCEPT !.selected = n]
               /\ \/ n = IF ListLength = 0 THEN 1
                         ELSE IF screen.selected < ListLength
                         THEN screen.selected + 1 ELSE ListLength
                  \/ n = IF screen.selected = 1 THEN 1 ELSE screen.selected - 1
  BY <1>1 DEF Down, Up, Goto
<1>3. ASSUME screen.kind \in Pickers
      PROVE  ListLength \in Nat /\ screen.selected \in Nat \ {0}
  <2>1. screen.selected \in Nat \ {0}
    BY <1>1, <1>3 DEF Shape, Counted
  <2>2. CASE screen.kind = "PickType"
    <3>1. screen.tab \in Categories
      BY <1>1, <2>2 DEF Shape, ItemShape
    <3>2. Len(TypesFor[screen.tab]) \in Nat
      BY <3>1, Registry, SequenceFacts DEF IsTable
    <3> QED
      BY <2>1, <2>2, <3>2 DEF ListLength
  <2>3. CASE screen.kind = "OperatorPickType"
    BY <2>1, <2>3, Registry, SequenceFacts DEF ListLength
  <2>4. CASE screen.kind = "TemplateBrowse"
    BY <2>1, <2>4, Registry, SequenceFacts DEF ListLength
  <2> QED
    BY <1>3, <2>2, <2>3, <2>4 DEF Pickers
<1>4. screen.kind \in Pickers => n \in Nat \ {0}
  BY <1>2, <1>3
<1> QED
  BY <1>1, <1>2, <1>4, Selecting

LEMMA FormShape ==
  ASSUME Typed, MoveFocus \/ EditField
  PROVE  Shape(screen') /\ screen'.kind = screen.kind
<1>1. screen.kind \in FormScreens /\ Shape(screen) /\ IsForm(Form)
  BY FormOnScreen DEF MoveFocus, EditField, AtAny, Typed
<1>2. CASE MoveFocus
  <2>1. PICK i \in {After(Form.focused, Len(Form.fields)),
                    Before(Form.focused, Len(Form.fields))} :
          screen' = WithForm([Form EXCEPT !.focused = i])
    BY <1>2 DEF MoveFocus, Goto
  <2>2. i \in DOMAIN Form.fields
    BY <1>1, Around, SequenceFacts DEF IsForm, FormOK
  <2> DEFINE new == [Form EXCEPT !.focused = i]
  <2>3. IsForm(new) /\ new.schema = Form.schema
    BY <1>1, <2>2, Refocused
  <2> HIDE DEF new
  <2>4. Shape(WithForm(new)) /\ WithForm(new).kind = screen.kind
    BY <1>1, <2>3, Reformed
  <2> QED
    BY <2>1, <2>4 DEF new
<1>3. CASE EditField
  <2>1. PICK state \in Edited(FieldsOf[Form.schema][Form.focused],
                              Form.fields[Form.focused]) :
          screen' = WithForm([Form EXCEPT !.fields[Form.focused] = state])
    BY <1>3 DEF EditField
  <2> DEFINE new == [Form EXCEPT !.fields[Form.focused] = state]
  <2>2. IsForm(new) /\ new.schema = Form.schema
    BY <1>1, EditedForm
  <2> HIDE DEF new
  <2>3. Shape(WithForm(new)) /\ WithForm(new).kind = screen.kind
    BY <1>1, <2>2, Reformed
  <2> QED
    BY <2>1, <2>3 DEF new
<1> QED
  BY <1>2, <1>3

LEMMA PipelineSchema == <<"Pipelines", "">> \in Schemas
BY Zenon DEF Schemas

LEMMA SchemaFacts ==
  /\ \A c \in Categories : \A t \in TypeNames(TypesFor[c]) : <<c, t>> \in Schemas
  /\ \A t \in TypeNames(OperatorTypes) : <<"Operator", t>> \in Schemas
  /\ \A key \in TemplateKeys : <<"Template", key>> \in Schemas
<1>1. ASSUME NEW c \in Categories, NEW t \in TypeNames(TypesFor[c])
      PROVE  <<c, t>> \in Schemas
  <2>1. <<c, t>> \in {c} \X TypeNames(TypesFor[c])
    OBVIOUS
  <2> QED
    BY <2>1, Zenon DEF Schemas
<1>2. ASSUME NEW t \in TypeNames(OperatorTypes)
      PROVE  <<"Operator", t>> \in Schemas
  <2>1. <<"Operator", t>> \in {"Operator"} \X TypeNames(OperatorTypes)
    OBVIOUS
  <2>2. {"Operator"} \X TypeNames(OperatorTypes) \subseteq Schemas
    BY Zenon DEF Schemas
  <2> QED
    BY <2>1, <2>2
<1>3. ASSUME NEW key \in TemplateKeys
      PROVE  <<"Template", key>> \in Schemas
  <2>1. <<"Template", key>> \in {"Template"} \X TemplateKeys
    OBVIOUS
  <2>2. {"Template"} \X TemplateKeys \subseteq Schemas
    BY Zenon DEF Schemas
  <2> QED
    BY <2>1, <2>2
<1> QED
  BY <1>1, <1>2, <1>3

LEMMA TypeNamed ==
  ASSUME NEW table, IsSequence(table), NEW i \in 1..Len(table)
  PROVE  table[i].type_name \in TypeNames(table)
BY SequenceFacts DEF TypeNames

LEMMA ParamsShape ==
  ASSUME NEW key \in TemplateKeys, NEW id \in Ids, NEW value
  PROVE  Shape(TemplateParams(key, id, value))
<1> DEFINE form == NewForm(<<"Template", key>>, value)
<1>1. IsForm(form) /\ form.schema = <<"Template", key>>
  BY SchemaFacts, NewFormOK
<1>2. TemplateParams(key, id, value)
        = [kind |-> "EditTemplateParams", template |-> key, id |-> id,
           form |-> form]
  BY DEF TemplateParams
<1> HIDE DEF form
<1>3. Shape([kind |-> "EditTemplateParams", template |-> key, id |-> id,
             form |-> form])
  BY <1>1, TemplateFormShape
<1> QED
  BY <1>2, <1>3

LEMMA BackShape ==
  ASSUME Shape(screen), screen.kind # "TopLevel"
  PROVE  Shape(Back)
<1>1. CASE screen.kind \in {"PickType", "NameNew", "Edit", "ConfirmRemove"}
  <2>1. screen.tab \in Tabs
    BY <1>1 DEF Shape, ItemShape, ComponentShape, OfComponent, Tabs
  <2>2. Shape(TopLevel(screen.tab, 1))
    BY <2>1, TopShape
  <2> QED
    BY <1>1, <2>2 DEF Back
<1>2. CASE screen.kind \in {"OperatorList", "OperatorPickType", "OperatorEdit"}
  <2>1. OfComponent(screen) /\ OperatorFields(screen.form) # {}
    BY <1>2 DEF Shape, ComponentShape
  <2>2. \A n : Shape(OperatorList(screen, screen.form, n))
    BY <2>1, OperatorListShape DEF OfComponent
  <2>3. Shape(EditScreen(screen.tab, screen.id, advance_focus(screen.form)))
    BY <2>1, Advanced, EditShape DEF OfComponent
  <2>4. CASE screen.kind = "OperatorList"
    BY <2>3, <2>4 DEF Back
  <2>5. CASE screen.kind = "OperatorPickType"
    BY <2>2, <2>5 DEF Back
  <2>6. CASE screen.kind = "OperatorEdit"
    BY <2>2, <2>6 DEF Back
  <2> QED
    BY <1>2, <2>4, <2>5, <2>6
<1>3. CASE screen.kind \in {"TemplateBrowse", "NameTemplateReceiver",
                            "EditTemplateParams"}
  <2>1. Shape(TopLevel("Receivers", 1))
    BY TopShape DEF Tabs, Categories
  <2> QED
    BY <1>3, <2>1 DEF Back
<1>4. CASE screen.kind = "ReviewTemplateReceiver"
  <2>1. screen.template \in TemplateKeys /\ screen.id \in Ids
    BY <1>4 DEF Shape, TemplateShape
  <2>2. Shape(TemplateParams(screen.template, screen.id, screen.params))
    BY <2>1, ParamsShape
  <2> QED
    BY <1>4, <2>2 DEF Back
<1> QED
  BY <1>1, <1>2, <1>3, <1>4 DEF Shape, Kinds, ListScreens, FormScreens

LEMMA ToTop ==
  ASSUME Shape(screen), screen.kind \in {"Edit", "ConfirmRemove", "TopLevel"}
  PROVE  Shape(TopLevel(screen.tab, 1)) /\ screen.tab \in Tabs
<1>1. screen.tab \in Tabs
  BY DEF Shape, ItemShape, ComponentShape, OfComponent, Tabs
<1> QED
  BY <1>1, TopShape

LEMMA CategoryTabs ==
  /\ Tabs \ {"Pipelines"} = Categories
  /\ "Pipelines" \notin Categories /\ "Receivers" \in Tabs
BY DEF Tabs, Categories

\* The types of a category, and the schema an item of it is edited by.
LEMMA SchemaOf ==
  ASSUME NEW tab \in Tabs, NEW id
  PROVE  SchemaFor(tab, id) \in Schemas /\ SchemaFor(tab, id)[1] = tab
<1>1. CASE tab = "Pipelines"
  BY <1>1, PipelineSchema, Zenon DEF SchemaFor
<1>2. CASE tab # "Pipelines"
  <2>1. tab \in Categories
    BY <1>2, CategoryTabs
  <2> DEFINE table == TypesFor[tab]
  <2>2. IsSequence(table) /\ 1 \in 1..Len(table)
    BY <2>1, Registry, SequenceFacts DEF IsTable
  <2>3. table[1].type_name \in TypeNames(table)
    BY <2>2, TypeNamed
  <2>4. Named(table, component_type[id])
          => component_type[id] \in TypeNames(table)
    BY DEF Named, TypeNames
  <2>5. \A t \in TypeNames(table) : <<tab, t>> \in Schemas
    BY <2>1, SchemaFacts
  <2> HIDE DEF table
  <2> QED
    BY <1>2, <2>3, <2>4, <2>5 DEF SchemaFor, table
<1> QED
  BY <1>1, <1>2

LEMMA OpenShape ==
  ASSUME NEW tab \in Tabs, NEW id \in Ids, NEW schema \in Schemas,
         schema[1] = tab, NEW value
  PROVE  Shape(EditScreen(tab, id, NewForm(schema, value)))
BY NewFormOK, EditShape

LEMMA NamesAreIds ==
  /\ Names \subseteq Inputs
  /\ \A i \in DOMAIN Templates : Templates[i].default_id \in Inputs
BY RegistryAssumption, Zenon DEF Inputs

LEMMA ItemStepShape ==
  ASSUME Typed,
         SwitchTab \/ OpenItem \/ Add \/ PickType \/ NameItem \/ RemoveItem
           \/ Submit \/ ConfirmRemove
  PROVE  Shape(screen')
<1>0. Shape(screen) /\ DocOK(doc)
  BY DEF Typed
<1>1. CASE SwitchTab
  BY <1>1, TopShape DEF SwitchTab, Goto
<1>2. CASE OpenItem
  <2>1. screen.tab \in Tabs
    BY <1>0, <1>2, ToTop DEF OpenItem, MayBegin, At
  <2>2. PICK id \in Ids :
          screen' = EditScreen(screen.tab, id,
            NewForm(SchemaFor(screen.tab, id), doc[screen.tab][id]))
    BY <1>2 DEF OpenItem, OpenForm
  <2> QED
    BY <2>1, <2>2, SchemaOf, OpenShape
<1>3. CASE Add
  <2>1. screen.tab \in Tabs
    BY <1>0, <1>3, ToTop DEF Add, MayBegin, At
  <2>2. CASE screen.tab = "Pipelines"
    <3>1. PICK type_name, input \in Inputs :
            /\ screen' = [kind |-> "NameNew", tab |-> screen.tab,
                          type_name |-> type_name, input |-> input]
            /\ <<screen.tab, type_name>> \in Schemas
      BY <1>3, <2>2, PipelineSchema, InputFacts, Zenon DEF Add, Goto
    <3> QED
      BY <2>1, <3>1, NameShape
  <2>3. CASE screen.tab # "Pipelines"
    <3>1. screen' = [kind |-> "PickType", tab |-> screen.tab, selected |-> 1]
      BY <1>3, <2>3 DEF Add, Goto
    <3>2. screen.tab \in Categories /\ 1 \in Nat \ {0}
      BY <2>1, <2>3, CategoryTabs
    <3> QED
      BY <3>1, <3>2, PickerShape
  <2> QED
    BY <2>2, <2>3
<1>4. CASE PickType
  <2> DEFINE tab == screen.tab
             name == TypesFor[tab][screen.selected].type_name
  <2>1. /\ tab \in Categories /\ screen.selected \in Nat \ {0}
        /\ screen.selected <= Len(TypesFor[tab])
    BY <1>0, <1>4
    DEF PickType, At, Shape, ItemShape, Counted, Pickers, ListLength
  <2>2. IsSequence(TypesFor[tab]) /\ Len(TypesFor[tab]) \in Nat
    BY <2>1, Registry, SequenceFacts DEF IsTable
  <2>3. name \in TypeNames(TypesFor[tab])
    BY <2>1, <2>2, TypeNamed
  <2>4. <<tab, name>> \in Schemas /\ tab \in Tabs
    BY <2>1, <2>3, SchemaFacts DEF Tabs
  <2>5. PICK input \in Inputs :
          screen' = [kind |-> "NameNew", tab |-> tab, input |-> input,
                     type_name |-> name]
    BY <1>4, InputFacts, Zenon DEF PickType, Goto
  <2>6. screen' = [kind |-> "NameNew", tab |-> tab, type_name |-> name,
                   input |-> input]
    BY <2>5
  <2> HIDE DEF tab, name
  <2> QED
    BY <2>4, <2>6, NameShape
<1>5. CASE NameItem
  <2>1. /\ screen.tab \in Tabs /\ <<screen.tab, screen.type_name>> \in Schemas
        /\ screen.input \in Ids
    <3>1. /\ screen.tab \in Tabs /\ screen.input \in Inputs
          /\ <<screen.tab, screen.type_name>> \in Schemas
          /\ Free(screen.tab, screen.input)
      BY <1>0, <1>5 DEF NameItem, At, Shape, ItemShape
    <3> QED
      BY <3>1, InputFacts, Zenon
  <2>2. PICK value : NewItem(screen.tab, screen.type_name)
                       = NewForm(<<screen.tab, screen.type_name>>, value)
    BY Zenon DEF NewItem
  <2>3. screen' = EditScreen(screen.tab, screen.input,
                             NewForm(<<screen.tab, screen.type_name>>, value))
    BY <1>5, <2>2 DEF NameItem, OpenForm
  <2>4. <<screen.tab, screen.type_name>>[1] = screen.tab
    OBVIOUS
  <2> QED
    BY <2>1, <2>3, <2>4, OpenShape
<1>6. CASE RemoveItem
  <2>1. screen.tab \in Tabs /\ Shape(TopLevel(screen.tab, 1))
    BY <1>0, <1>6, ToTop DEF RemoveItem, MayBegin, At
  <2>2. CASE screen' = TopLevel(screen.tab, 1)
    BY <2>1, <2>2
  <2>3. ASSUME NEW id \in Ids, screen.tab # "Pipelines",
               screen' = [kind |-> "ConfirmRemove", tab |-> screen.tab, id |-> id]
        PROVE  Shape(screen')
    BY <2>1, <2>3, CategoryTabs, RemovalShape
  <2>4. PICK id \in Ids :
          IF screen.tab = "Pipelines"
               \/ pipelines_referencing(screen.tab, id) = {}
          THEN screen' = TopLevel(screen.tab, 1)
          ELSE screen' = [kind |-> "ConfirmRemove", tab |-> screen.tab,
                          id |-> id]
    BY <1>6, Zenon DEF RemoveItem, Change, Goto
  <2> QED
    BY <2>2, <2>3, <2>4, Zenon
<1>7. CASE Submit \/ ConfirmRemove
  BY <1>0, <1>7, ToTop DEF Submit, ConfirmRemove, At, Change
<1> QED
  BY <1>1, <1>2, <1>3, <1>4, <1>5, <1>6, <1>7

LEMMA OperatorTypeSchema ==
  ASSUME NEW type, type \in TypeNames(OperatorTypes)
  PROVE  <<"Operator", type>> \in Schemas /\ <<"Operator", type>>[1] = "Operator"
BY SchemaFacts

\* The form of an operator of a registered type.
LEMMA OperatorFormShape ==
  ASSUME OfComponent(screen), OperatorFields(screen.form) # {},
         NEW type \in TypeNames(OperatorTypes), NEW value, NEW index
  PROVE  Shape(OperatorEdit(<<"Operator", type>>, value, index))
<1> DEFINE form == NewForm(<<"Operator", type>>, value)
<1>1. IsForm(form) /\ form.schema[1] = "Operator"
  <2>1. <<"Operator", type>> \in Schemas
    BY OperatorTypeSchema
  <2>2. IsForm(form) /\ form.schema = <<"Operator", type>>
    BY <2>1, NewFormOK
  <2> QED
    BY <2>2, OperatorTypeSchema
<1>2. OperatorEdit(<<"Operator", type>>, value, index)
        = [kind |-> "OperatorEdit", tab |-> screen.tab, id |-> screen.id,
           form |-> screen.form, index |-> index, op_form |-> form]
  BY DEF OperatorEdit
<1> HIDE DEF form
<1> QED
  BY <1>1, <1>2, OperatorEditShape DEF OfComponent

LEMMA OperatorStepShape ==
  ASSUME Typed,
         DrillDown \/ AddOperator \/ PickOperatorType \/ OpenOperator
           \/ DeleteOperator \/ SubmitOperator
  PROVE  Shape(screen')
<1>0. Shape(screen)
  BY DEF Typed
<1>1. CASE DrillDown
  <2>1. OfComponent(screen) /\ screen' = OperatorList(screen, screen.form, 1)
    BY <1>0, <1>1 DEF DrillDown, At, Goto, Shape, ComponentShape
  <2>2. screen.form.focused \in OperatorFields(screen.form)
    BY <1>1, <2>1
    DEF DrillDown, OfComponent, IsForm, FormOK, focused_kind, OperatorFields
  <2> QED
    BY <2>1, <2>2, OperatorListShape DEF OfComponent
<1>2. CASE AddOperator
  <2>1. /\ screen.kind = "OperatorList"
        /\ screen = [OperatorList(screen, screen.form, screen.selected)
                       EXCEPT !.kind = screen.kind]
        /\ OfComponent(screen) /\ OperatorFields(screen.form) # {}
        /\ screen' = [screen EXCEPT !.kind = "OperatorPickType",
                                    !.selected = 1]
    BY <1>0, <1>2 DEF AddOperator, At, Goto, Shape, ComponentShape
  <2>2. screen' = [OperatorList(screen, screen.form, 1)
                     EXCEPT !.kind = "OperatorPickType"]
    <3>1. screen = [kind |-> "OperatorList", tab |-> screen.tab,
                    id |-> screen.id, form |-> screen.form,
                    selected |-> screen.selected]
      BY <2>1 DEF OperatorList
    <3>2. screen' = [kind |-> "OperatorPickType", tab |-> screen.tab,
                     id |-> screen.id, form |-> screen.form, selected |-> 1]
      BY <2>1, <3>1
    <3> QED
      BY <3>2 DEF OperatorList
  <2>3. 1 \in Nat \ {0}
    OBVIOUS
  <2>4. /\ screen.tab \in Tabs /\ screen.id \in Ids /\ IsForm(screen.form)
        /\ screen.form.schema[1] = screen.tab
    BY <2>1 DEF OfComponent
  <2>5. Shape([OperatorList(screen, screen.form, 1)
                 EXCEPT !.kind = "OperatorPickType"])
    BY <2>1, <2>3, <2>4, OperatorsShape
  <2> QED
    BY <2>2, <2>5
<1>3. CASE PickOperatorType
  <2>1. /\ OfComponent(screen) /\ OperatorFields(screen.form) # {}
        /\ screen.selected \in Nat \ {0}
        /\ screen.selected <= Len(OperatorTypes)
    BY <1>0, <1>3
    DEF PickOperatorType, At, Shape, ComponentShape, Counted, Pickers,
        ListLength
  <2> DEFINE type == OperatorTypes[screen.selected]
  <2>2. type.type_name \in TypeNames(OperatorTypes)
    BY <2>1, Registry, SequenceFacts, TypeNamed
  <2>3. screen' = OperatorEdit(<<"Operator", type.type_name>>,
                               minimal_value(type.fields), None)
    BY <1>3 DEF PickOperatorType, Goto
  <2> HIDE DEF type
  <2> QED
    BY <2>1, <2>2, <2>3, OperatorFormShape
<1>4. CASE OpenOperator
  <2>1. OfComponent(screen) /\ OperatorFields(screen.form) # {}
    BY <1>0, <1>4 DEF OpenOperator, At, Shape, ComponentShape
  <2> DEFINE op == operators(screen.form)[screen.selected]
  <2>2. OperatorTypeOf(op) \in TypeNames(OperatorTypes)
    BY <1>4 DEF OpenOperator, Named, TypeNames
  <2>3. screen' = OperatorEdit(<<"Operator", OperatorTypeOf(op)>>, op[2],
                               Some(screen.selected))
    BY <1>4 DEF OpenOperator, Goto
  <2> HIDE DEF op
  <2> QED
    BY <2>1, <2>2, <2>3, OperatorFormShape
<1>5. CASE DeleteOperator \/ SubmitOperator
  <2>1. OfComponent(screen) /\ OperatorFields(screen.form) # {}
    BY <1>0, <1>5 DEF DeleteOperator, SubmitOperator, At, Shape, ComponentShape
  <2>2. PICK ops, n :
          screen' = OperatorList(screen, set_operators(screen.form, ops), n)
    BY <1>5, Zenon DEF DeleteOperator, SubmitOperator, ChangeOperators
  <2> DEFINE form == set_operators(screen.form, ops)
  <2>3. /\ IsForm(form) /\ form.schema = screen.form.schema
        /\ OperatorFields(form) = OperatorFields(screen.form)
    BY <2>1, SetOperators DEF OfComponent
  <2> HIDE DEF form
  <2>4. Shape(OperatorList(screen, form, n))
    BY <2>1, <2>3, OperatorListShape DEF OfComponent
  <2> QED
    BY <2>2, <2>4 DEF form
<1> QED
  BY <1>1, <1>2, <1>3, <1>4, <1>5

LEMMA TemplateStepShape ==
  ASSUME Typed,
         TypeName \/ BrowseTemplates \/ PickTemplate \/ NameTemplateReceiver
           \/ SubmitParams \/ InsertReceiver
  PROVE  Shape(screen')
<1>0. Shape(screen)
  BY DEF Typed
<1>1. CASE TypeName
  <2>1. PICK name \in Inputs : screen' = [screen EXCEPT !.input = name]
    BY <1>1, NamesAreIds DEF TypeName, Goto
  <2>2. CASE screen.kind = "NameNew"
    <3>1. /\ screen = [kind |-> "NameNew", tab |-> screen.tab,
                       type_name |-> screen.type_name, input |-> screen.input]
          /\ screen.tab \in Tabs /\ <<screen.tab, screen.type_name>> \in Schemas
      BY <1>0, <2>2 DEF Shape, ItemShape
    <3>2. screen' = [kind |-> "NameNew", tab |-> screen.tab,
                     type_name |-> screen.type_name, input |-> name]
      BY <2>1, <3>1
    <3> QED
      BY <2>1, <3>1, <3>2, NameShape
  <2>3. CASE screen.kind = "NameTemplateReceiver"
    <3>1. /\ screen = [kind |-> "NameTemplateReceiver",
                       template |-> screen.template, input |-> screen.input]
          /\ screen.template \in TemplateKeys
      BY <1>0, <2>3 DEF Shape, TemplateShape
    <3>2. screen' = [kind |-> "NameTemplateReceiver",
                     template |-> screen.template, input |-> name]
      BY <2>1, <3>1
    <3> QED
      BY <2>1, <3>1, <3>2, TemplateNameShape
  <2> QED
    BY <1>1, <2>2, <2>3 DEF TypeName, AtAny
<1>2. CASE BrowseTemplates
  <2>1. 1 \in Nat \ {0}
    OBVIOUS
  <2> QED
    BY <1>2, <2>1, BrowseShape DEF BrowseTemplates, Goto
<1>3. CASE PickTemplate
  <2>1. screen.selected \in Nat \ {0} /\ screen.selected <= Len(Templates)
    BY <1>0, <1>3 DEF PickTemplate, At, Shape, Counted, Pickers, ListLength
  <2> DEFINE template == Templates[screen.selected]
  <2>2. screen.selected \in DOMAIN Templates
    BY <2>1, Registry, SequenceFacts
  <2>3. template.key \in TemplateKeys /\ template.default_id \in Inputs
    BY <2>2, NamesAreIds DEF TemplateKeys
  <2>4. screen' = [kind |-> "NameTemplateReceiver", template |-> template.key,
                   input |-> template.default_id]
    BY <1>3 DEF PickTemplate, Goto
  <2> HIDE DEF template
  <2> QED
    BY <2>3, <2>4, TemplateNameShape
<1>4. CASE NameTemplateReceiver
  <2>1. /\ screen.template \in TemplateKeys /\ screen.input \in Inputs
        /\ Free("Receivers", screen.input)
        /\ screen' = TemplateParams(screen.template, screen.input, << >>)
    BY <1>0, <1>4
    DEF NameTemplateReceiver, At, OpenForm, Shape, TemplateShape
  <2>2. screen.input \in Ids
    BY <2>1, InputFacts, Zenon
  <2> QED
    BY <2>1, <2>2, ParamsShape
<1>5. CASE SubmitParams
  <2>1. screen.template \in TemplateKeys /\ screen.id \in Ids
    BY <1>0, <1>5 DEF SubmitParams, At, Shape, TemplateShape
  <2>2. PICK params, receiver :
          screen' = [kind |-> "ReviewTemplateReceiver", id |-> screen.id,
                     template |-> screen.template, params |-> params,
                     receiver |-> receiver]
    BY <1>5, Zenon DEF SubmitParams, Goto
  <2> QED
    BY <2>1, <2>2, ReviewShape
<1>6. CASE InsertReceiver
  BY <1>6, TopShape, CategoryTabs DEF InsertReceiver, Change
<1> QED
  BY <1>1, <1>2, <1>3, <1>4, <1>5, <1>6

LEMMA ShapeStep ==
  ASSUME Typed, [Next]_vars
  PROVE  Shape(screen')
<1>0. Shape(screen)
  BY DEF Typed
<1>1. CASE UNCHANGED screen
  BY <1>0, <1>1
<1>2. CASE Help \/ Quit \/ Save \/ UNCHANGED vars
  BY <1>1, <1>2 DEF Help, Quit, Save, vars
<1>3. CASE Escape
  BY <1>0, <1>3, BackShape DEF Escape, Goto
<1> QED
  BY <1>2, <1>3, SelectShape, FormShape, ItemStepShape, OperatorStepShape,
     TemplateStepShape DEF Next

LEMMA WithOK ==
  ASSUME NEW d, DocOK(d), NEW tab \in Tabs, NEW id \in Ids, NEW value
  PROVE  DocOK(With(d, tab, id, value))
<1> DEFINE new == With(d, tab, id, value)
<1>1. /\ DOMAIN new = Tabs
      /\ DOMAIN new[tab] = DOMAIN d[tab] \union {id}
      /\ \A t \in Tabs \ {tab} : new[t] = d[t]
  BY DEF With, DocOK
<1> HIDE DEF new
<1> QED
  BY <1>1 DEF DocOK, new

LEMMA WithoutOK ==
  ASSUME NEW d, DocOK(d), NEW tab, NEW id
  PROVE  DocOK(Without(d, tab, id))
<1> DEFINE new == Without(d, tab, id)
<1>1. /\ DOMAIN new = Tabs
      /\ tab \in Tabs => DOMAIN new[tab] = DOMAIN d[tab] \ {id}
      /\ \A t \in Tabs \ {tab} : new[t] = d[t]
  BY DEF Without, DocOK
<1> HIDE DEF new
<1> QED
  BY <1>1 DEF DocOK, new

LEMMA StrippedOK ==
  ASSUME DocOK(doc), NEW tab, NEW id
  PROVE  DocOK(strip_from_pipelines(tab, id))
<1> DEFINE d == [doc EXCEPT !["Pipelines"] =
                   [p \in DOMAIN @ |-> Stripped(@[p], tab, id)]]
<1>1. DOMAIN d = Tabs /\ \A t \in Tabs : DOMAIN d[t] = DOMAIN doc[t]
  BY DEF DocOK
<1>2. DocOK(d)
  BY <1>1, Zenon DEF DocOK
<1> QED
  BY <1>2 DEF strip_from_pipelines

\* Every document the keys make.
LEMMA ChangedOK ==
  ASSUME Typed, Submit \/ RemoveItem \/ ConfirmRemove \/ InsertReceiver
  PROVE  DocOK(doc')
<1>0. DocOK(doc) /\ Shape(screen)
  BY DEF Typed
<1>1. CASE Submit
  <2>1. screen.tab \in Tabs /\ screen.id \in Ids
    BY <1>0, <1>1 DEF Submit, At, Shape, ComponentShape, OfComponent
  <2>2. PICK value : doc' = With(doc, screen.tab, screen.id, value)
    BY <1>1, Zenon DEF Submit, Change
  <2> QED
    BY <1>0, <2>1, <2>2, WithOK
<1>2. CASE RemoveItem
  <2>1. \/ doc' = doc
        \/ \E id \in Ids : doc' = Without(doc, screen.tab, id)
    BY <1>2, Zenon DEF RemoveItem, Change, Goto
  <2> QED
    BY <1>0, <2>1, WithoutOK
<1>3. CASE ConfirmRemove
  <2>1. doc' = Without(strip_from_pipelines(screen.tab, screen.id),
                       screen.tab, screen.id)
    BY <1>3 DEF ConfirmRemove, Change
  <2> QED
    BY <1>0, <2>1, StrippedOK, WithoutOK
<1>4. CASE InsertReceiver
  <2>1. screen.id \in Ids
        /\ doc' = With(doc, "Receivers", screen.id, screen.receiver)
    BY <1>0, <1>4
    DEF InsertReceiver, At, Change, Shape, TemplateShape
  <2> QED
    BY <1>0, <2>1, CategoryTabs, WithOK
<1> QED
  BY <1>1, <1>2, <1>3, <1>4

\* The steps that leave the document and the bounds as they are.
Still == UNCHANGED <<doc, disk, dirty, quit, help, used>>

LEMMA StillStep ==
  ASSUME Typed, Still, screen'.kind # "ConfirmRemove",
         \/ screen'.kind = "TopLevel"
         \/ screen.kind # "TopLevel"
         \/ used.changes < MaxChanges
  PROVE  Begun' /\ (used = [changes |-> used.changes, edits |-> used.edits])'
BY DEF Typed, Still, Begun

LEMMA BackKind ==
  ASSUME Shape(screen), screen.kind # "TopLevel"
  PROVE  Back.kind # "ConfirmRemove"
BY DEF Shape, Kinds, ListScreens, FormScreens, Back, TopLevel, EditScreen,
       OperatorList, TemplateParams

\* Where the keys that neither change the document nor only move on a screen
\* lead.
LEMMA Leads ==
  ASSUME Typed
  PROVE  /\ SwitchTab => screen'.kind = "TopLevel"
         /\ OpenItem \/ NameItem => screen'.kind = "Edit"
         /\ Add => screen'.kind \in {"NameNew", "PickType"}
         /\ PickType => screen'.kind = "NameNew"
         /\ DrillDown \/ DeleteOperator \/ SubmitOperator
              => screen'.kind = "OperatorList"
         /\ AddOperator => screen'.kind = "OperatorPickType"
         /\ PickOperatorType \/ OpenOperator => screen'.kind = "OperatorEdit"
         /\ TypeName => screen'.kind \in {"NameNew", "NameTemplateReceiver"}
         /\ BrowseTemplates => screen'.kind = "TemplateBrowse"
         /\ PickTemplate => screen'.kind = "NameTemplateReceiver"
         /\ NameTemplateReceiver => screen'.kind = "EditTemplateParams"
         /\ SubmitParams => screen'.kind = "ReviewTemplateReceiver"
<1>0. Shape(screen)
  BY DEF Typed
<1>1. SwitchTab => screen'.kind = "TopLevel"
  BY DEF SwitchTab, Goto, TopLevel
<1>2. OpenItem \/ NameItem => screen'.kind = "Edit"
  BY DEF OpenItem, NameItem, OpenForm, EditScreen
<1>3. ASSUME Add
      PROVE  screen'.kind \in {"NameNew", "PickType"}
  <2>1. PICK type_name, input :
          screen' = IF screen.tab = "Pipelines"
                    THEN [kind |-> "NameNew", tab |-> screen.tab,
                          type_name |-> type_name, input |-> input]
                    ELSE [kind |-> "PickType", tab |-> screen.tab,
                          selected |-> 1]
    BY <1>3, Zenon DEF Add, Goto
  <2> QED
    BY <2>1
<1>4. ASSUME PickType
      PROVE  screen'.kind = "NameNew"
  <2>1. PICK type_name, input :
          screen' = [kind |-> "NameNew", tab |-> screen.tab, input |-> input,
                     type_name |-> type_name]
    BY <1>4, Zenon DEF PickType, Goto
  <2> QED
    BY <2>1
<1>5. DrillDown \/ DeleteOperator \/ SubmitOperator
        => screen'.kind = "OperatorList"
  <2>1. ASSUME DrillDown \/ DeleteOperator \/ SubmitOperator
        PROVE  \E form, n : screen' = OperatorList(screen, form, n)
    BY <2>1, Zenon
    DEF DrillDown, DeleteOperator, SubmitOperator, ChangeOperators, Goto
  <2> QED
    BY <2>1 DEF OperatorList
<1>6. ASSUME AddOperator
      PROVE  screen'.kind = "OperatorPickType"
  <2>1. /\ screen = [OperatorList(screen, screen.form, screen.selected)
                       EXCEPT !.kind = screen.kind]
        /\ screen' = [screen EXCEPT !.kind = "OperatorPickType",
                                     !.selected = 1]
    BY <1>0, <1>6 DEF AddOperator, At, Goto, Shape, ComponentShape
  <2> QED
    BY <2>1 DEF OperatorList
<1>7. PickOperatorType \/ OpenOperator => screen'.kind = "OperatorEdit"
  <2>1. PickOperatorType => screen'.kind = "OperatorEdit"
    BY DEF PickOperatorType, Goto, OperatorEdit
  <2>2. OpenOperator => screen'.kind = "OperatorEdit"
    BY DEF OpenOperator, Goto, OperatorEdit
  <2> QED
    BY <2>1, <2>2
<1>8. ASSUME TypeName
      PROVE  screen'.kind \in {"NameNew", "NameTemplateReceiver"}
  <2>1. PICK name : screen' = [screen EXCEPT !.input = name]
    BY <1>8 DEF TypeName, Goto
  <2>2. \/ screen = [kind |-> "NameNew", tab |-> screen.tab,
                     type_name |-> screen.type_name, input |-> screen.input]
        \/ screen = [kind |-> "NameTemplateReceiver",
                     template |-> screen.template, input |-> screen.input]
    BY <1>0, <1>8 DEF TypeName, AtAny, Shape, ItemShape, TemplateShape
  <2> QED
    BY <2>1, <2>2
<1>9. BrowseTemplates => screen'.kind = "TemplateBrowse"
  BY DEF BrowseTemplates, Goto
<1>10. PickTemplate => screen'.kind = "NameTemplateReceiver"
  BY DEF PickTemplate, Goto
<1>11. NameTemplateReceiver => screen'.kind = "EditTemplateParams"
  BY DEF NameTemplateReceiver, OpenForm, TemplateParams
<1>12. SubmitParams => screen'.kind = "ReviewTemplateReceiver"
  BY DEF SubmitParams, Goto
<1> QED
  BY <1>1, <1>2, <1>3, <1>4, <1>5, <1>6, <1>7, <1>8, <1>9, <1>10, <1>11, <1>12

Leading ==
  \/ SwitchTab \/ OpenItem \/ Add \/ PickType \/ NameItem \/ DrillDown
  \/ AddOperator \/ PickOperatorType \/ OpenOperator \/ DeleteOperator
  \/ SubmitOperator \/ TypeName \/ BrowseTemplates \/ PickTemplate
  \/ NameTemplateReceiver \/ SubmitParams

LEMMA NotRemoving ==
  ASSUME Typed, Leading
  PROVE  /\ screen'.kind # "ConfirmRemove" /\ Still
         /\ \/ screen'.kind = "TopLevel"
            \/ screen.kind # "TopLevel"
            \/ used.changes < MaxChanges
<1>1. screen'.kind # "ConfirmRemove"
  BY Leads DEF Leading
<1>2. CASE SwitchTab \/ OpenItem \/ Add \/ PickType \/ NameItem
             \/ NameTemplateReceiver \/ TypeName
  BY <1>1, <1>2, Leads
  DEF SwitchTab, OpenItem, Add, PickType, NameItem, NameTemplateReceiver,
      TypeName, MayBegin, At, AtAny, Goto, OpenForm, Still
<1>3. CASE DrillDown \/ AddOperator \/ PickOperatorType \/ OpenOperator
             \/ DeleteOperator \/ SubmitOperator
  BY <1>1, <1>3
  DEF DrillDown, AddOperator, PickOperatorType, OpenOperator, DeleteOperator,
      SubmitOperator, At, Goto, ChangeOperators, Still
<1>4. CASE BrowseTemplates \/ PickTemplate \/ SubmitParams
  BY <1>1, <1>4
  DEF BrowseTemplates, PickTemplate, SubmitParams, MayBegin, At, Goto, Still
<1> QED
  BY <1>2, <1>3, <1>4 DEF Leading

\* One change more, of those left, and back to the top level.
LEMMA ChangeStep ==
  ASSUME Typed, used.changes < MaxChanges, NEW d, NEW tab, NEW n,
         Change(d, TopLevel(tab, n))
  PROVE  /\ Begun' /\ (used.changes \in 0..MaxChanges)'
         /\ (used.edits \in 0..MaxEdits)'
         /\ (used = [changes |-> used.changes, edits |-> used.edits])'
<1>1. screen'.kind = "TopLevel" /\ used' = [used EXCEPT !.changes = @ + 1]
  BY DEF Change, TopLevel
<1>2. /\ used' = [changes |-> used.changes + 1, edits |-> used.edits]
      /\ used.changes \in 0..MaxChanges /\ used.edits \in 0..MaxEdits
  BY <1>1 DEF Typed
<1>3. /\ used'.changes = used.changes + 1 /\ used'.edits = used.edits
      /\ MaxChanges \in Nat /\ MaxEdits \in Nat
  BY <1>2, Registry
<1>4. used'.changes \in 0..MaxChanges /\ used'.edits \in 0..MaxEdits
  BY <1>2, <1>3
<1>5. Begun'
  BY <1>1 DEF Begun
<1> QED
  BY <1>2, <1>3, <1>4, <1>5

LEMMA BoundStep ==
  ASSUME Typed, [Next]_vars
  PROVE  /\ Begun' /\ (used.changes \in 0..MaxChanges)'
         /\ (used.edits \in 0..MaxEdits)'
         /\ (used = [changes |-> used.changes, edits |-> used.edits])'
<1>0. /\ Shape(screen) /\ Begun
      /\ used.changes \in 0..MaxChanges /\ used.edits \in 0..MaxEdits
  BY DEF Typed
<1>1. CASE Down \/ Up
  <2>1. screen'.kind = screen.kind /\ screen.kind \in ListScreens /\ Still
    BY <1>1, SelectShape DEF Down, Up, AtAny, Goto, Still
  <2> QED
    BY <1>0, <2>1 DEF Still, Begun, ListScreens, Typed
<1>2. CASE Escape
  <2>1. Still /\ screen.kind # "TopLevel" /\ screen'.kind # "ConfirmRemove"
    BY <1>0, <1>2, BackKind DEF Escape, Goto, Still
  <2> QED
    BY <1>0, <2>1, StillStep DEF Still
<1>3. CASE MoveFocus
  <2>1. screen'.kind = screen.kind /\ screen.kind \in FormScreens /\ Still
    BY <1>3, FormShape, Zenon DEF MoveFocus, AtAny, Goto, Still
  <2> QED
    BY <1>0, <2>1, StillStep DEF Still, FormScreens
<1>4. CASE EditField
  <2>1. /\ screen'.kind = screen.kind /\ screen.kind \in FormScreens
        /\ used' = [used EXCEPT !.edits = @ + 1] /\ used.edits < MaxEdits
    BY <1>4, FormShape DEF EditField, AtAny
  <2>2. used' = [changes |-> used.changes, edits |-> used.edits + 1]
    BY <2>1 DEF Typed
  <2>3. /\ used'.changes = used.changes /\ used'.edits = used.edits + 1
        /\ MaxEdits \in Nat
    BY <2>2, Registry
  <2>4. used'.edits \in 0..MaxEdits
    BY <1>0, <2>1, <2>3
  <2>5. Begun'
    BY <1>0, <2>1, <2>3 DEF Begun, FormScreens
  <2> QED
    BY <1>0, <2>2, <2>3, <2>4, <2>5
<1>5. CASE Submit
  <2>1. used.changes < MaxChanges
    BY <1>0, <1>5 DEF Submit, At, Begun
  <2>2. PICK d : Change(d, TopLevel(screen.tab, 1))
    BY <1>5, Zenon DEF Submit
  <2> QED
    BY <2>1, <2>2, ChangeStep
<1>6. CASE ConfirmRemove
  <2>1. used.changes < MaxChanges
    BY <1>0, <1>6 DEF ConfirmRemove, At, Begun
  <2>2. PICK d : Change(d, TopLevel(screen.tab, 1))
    BY <1>6, Zenon DEF ConfirmRemove
  <2> QED
    BY <2>1, <2>2, ChangeStep
<1>7. CASE InsertReceiver
  <2>1. used.changes < MaxChanges
    BY <1>0, <1>7 DEF InsertReceiver, At, Begun
  <2>2. PICK d : Change(d, TopLevel("Receivers", 1))
    BY <1>7, Zenon DEF InsertReceiver
  <2> QED
    BY <2>1, <2>2, ChangeStep
<1>8. CASE RemoveItem
  <2>1. used.changes < MaxChanges
    BY <1>8 DEF RemoveItem, MayBegin
  <2>2. PICK id \in Ids :
          /\ Selected(id)
          /\ IF screen.tab = "Pipelines"
                \/ pipelines_referencing(screen.tab, id) = {}
             THEN Change(Without(doc, screen.tab, id), TopLevel(screen.tab, 1))
             ELSE Goto([kind |-> "ConfirmRemove", tab |-> screen.tab, id |-> id])
    BY <1>8, Zenon DEF RemoveItem
  <2>3. CASE Change(Without(doc, screen.tab, id), TopLevel(screen.tab, 1))
    BY <2>1, <2>3, ChangeStep
  <2>4. CASE Goto([kind |-> "ConfirmRemove", tab |-> screen.tab, id |-> id])
    <3>1. /\ screen'.tab = screen.tab /\ screen'.id = id /\ Still
          /\ id \in DOMAIN doc[screen.tab]
      BY <2>2, <2>4 DEF Goto, Still, Selected
    <3> QED
      BY <1>0, <2>1, <3>1 DEF Begun, Still, Typed
  <2> QED
    BY <2>2, <2>3, <2>4, Zenon
<1>9. CASE Help \/ Quit \/ Save \/ UNCHANGED vars
  <2>1. UNCHANGED <<doc, screen, used>>
    BY <1>9 DEF Help, Quit, Save, vars
  <2> QED
    BY <1>0, <2>1 DEF Begun, Typed
<1>10. CASE Leading
  BY <1>0, <1>10, NotRemoving, StillStep DEF Still
<1> QED
  BY <1>1, <1>2, <1>3, <1>4, <1>5, <1>6, <1>7, <1>8, <1>9, <1>10
  DEF Next, Leading

\* Who changes the document and the file, and what a key does to the flags.
LEMMA DocumentStep ==
  ASSUME Typed, [Next]_vars
  PROVE  /\ DocOK(doc') /\ DocOK(disk'.sections)
         /\ dirty' \in BOOLEAN /\ quit' \in BOOLEAN /\ help' \in BOOLEAN
<1>0. /\ DocOK(doc) /\ DocOK(disk.sections)
      /\ dirty \in BOOLEAN /\ quit \in BOOLEAN /\ help \in BOOLEAN
  BY DEF Typed
<1>1. CASE UNCHANGED <<doc, disk, dirty, quit, help>>
  BY <1>0, <1>1
<1>2. CASE Submit \/ RemoveItem \/ ConfirmRemove \/ InsertReceiver
  <2>1. UNCHANGED <<disk, quit, help>> /\ (dirty' = TRUE \/ dirty' = dirty)
    BY <1>2, Zenon
    DEF Submit, RemoveItem, ConfirmRemove, InsertReceiver, Change, Goto
  <2> QED
    BY <1>0, <1>2, <2>1, ChangedOK
<1>3. CASE Save
  <2>1. /\ disk'.sections = doc /\ dirty' = FALSE
        /\ UNCHANGED <<doc, quit, help>>
    BY <1>3 DEF Save, Saved
  <2> QED
    BY <1>0, <2>1
<1>4. CASE Help \/ Quit
  <2>1. /\ UNCHANGED <<doc, disk, dirty>>
        /\ quit' \in {TRUE, quit} /\ help' \in {help, ~ help}
    BY <1>4, Zenon DEF Help, Quit
  <2> QED
    BY <1>0, <2>1
<1>5. CASE Down \/ Up \/ Escape \/ MoveFocus \/ EditField \/ UNCHANGED vars
  BY <1>1, <1>5 DEF Down, Up, Escape, MoveFocus, EditField, Goto, vars
<1>6. CASE Leading
  BY <1>1, <1>6, NotRemoving DEF Still
<1> QED
  BY <1>2, <1>3, <1>4, <1>5, <1>6 DEF Next, Leading

LEMMA TypedStep ==
  ASSUME Typed, [Next]_vars
  PROVE  Typed'
BY ShapeStep, BoundStep, DocumentStep DEF Typed

LEMMA InitTyped ==
  ASSUME Init
  PROVE  Typed
<1>1. DocOK(doc) /\ DocOK(disk.sections)
  BY FilesAssumption, Zenon DEF Init, Loaded
<1>2. Shape(screen) /\ screen.kind = "TopLevel"
  <2>1. screen = TopLevel("Receivers", 1)
    BY DEF Init
  <2> QED
    BY <2>1, CategoryTabs, TopShape DEF TopLevel
<1>3. Begun
  BY <1>2 DEF Begun
<1>4. /\ used.changes \in 0..MaxChanges /\ used.edits \in 0..MaxEdits
      /\ used = [changes |-> used.changes, edits |-> used.edits]
  BY Registry DEF Init
<1>5. dirty \in BOOLEAN /\ quit \in BOOLEAN /\ help \in BOOLEAN
  BY DEF Init
<1> QED
  BY <1>1, <1>2, <1>3, <1>4, <1>5 DEF Typed

LEMMA ShapeScreen ==
  ASSUME Typed
  PROVE  ScreenOK
<1>0. Shape(screen) /\ Begun
  BY DEF Typed
<1>1. CASE screen.kind \in {"TopLevel", "PickType", "NameNew", "ConfirmRemove"}
  BY <1>0, <1>1 DEF Shape, ItemShape, Begun, ScreenOK, Inputs
<1>2. CASE screen.kind \in {"Edit", "OperatorList", "OperatorPickType",
                            "OperatorEdit"}
  BY <1>0, <1>2 DEF Shape, ComponentShape, OfComponent, IsForm, ScreenOK
<1>3. CASE screen.kind \in {"TemplateBrowse", "NameTemplateReceiver",
                            "EditTemplateParams", "ReviewTemplateReceiver"}
  BY <1>0, <1>3 DEF Shape, TemplateShape, IsForm, ScreenOK, Inputs
<1> QED
  BY <1>0, <1>1, <1>2, <1>3 DEF Shape, Kinds, ListScreens, FormScreens

LEMMA Typeness == Spec => []Typed
<1> QED
  BY InitTyped, TypedStep, PTL DEF Spec

\* What the code indexes and looks up without a check is there on every screen,
\* for every registry and every file: the type, the template, the focused
\* field, the option of an enum, the component to be removed (App::on_key).
THEOREM TypeCorrect == Spec => []TypeOK
<1>1. Typed => TypeOK
  BY ShapeScreen DEF Typed, TypeOK
<1> QED
  BY <1>1, Typeness, PTL

-----------------------------------------------------------------------------
(* What a screen keeps of the one before it.                               *)

\* A form changed in place: the rest of the screen is as it was.
LEMMA FormKept ==
  ASSUME Shape(screen), screen.kind \in FormScreens, NEW form
  PROVE  /\ WithForm(form).kind = screen.kind
         /\ WithForm(form).id = screen.id
         /\ screen.kind = "Edit" => WithForm(form).form = form
         /\ screen.kind = "OperatorEdit" =>
              /\ WithForm(form).form = screen.form
              /\ WithForm(form).index = screen.index
              /\ WithForm(form).op_form = form
<1>1. CASE screen.kind = "Edit"
  <2>1. screen = EditScreen(screen.tab, screen.id, screen.form)
    BY <1>1 DEF Shape, ComponentShape
  <2>2. WithForm(form) = EditScreen(screen.tab, screen.id, form)
    BY <1>1, <2>1 DEF EditScreen, WithForm
  <2> QED
    BY <1>1, <2>2 DEF EditScreen
<1>2. CASE screen.kind = "OperatorEdit"
  <2>1. screen = [kind |-> "OperatorEdit", tab |-> screen.tab,
                  id |-> screen.id, form |-> screen.form,
                  index |-> screen.index, op_form |-> screen.op_form]
    BY <1>2 DEF Shape, ComponentShape
  <2>2. WithForm(form) = [kind |-> "OperatorEdit", tab |-> screen.tab,
                          id |-> screen.id, form |-> screen.form,
                          index |-> screen.index, op_form |-> form]
    BY <1>2, <2>1 DEF WithForm
  <2> QED
    BY <1>2, <2>2
<1>3. CASE screen.kind = "EditTemplateParams"
  <2>1. screen = [kind |-> "EditTemplateParams",
                  template |-> screen.template, id |-> screen.id,
                  form |-> screen.form]
    BY <1>3 DEF Shape, TemplateShape
  <2>2. WithForm(form) = [kind |-> "EditTemplateParams",
                          template |-> screen.template, id |-> screen.id,
                          form |-> form]
    BY <1>3, <2>1 DEF WithForm
  <2> QED
    BY <1>3, <2>2
<1> QED
  BY <1>1, <1>2, <1>3 DEF FormScreens

\* A key on a form leaves a form of the same schema, with the same operators.
LEMMA FormKeys ==
  ASSUME Typed, MoveFocus \/ EditField
  PROVE  /\ screen.kind \in FormScreens
         /\ \E form : /\ screen' = WithForm(form)
                       /\ IsForm(form) /\ form.schema = Form.schema
                       /\ \A i \in OperatorFields(Form) :
                            form.fields[i] = Form.fields[i]
<1>1. screen.kind \in FormScreens /\ Shape(screen) /\ IsForm(Form)
  BY FormOnScreen DEF MoveFocus, EditField, AtAny, Typed
<1>2. CASE MoveFocus
  <2>1. PICK i \in {After(Form.focused, Len(Form.fields)),
                    Before(Form.focused, Len(Form.fields))} :
          screen' = WithForm([Form EXCEPT !.focused = i])
    BY <1>2 DEF MoveFocus, Goto
  <2>2. i \in DOMAIN Form.fields
    BY <1>1, Around, SequenceFacts DEF IsForm, FormOK
  <2> DEFINE new == [Form EXCEPT !.focused = i]
  <2>3. IsForm(new) /\ new.schema = Form.schema /\ new.fields = Form.fields
    BY <1>1, <2>2, Refocused
  <2>4. screen' = WithForm(new)
    BY <2>1
  <2> HIDE DEF new
  <2> QED
    BY <1>1, <2>3, <2>4
<1>3. CASE EditField
  <2> DEFINE at == Form.focused
  <2>1. PICK state \in Edited(FieldsOf[Form.schema][at], Form.fields[at]) :
          screen' = WithForm([Form EXCEPT !.fields[at] = state])
    BY <1>3 DEF EditField
  <2> DEFINE new == [Form EXCEPT !.fields[at] = state]
  <2>2. /\ IsForm(new) /\ new.schema = Form.schema
        /\ new.fields = [Form.fields EXCEPT ![at] = state]
    BY <1>1, EditedForm
  <2>3. at \notin OperatorFields(Form)
    <3>1. SUFFICES ASSUME at \in OperatorFields(Form)
                   PROVE  FALSE
      OBVIOUS
    <3>2. /\ FieldsOf[Form.schema][at].kind = "OperatorList"
          /\ Fits(FieldsOf[Form.schema][at], Form.fields[at])
      BY <1>1, <3>1 DEF OperatorFields, IsForm, FormOK
    <3>3. Form.fields[at][1] = "ops"
      BY <3>2 DEF Fits, WidgetOf
    <3> HIDE DEF at
    <3> QED
      BY <2>1, <3>3 DEF Edited
  <2>4. screen' = WithForm(new)
    BY <2>1
  <2>5. \A i \in OperatorFields(Form) : new.fields[i] = Form.fields[i]
    BY <2>2, <2>3 DEF OperatorFields
  <2> HIDE DEF at, new
  <2> QED
    BY <1>1, <2>2, <2>4, <2>5
<1> QED
  BY <1>2, <1>3

\* Screens that carry the name of a receiver to be inserted.
TemplateScreens == {"EditTemplateParams", "ReviewTemplateReceiver"}

LEMMA OverwriteStep ==
  ASSUME Typed, TemplateNeverOverwrites, [Next]_vars
  PROVE  TemplateNeverOverwrites'
<1>0. Shape(screen)
  BY DEF Typed
<1>1. CASE screen'.kind \notin TemplateScreens
  BY <1>1 DEF TemplateNeverOverwrites, TemplateScreens
<1>2. CASE UNCHANGED <<doc, screen>>
  BY <1>2 DEF TemplateNeverOverwrites
<1>3. CASE Help \/ Quit \/ Save \/ UNCHANGED vars
  BY <1>2, <1>3 DEF Help, Quit, Save, vars
<1>4. CASE Down \/ Up
  <2>1. screen'.kind = screen.kind /\ screen.kind \in ListScreens
    BY <1>4, SelectShape DEF Down, Up, AtAny
  <2> QED
    BY <1>1, <2>1 DEF ListScreens, TemplateScreens
<1>5. CASE Escape
  <2>1. screen' = Back /\ doc' = doc
    BY <1>5 DEF Escape, Goto
  <2>2. CASE screen.kind = "ReviewTemplateReceiver"
    <3>1. screen'.id = screen.id
      BY <2>1, <2>2 DEF Back, TemplateParams
    <3> QED
      BY <2>1, <2>2, <3>1 DEF TemplateNeverOverwrites
  <2>3. CASE screen.kind # "ReviewTemplateReceiver"
    <3>1. Back.kind \notin TemplateScreens
      BY <1>0, <1>5, <2>3
      DEF Shape, Kinds, ListScreens, FormScreens, Back, TopLevel, EditScreen,
          OperatorList, TemplateScreens, Escape
    <3> QED
      BY <1>1, <2>1, <3>1
  <2> QED
    BY <2>2, <2>3
<1>6. CASE MoveFocus \/ EditField
  <2>1. screen.kind \in FormScreens /\ \E form : screen' = WithForm(form)
    BY <1>6, FormKeys
  <2>2. screen'.kind = screen.kind /\ screen'.id = screen.id /\ doc' = doc
    BY <1>0, <1>6, <2>1, FormKept DEF MoveFocus, EditField, Goto
  <2> QED
    BY <2>2 DEF TemplateNeverOverwrites
<1>7. CASE Submit \/ ConfirmRemove \/ InsertReceiver
  BY <1>1, <1>7 DEF Submit, ConfirmRemove, InsertReceiver, Change, TopLevel, TemplateScreens
<1>8. CASE RemoveItem
  <2>1. screen'.kind \in {"TopLevel", "ConfirmRemove"}
    BY <1>8 DEF RemoveItem, Change, Goto, TopLevel
  <2> QED
    BY <1>1, <2>1 DEF TemplateScreens
<1>9. CASE NameTemplateReceiver
  <2>1. screen'.id \notin DOMAIN doc["Receivers"]
    <3>1. screen'.id = screen.input
      BY <1>9 DEF NameTemplateReceiver, OpenForm, TemplateParams
    <3>2. screen.input \notin DOMAIN doc["Receivers"]
      BY <1>9, Zenon DEF NameTemplateReceiver, Free
    <3> QED
      BY <3>1, <3>2
  <2> QED
    BY <1>9, <2>1 DEF TemplateNeverOverwrites, NameTemplateReceiver, OpenForm
<1>10. CASE SubmitParams
  BY <1>10 DEF SubmitParams, At, Goto, TemplateNeverOverwrites
<1>11. CASE Leading /\ ~ NameTemplateReceiver /\ ~ SubmitParams
  BY <1>1, <1>11, Leads DEF Leading, TemplateScreens
<1> QED
  BY <1>3, <1>4, <1>5, <1>6, <1>7, <1>8, <1>9, <1>10, <1>11 DEF Next, Leading

\* The name checked when a template receiver is named is still free when it
\* is inserted, whatever was typed, reviewed and gone back to in between: the
\* document does not change on these screens, and they hand the name on.
THEOREM TemplateCorrect == Spec => []TemplateNeverOverwrites
<1>1. Init => TemplateNeverOverwrites
  BY DEF Init, TopLevel, TemplateNeverOverwrites
<1>2. Typed /\ TemplateNeverOverwrites /\ [Next]_vars => TemplateNeverOverwrites'
  BY OverwriteStep
<1> QED
  BY <1>1, <1>2, Typeness, PTL DEF Spec

-----------------------------------------------------------------------------
(* Lists of operators, from the file through the forms and back.           *)

\* What a value holds under "operators", if it is an array, is a list.
HasList(value) ==
  LET leaf == get_path(value, "operators")
  IN  leaf[1] = "arr" => IsSequence(leaf[2])

\* Every build function of templates.rs writes its operators as a literal
\* list, whatever the parameters.
BuildsLists == \A key \in TemplateKeys : \A params : HasList(Build(key, params))

FormLists(form) ==
  \A i \in OperatorFields(form) : IsSequence(form.fields[i][2])

LEMMA EmptyIsSequence == IsSequence(<< >>) /\ Len(<< >>) = 0
BY DEF IsSequence

\* The operators field of a form is the one with that key.
LEMMA OperatorKey ==
  ASSUME NEW form, IsForm(form), NEW i \in DOMAIN form.fields
  PROVE  /\ i \in OperatorFields(form)
               <=> FieldsOf[form.schema][i].key = "operators"
         /\ i \in OperatorFields(form) => form.fields[i][1] = "ops"
<1>1. i \in DOMAIN FieldsOf[form.schema] /\ form.schema \in Schemas
  BY DEF IsForm, FormOK
<1>2. FieldsOf[form.schema][i].kind = "OperatorList"
        <=> FieldsOf[form.schema][i].key = "operators"
  BY <1>1, Registry
<1>3. Fits(FieldsOf[form.schema][i], form.fields[i])
  BY DEF IsForm, FormOK
<1> QED
  BY <1>2, <1>3 DEF OperatorFields, Fits, WidgetOf

LEMMA NewFormLists ==
  ASSUME NEW schema \in Schemas, NEW value, HasList(value)
  PROVE  FormLists(NewForm(schema, value))
<1> DEFINE form == NewForm(schema, value)
           leaf == get_path(value, "operators")
<1>1. IsForm(form) /\ form.schema = schema
  BY NewFormOK
<1>2. form.fields = OpenFields(FieldsOf[schema], value)
  BY DEF NewForm
<1>3. ASSUME NEW i \in OperatorFields(form)
      PROVE  IsSequence(form.fields[i][2])
  <2>1. i \in DOMAIN form.fields /\ i \in DOMAIN FieldsOf[schema]
    BY <1>1, <1>3 DEF OperatorFields, IsForm, FormOK
  <2>2. /\ FieldsOf[schema][i].kind = "OperatorList"
        /\ FieldsOf[schema][i].key = "operators"
    BY <1>1, <1>3, <2>1, OperatorKey DEF OperatorFields
  <2>3. form.fields[i] = field_edit_state_from(FieldsOf[schema][i], value)
    BY <1>2, <2>1, Zenon DEF OpenFields
  <2>4. form.fields[i] = OpsState(FieldsOf[schema][i], leaf)
    BY <2>2, <2>3 DEF field_edit_state_from
  <2>5. form.fields[i][2] = IF leaf[1] = "arr" THEN leaf[2] ELSE << >>
    BY <2>4 DEF OpsState
  <2> QED
    BY <2>5, EmptyIsSequence DEF HasList
<1> QED
  BY <1>3 DEF FormLists

\* What is written under a key is what one of the fields of that key writes.
LEMMA WrittenBySome ==
  ASSUME NEW fields, NEW states, NEW k \in DOMAIN WrittenFields(fields, states)
  PROVE  \E i \in DOMAIN fields :
           /\ fields[i].key = k
           /\ WrittenFields(fields, states)[k] = Written(fields[i], states[i])
<1> DEFINE Kept == {i \in DOMAIN fields : Written(fields[i], states[i]) # Missing}
           i == CHOOSE i \in Kept : fields[i].key = k
<1>1. k \in {fields[j].key : j \in Kept}
  BY Zenon DEF WrittenFields
<1>2. WrittenFields(fields, states)[k] = Written(fields[i], states[i])
  BY <1>1, Zenon DEF WrittenFields
<1> HIDE DEF Kept
<1>3. i \in Kept /\ fields[i].key = k
  BY <1>1, Zenon
<1> HIDE DEF i
<1>4. i \in DOMAIN fields
  BY <1>3 DEF Kept
<1> QED
  BY <1>2, <1>3, <1>4, Zenon

\* A field that is not skipped and has its key for itself is written.
LEMMA WrittenByOne ==
  ASSUME NEW fields, NEW states, NEW i \in DOMAIN fields,
         Written(fields[i], states[i]) # Missing,
         \A j \in DOMAIN fields : fields[j].key = fields[i].key => i = j
  PROVE  /\ fields[i].key \in DOMAIN WrittenFields(fields, states)
         /\ WrittenFields(fields, states)[fields[i].key]
              = Written(fields[i], states[i])
<1> DEFINE k == fields[i].key
           Kept == {j \in DOMAIN fields : Written(fields[j], states[j]) # Missing}
<1>1. i \in Kept
  OBVIOUS
<1>2. DOMAIN WrittenFields(fields, states) = {fields[j].key : j \in Kept}
  BY Zenon DEF WrittenFields
<1> HIDE DEF Kept, k
<1>3. fields[i].key \in DOMAIN WrittenFields(fields, states)
  BY <1>1, <1>2
<1>4. PICK j \in DOMAIN fields :
        /\ fields[j].key = fields[i].key
        /\ WrittenFields(fields, states)[fields[i].key]
             = Written(fields[j], states[j])
  BY <1>3, WrittenBySome, SMT
<1>5. j = i
  BY <1>4, Zenon
<1> QED
  BY <1>3, <1>4, <1>5, Zenon

\* A form that is not an operator's is written without a type.
LEMMA WrittenForm ==
  ASSUME NEW form, form.schema[1] # "Operator"
  PROVE  to_value(form) = WrittenFields(FieldsOf[form.schema], form.fields)
BY Zenon DEF to_value

LEMMA WrittenLists ==
  ASSUME NEW form, IsForm(form), FormLists(form),
         form.schema[1] # "Operator"
  PROVE  HasList(to_value(form))
<1>0. PICK fields, states, new :
        /\ fields = FieldsOf[form.schema] /\ states = form.fields
        /\ new = WrittenFields(fields, states)
  OBVIOUS
<1>1. to_value(form) = new
  BY <1>0, WrittenForm
<1>2. CASE "operators" \notin DOMAIN new
  BY <1>1, <1>2 DEF HasList, get_path, Missing
<1>3. CASE "operators" \in DOMAIN new
  <2>1. PICK i \in DOMAIN fields :
          /\ fields[i].key = "operators"
          /\ new["operators"] = Written(fields[i], states[i])
    BY <1>0, <1>3, WrittenBySome
  <2>2. i \in DOMAIN form.fields
    BY <1>0, <2>1 DEF IsForm, FormOK
  <2>3. states[i][1] = "ops" /\ IsSequence(states[i][2])
    BY <1>0, <2>1, <2>2, OperatorKey DEF FormLists
  <2>4. PICK leaf : leaf = Written(fields[i], states[i])
    OBVIOUS
  <2>5. leaf = IF states[i][2] = << >> THEN Missing ELSE <<"arr", states[i][2]>>
    BY <2>3, <2>4, Zenon DEF Written
  <2>6. get_path(to_value(form), "operators") = leaf
    BY <1>1, <1>3, <2>1, <2>4 DEF get_path
  <2>7. leaf[1] = "arr" => IsSequence(leaf[2])
    BY <2>3, <2>5 DEF Missing
  <2> QED
    BY <2>6, <2>7 DEF HasList
<1> QED
  BY <1>2, <1>3

LEMMA MinimalLists ==
  ASSUME NEW schema \in Schemas
  PROVE  HasList(minimal_value(FieldsOf[schema]))
<1> DEFINE fields == FieldsOf[schema]
           Required == {i \in DOMAIN fields : fields[i].required}
           First(k) == CHOOSE i \in Required : fields[i].key = k
           new == [k \in {fields[i].key : i \in Required} |->
                     Placeholder(fields[First(k)])]
<1>1. minimal_value(fields) = new
  BY DEF minimal_value
<1>2. CASE "operators" \notin DOMAIN new
  BY <1>1, <1>2 DEF HasList, get_path, Missing
<1>3. CASE "operators" \in DOMAIN new
  <2>1. PICK i \in Required : fields[i].key = "operators" /\ i = First("operators")
    BY <1>3
  <2>2. fields[i].kind = "OperatorList"
    BY <2>1, Registry
  <2>3. new["operators"] = Placeholder(fields[i])
    BY <1>3, <2>1
  <2>4. \/ Placeholder(fields[i]) = <<"arr", << >>>>
        \/ \E t : Placeholder(fields[i]) = <<"str", t>>
    BY <2>2 DEF Placeholder, Str
  <2>5. get_path(minimal_value(fields), "operators") = Placeholder(fields[i])
    BY <1>1, <1>3, <2>3 DEF get_path
  <2> HIDE DEF new, fields
  <2> QED
    BY <2>4, <2>5, EmptyIsSequence DEF HasList, fields
<1> QED
  BY <1>2, <1>3

\* A form that has operators: what they are, and what set_operators makes
\* of them.
LEMMA OperatorsOf ==
  ASSUME NEW form, OperatorFields(form) # {}
  PROVE  \E i \in OperatorFields(form) : operators(form) = form.fields[i][2]
BY DEF operators

LEMMA OperatorsSet ==
  ASSUME NEW form, IsForm(form), OperatorFields(form) # {}, NEW ops
  PROVE  /\ operators(set_operators(form, ops)) = ops
         /\ IsSequence(ops) => FormLists(set_operators(form, ops))
<1> DEFINE new == set_operators(form, ops)
<1>1. /\ OperatorFields(new) = OperatorFields(form)
      /\ \A i \in OperatorFields(new) : new.fields[i] = <<"ops", ops>>
  BY SetOperators
<1> HIDE DEF new
<1>2. operators(new) = ops
  BY <1>1, OperatorsOf
<1>3. IsSequence(ops) => FormLists(new)
  BY <1>1 DEF FormLists
<1> QED
  BY <1>2, <1>3 DEF new

LEMMA OperatorsList ==
  ASSUME NEW form, OperatorFields(form) # {}, FormLists(form)
  PROVE  IsSequence(operators(form)) /\ Len(operators(form)) \in Nat
         /\ DOMAIN operators(form) = 1..Len(operators(form))
<1>1. IsSequence(operators(form))
  BY OperatorsOf DEF FormLists
<1> QED
  BY <1>1, SequenceFacts

\* A form with the same operators.
LEMMA SameOperators ==
  ASSUME NEW form, NEW new, IsForm(form), IsForm(new),
         new.schema = form.schema,
         \A i \in OperatorFields(form) : new.fields[i] = form.fields[i]
  PROVE  /\ OperatorFields(new) = OperatorFields(form)
         /\ FormLists(form) => FormLists(new)
<1>1. DOMAIN new.fields = DOMAIN form.fields
  BY DEF IsForm, FormOK
<1>2. OperatorFields(new) = OperatorFields(form)
  BY <1>1 DEF OperatorFields
<1> QED
  BY <1>2 DEF FormLists

\* The three ways a list of operators changes.
LEMMA ReplaceInList ==
  ASSUME NEW s, IsSequence(s), NEW i \in DOMAIN s, NEW x
  PROVE  IsSequence([s EXCEPT ![i] = x]) /\ Len([s EXCEPT ![i] = x]) = Len(s)
<1> DEFINE new == [s EXCEPT ![i] = x]
<1>1. Len(s) \in Nat /\ DOMAIN s = 1..Len(s)
  BY SequenceFacts
<1>2. new = [j \in 1..Len(s) |-> new[j]]
  BY <1>1
<1> HIDE DEF new
<1>3. IsSequence(new) /\ Len(new) = Len(s)
  BY <1>1, <1>2, ListedIsSequence
<1> QED
  BY <1>3 DEF new

LEMMA SeqIsSequence ==
  ASSUME NEW S, NEW s \in Seq(S)
  PROVE  IsSequence(s)
<1>1. Len(s) \in Nat /\ s = [i \in 1..Len(s) |-> s[i]]
  OBVIOUS
<1> QED
  BY <1>1, ListedIsSequence

LEMMA AppendToList ==
  ASSUME NEW s, IsSequence(s), NEW x
  PROVE  IsSequence(Append(s, x)) /\ Len(Append(s, x)) = Len(s) + 1
<1> DEFINE S == ToSet(s) \union {x}
<1>1. s \in Seq(ToSet(s))
  BY DEF IsSequence
<1>2. s \in Seq(S) /\ x \in S
  BY <1>1
<1>3. Append(s, x) \in Seq(S) /\ Len(Append(s, x)) = Len(s) + 1
  BY <1>2
<1> QED
  BY <1>3, SeqIsSequence

LEMMA RemoveFromList ==
  ASSUME NEW s, IsSequence(s), NEW i \in 1..Len(s)
  PROVE  IsSequence(RemoveAt(s, i))
<1> DEFINE S == ToSet(s)
<1>1. s \in Seq(S)
  BY DEF IsSequence
<1> HIDE DEF S
<1>2. SubSeq(s, 1, i - 1) \in Seq(S) /\ SubSeq(s, i + 1, Len(s)) \in Seq(S)
  BY <1>1
<1>3. RemoveAt(s, i) \in Seq(S)
  BY <1>2 DEF RemoveAt
<1> QED
  BY <1>3, SeqIsSequence

-----------------------------------------------------------------------------
(* The lists in the document and on the screens.                           *)

DocLists(d) ==
  /\ \A tab \in Tabs : IsFiniteSet(DOMAIN d[tab])
  /\ \A tab \in Categories : \A id \in DOMAIN d[tab] : HasList(d[tab][id])

ComponentScreens == {"Edit", "OperatorList", "OperatorPickType", "OperatorEdit"}
ScreenLists(s) ==
  /\ s.kind \in ComponentScreens => FormLists(s.form)
  /\ s.kind = "ReviewTemplateReceiver" => HasList(s.receiver)

Listed == DocLists(doc) /\ ScreenLists(screen)

LEMMA WithLists ==
  ASSUME NEW d, DocOK(d), DocLists(d), NEW tab \in Tabs, NEW id, NEW value,
         tab \in Categories => HasList(value)
  PROVE  DocLists(With(d, tab, id, value))
<1> DEFINE new == With(d, tab, id, value)
<1>1. /\ DOMAIN new[tab] = DOMAIN d[tab] \union {id}
      /\ \A i \in DOMAIN new[tab] :
           new[tab][i] = IF i = id THEN value ELSE d[tab][i]
      /\ \A t \in Tabs \ {tab} : new[t] = d[t]
  BY DEF With, DocOK
<1>2. \A t \in Tabs : IsFiniteSet(DOMAIN d[t])
  BY DEF DocLists
<1>3. IsFiniteSet(DOMAIN d[tab] \union {id})
  BY <1>2, FS_AddElement
<1>4. \A t \in Categories : \A i \in DOMAIN d[t] : HasList(d[t][i])
  BY DEF DocLists
<1> HIDE DEF new
<1>5. \A t \in Tabs : IsFiniteSet(DOMAIN new[t])
  BY <1>1, <1>2, <1>3
<1>6. \A t \in Categories : \A i \in DOMAIN new[t] : HasList(new[t][i])
  BY <1>1, <1>4 DEF Tabs
<1> QED
  BY <1>5, <1>6 DEF DocLists, new

LEMMA WithoutLists ==
  ASSUME NEW d, DocOK(d), DocLists(d), NEW tab \in Tabs, NEW id
  PROVE  DocLists(Without(d, tab, id))
<1> DEFINE new == Without(d, tab, id)
<1>1. /\ DOMAIN new[tab] = DOMAIN d[tab] \ {id}
      /\ \A i \in DOMAIN new[tab] : new[tab][i] = d[tab][i]
      /\ \A t \in Tabs \ {tab} : new[t] = d[t]
  BY DEF Without, DocOK
<1>2. \A t \in Tabs : IsFiniteSet(DOMAIN d[t])
  BY DEF DocLists
<1>3. IsFiniteSet(DOMAIN d[tab] \ {id})
  BY <1>2, FS_RemoveElement
<1>4. \A t \in Categories : \A i \in DOMAIN d[t] : HasList(d[t][i])
  BY DEF DocLists
<1> HIDE DEF new
<1>5. \A t \in Tabs : IsFiniteSet(DOMAIN new[t])
  BY <1>1, <1>2, <1>3
<1>6. \A t \in Categories : \A i \in DOMAIN new[t] : HasList(new[t][i])
  BY <1>1, <1>4 DEF Tabs
<1> QED
  BY <1>5, <1>6 DEF DocLists, new

LEMMA StrippedLists ==
  ASSUME DocOK(doc), DocLists(doc), NEW tab, NEW id
  PROVE  DocLists(strip_from_pipelines(tab, id))
<1> DEFINE new == [doc EXCEPT !["Pipelines"] =
                     [p \in DOMAIN @ |-> Stripped(@[p], tab, id)]]
<1>1. /\ \A t \in Tabs : DOMAIN new[t] = DOMAIN doc[t]
      /\ \A t \in Categories : new[t] = doc[t]
  BY CategoryTabs DEF DocOK
<1> HIDE DEF new
<1>2. \A t \in Tabs : IsFiniteSet(DOMAIN doc[t])
  BY DEF DocLists
<1>3. \A t \in Categories : \A i \in DOMAIN doc[t] : HasList(doc[t][i])
  BY DEF DocLists
<1>4. DocLists(new)
  BY <1>1, <1>2, <1>3 DEF DocLists
<1> QED
  BY <1>4 DEF strip_from_pipelines, new

LEMMA DocumentLists ==
  ASSUME Typed, Listed, [Next]_vars
  PROVE  DocLists(doc')
<1>0. DocOK(doc) /\ Shape(screen) /\ DocLists(doc) /\ ScreenLists(screen)
  BY DEF Typed, Listed
<1>1. CASE Submit
  <2>1. /\ screen.kind = "Edit" /\ OfComponent(screen)
        /\ doc' = With(doc, screen.tab, screen.id, to_value(screen.form))
    BY <1>0, <1>1 DEF Submit, At, Change, Shape, ComponentShape
  <2>2. FormLists(screen.form)
    BY <1>0, <2>1 DEF ScreenLists, ComponentScreens
  <2>3. /\ screen.tab \in Tabs /\ IsForm(screen.form)
        /\ screen.form.schema[1] # "Operator"
    BY <2>1 DEF OfComponent, Tabs, Categories
  <2>4. HasList(to_value(screen.form))
    BY <2>2, <2>3, WrittenLists
  <2> QED
    BY <1>0, <2>1, <2>3, <2>4, WithLists
<1>2. CASE RemoveItem
  <2>1. \/ doc' = doc
        \/ \E id \in Ids : doc' = Without(doc, screen.tab, id)
    BY <1>2, Zenon DEF RemoveItem, Change, Goto
  <2>2. screen.tab \in Tabs
    BY <1>0, <1>2, ToTop DEF RemoveItem, MayBegin, At
  <2> QED
    BY <1>0, <2>1, <2>2, WithoutLists
<1>3. CASE ConfirmRemove
  <2>1. doc' = Without(strip_from_pipelines(screen.tab, screen.id),
                       screen.tab, screen.id)
    BY <1>3 DEF ConfirmRemove, Change
  <2>2. screen.tab \in Tabs
    BY <1>0, <1>3, ToTop DEF ConfirmRemove, At
  <2> QED
    BY <1>0, <2>1, <2>2, StrippedOK, StrippedLists, WithoutLists
<1>4. CASE InsertReceiver
  <2>1. doc' = With(doc, "Receivers", screen.id, screen.receiver)
        /\ HasList(screen.receiver)
    BY <1>0, <1>4 DEF InsertReceiver, At, Change, ScreenLists
  <2> QED
    BY <1>0, <2>1, CategoryTabs, WithLists
<1>5. CASE Help \/ Quit \/ Save \/ Down \/ Up \/ Escape \/ MoveFocus
             \/ EditField \/ UNCHANGED vars
  BY <1>0, <1>5
  DEF Help, Quit, Save, Down, Up, Escape, MoveFocus, EditField, Goto, vars
<1>6. CASE Leading
  BY <1>0, <1>6, NotRemoving DEF Still
<1> QED
  BY <1>1, <1>2, <1>3, <1>4, <1>5, <1>6 DEF Next, Leading

LEMMA PipelineForm ==
  ASSUME NEW form, IsForm(form), form.schema[1] = "Pipelines"
  PROVE  FormLists(form)
<1>1. DOMAIN form.fields = DOMAIN FieldsOf[form.schema]
      /\ FieldsOf[form.schema] = PIPELINE_FIELDS
  BY DEF IsForm, FormOK, FieldsOf
<1>2. \A i \in DOMAIN PIPELINE_FIELDS : PIPELINE_FIELDS[i].kind = "StringList"
  BY DEF PIPELINE_FIELDS, Field
<1>3. OperatorFields(form) = {}
  BY <1>1, <1>2 DEF OperatorFields
<1> QED
  BY <1>3 DEF FormLists

\* The selection moved: the rest of the screen is as it was.
LEMMA SelectedKept ==
  ASSUME NEW s, Shape(s), s.kind \in ListScreens, NEW n
  PROVE  LET new == [s EXCEPT !.selected = n]
         IN  /\ new.kind = s.kind /\ new.selected = n
             /\ s.kind \in {"TopLevel", "PickType"} => new.tab = s.tab
             /\ s.kind \in {"OperatorList", "OperatorPickType"} =>
                  new.form = s.form
<1>1. CASE s.kind \in {"TopLevel", "PickType"}
  <2>1. s = [kind |-> s.kind, tab |-> s.tab, selected |-> s.selected]
    BY <1>1 DEF Shape, ItemShape, TopLevel
  <2> QED
    BY <1>1, <2>1
<1>2. CASE s.kind \in {"OperatorList", "OperatorPickType"}
  <2>1. s = [kind |-> s.kind, tab |-> s.tab, id |-> s.id, form |-> s.form,
             selected |-> s.selected]
    BY <1>2 DEF Shape, ComponentShape, OperatorList
  <2> QED
    BY <1>2, <2>1
<1>3. CASE s.kind = "TemplateBrowse"
  <2>1. s = [kind |-> "TemplateBrowse", selected |-> s.selected]
    BY <1>3 DEF Shape, TemplateShape
  <2> QED
    BY <1>3, <2>1
<1> QED
  BY <1>1, <1>2, <1>3 DEF ListScreens

LEMMA BackLists ==
  ASSUME Shape(screen), screen.kind # "TopLevel", ScreenLists(screen)
  PROVE  ScreenLists(Back)
<1>1. CASE screen.kind \notin ComponentScreens \/ screen.kind = "Edit"
  <2>1. Back.kind \in {"TopLevel", "EditTemplateParams"}
    BY <1>1 DEF Shape, Kinds, ListScreens, FormScreens, ComponentScreens, Back,
                TopLevel, TemplateParams
  <2> QED
    BY <2>1 DEF ScreenLists, ComponentScreens
<1>2. CASE screen.kind \in {"OperatorList", "OperatorPickType", "OperatorEdit"}
  <2>1. IsForm(screen.form) /\ FormLists(screen.form)
    BY <1>2 DEF Shape, ComponentShape, OfComponent, ScreenLists, ComponentScreens
  <2>2. FormLists(advance_focus(screen.form))
    BY <2>1, Advanced, SameOperators
  <2>3. /\ Back.kind \in ComponentScreens
        /\ Back.form \in {screen.form, advance_focus(screen.form)}
    BY <1>2 DEF Back, EditScreen, OperatorList, ComponentScreens
  <2> QED
    BY <2>1, <2>2, <2>3 DEF ScreenLists, ComponentScreens
<1> QED
  BY <1>1, <1>2 DEF ComponentScreens

LEMMA FormStepLists ==
  ASSUME Typed, ScreenLists(screen), MoveFocus \/ EditField
  PROVE  ScreenLists(screen')
<1>0. Shape(screen) /\ IsForm(Form) /\ screen.kind \in FormScreens
  BY FormKeys, FormOnScreen DEF Typed
<1>1. PICK form : /\ screen' = WithForm(form) /\ IsForm(form)
                  /\ form.schema = Form.schema
                  /\ \A i \in OperatorFields(Form) :
                       form.fields[i] = Form.fields[i]
  BY FormKeys
<1>2. screen'.kind = screen.kind
  BY <1>0, <1>1, FormKept
<1>3. CASE screen.kind = "Edit"
  <2>1. FormLists(screen.form) /\ Form = screen.form
    BY <1>3 DEF ScreenLists, ComponentScreens, Form
  <2>2. FormLists(form) /\ screen'.form = form
    BY <1>0, <1>1, <1>3, <2>1, SameOperators, FormKept
  <2> QED
    BY <1>2, <1>3, <2>2 DEF ScreenLists
<1>4. CASE screen.kind = "OperatorEdit"
  <2>1. screen'.form = screen.form
    BY <1>0, <1>1, <1>4, FormKept
  <2> QED
    BY <1>2, <1>4, <2>1 DEF ScreenLists
<1>5. CASE screen.kind = "EditTemplateParams"
  BY <1>2, <1>5 DEF ScreenLists, ComponentScreens
<1> QED
  BY <1>0, <1>3, <1>4, <1>5 DEF FormScreens

\* A component's or a pipeline's form opens with its lists.
LEMMA OpenLists ==
  ASSUME Typed, Listed, OpenItem \/ NameItem
  PROVE  ScreenLists(screen')
<1>0. DocOK(doc) /\ Shape(screen) /\ DocLists(doc)
  BY DEF Typed, Listed
<1>1. CASE OpenItem
  <2>1. screen.tab \in Tabs
    BY <1>0, <1>1, ToTop DEF OpenItem, MayBegin, At
  <2>2. PICK id \in Ids :
          /\ id \in DOMAIN doc[screen.tab]
          /\ screen' = EditScreen(screen.tab, id,
               NewForm(SchemaFor(screen.tab, id), doc[screen.tab][id]))
    BY <1>1, Zenon DEF OpenItem, OpenForm, Selected
  <2> DEFINE form == NewForm(SchemaFor(screen.tab, id), doc[screen.tab][id])
  <2>3. /\ SchemaFor(screen.tab, id) \in Schemas
        /\ SchemaFor(screen.tab, id)[1] = screen.tab
    BY <2>1, SchemaOf
  <2>4. FormLists(form)
    <3>1. CASE screen.tab = "Pipelines"
      BY <2>3, <3>1, NewFormOK, PipelineForm
    <3>2. CASE screen.tab # "Pipelines"
      <4>1. HasList(doc[screen.tab][id])
        BY <1>0, <2>1, <2>2, <3>2, CategoryTabs DEF DocLists
      <4> QED
        BY <2>3, <4>1, NewFormLists
    <3> QED
      BY <3>1, <3>2
  <2> HIDE DEF form
  <2> QED
    BY <2>2, <2>4 DEF EditScreen, ScreenLists, form
<1>2. CASE NameItem
  <2> DEFINE schema == <<screen.tab, screen.type_name>>
             form == NewItem(screen.tab, screen.type_name)
  <2>1. schema \in Schemas /\ schema[1] = screen.tab
    BY <1>0, <1>2 DEF NameItem, At, Shape, ItemShape
  <2>2. screen' = EditScreen(screen.tab, screen.input, form)
    BY <1>2 DEF NameItem, OpenForm
  <2>3. FormLists(form)
    <3>1. CASE screen.tab = "Pipelines"
      <4>1. form = NewForm(schema, << >>)
        BY <3>1 DEF NewItem
      <4> QED
        BY <2>1, <3>1, <4>1, NewFormOK, PipelineForm
    <3>2. CASE screen.tab # "Pipelines"
      <4>1. form = NewForm(schema, minimal_value(FieldsOf[schema]))
        BY <3>2 DEF NewItem
      <4> QED
        BY <2>1, <4>1, MinimalLists, NewFormLists
    <3> QED
      BY <3>1, <3>2
  <2> HIDE DEF form
  <2> QED
    BY <2>2, <2>3 DEF EditScreen, ScreenLists
<1> QED
  BY <1>1, <1>2

\* The operator screens hand on the component's form, or one with a new list.
LEMMA OperatorLists ==
  ASSUME Typed, ScreenLists(screen), SelectionInRange,
         DrillDown \/ AddOperator \/ PickOperatorType \/ OpenOperator
           \/ DeleteOperator \/ SubmitOperator
  PROVE  ScreenLists(screen')
<1>0. /\ Shape(screen) /\ screen.kind \in ComponentScreens
      /\ FormLists(screen.form) /\ OfComponent(screen)
  BY DEF Typed, ScreenLists, ComponentScreens, DrillDown, AddOperator,
         PickOperatorType, OpenOperator, DeleteOperator, SubmitOperator, At,
         Shape, ComponentShape
<1>1. CASE DrillDown
  BY <1>0, <1>1 DEF DrillDown, Goto, OperatorList, ScreenLists
<1>2. CASE AddOperator
  <2>1. /\ screen.kind = "OperatorList"
        /\ screen = [OperatorList(screen, screen.form, screen.selected)
                       EXCEPT !.kind = screen.kind]
        /\ screen' = [screen EXCEPT !.kind = "OperatorPickType",
                                     !.selected = 1]
    BY <1>0, <1>2 DEF AddOperator, At, Goto, Shape, ComponentShape
  <2>2. screen'.kind = "OperatorPickType" /\ screen'.form = screen.form
    BY <2>1 DEF OperatorList
  <2> QED
    BY <1>0, <2>2 DEF ScreenLists
<1>3. CASE PickOperatorType
  <2>1. screen'.kind = "OperatorEdit" /\ screen'.form = screen.form
    BY <1>3 DEF PickOperatorType, Goto, OperatorEdit
  <2> QED
    BY <1>0, <2>1 DEF ScreenLists
<1>4. CASE OpenOperator
  <2>1. screen'.kind = "OperatorEdit" /\ screen'.form = screen.form
    BY <1>4 DEF OpenOperator, Goto, OperatorEdit
  <2> QED
    BY <1>0, <2>1 DEF ScreenLists
<1>5. CASE DeleteOperator \/ SubmitOperator
  <2>1. /\ OperatorFields(screen.form) # {} /\ IsForm(screen.form)
        /\ IsSequence(operators(screen.form))
        /\ Len(operators(screen.form)) \in Nat
        /\ DOMAIN operators(screen.form) = 1..Len(operators(screen.form))
    BY <1>0, <1>5, OperatorsList
    DEF DeleteOperator, SubmitOperator, At, Shape, ComponentShape, OfComponent
  <2> DEFINE old == operators(screen.form)
  <2>2. \E ops, n : /\ IsSequence(ops)
                    /\ screen' = OperatorList(screen,
                                   set_operators(screen.form, ops), n)
    <3>1. CASE DeleteOperator
      <4>1. screen.selected \in 1..Len(old)
        BY <2>1, <3>1
        DEF DeleteOperator, At, SelectionInRange, ListScreens, ListLength
      <4>2. IsSequence(RemoveAt(old, screen.selected))
        BY <2>1, <4>1, RemoveFromList
      <4> QED
        BY <3>1, <4>2, Zenon DEF DeleteOperator, ChangeOperators
    <3>2. CASE SubmitOperator
      <4>1. PICK op, i :
              \/ /\ i \in DOMAIN old
                 /\ screen' = OperatorList(screen,
                      set_operators(screen.form, [old EXCEPT ![i] = op]), i)
              \/ screen' = OperatorList(screen,
                   set_operators(screen.form, Append(old, op)), Len(old) + 1)
        BY <3>2, Zenon DEF SubmitOperator, ChangeOperators
      <4> HIDE DEF old
      <4> QED
        BY <2>1, <4>1, ReplaceInList, AppendToList DEF old
    <3> QED
      BY <1>5, <3>1, <3>2
  <2>3. PICK ops, n : /\ IsSequence(ops)
                      /\ screen' = OperatorList(screen,
                                     set_operators(screen.form, ops), n)
    BY <2>2
  <2>4. FormLists(set_operators(screen.form, ops))
    BY <2>1, <2>3, OperatorsSet
  <2> QED
    BY <2>3, <2>4 DEF OperatorList, ScreenLists
<1> QED
  BY <1>1, <1>2, <1>3, <1>4, <1>5

LEMMA ScreenStepLists ==
  ASSUME BuildsLists, Typed, Listed, SelectionInRange, [Next]_vars
  PROVE  ScreenLists(screen')
<1>0. Shape(screen) /\ ScreenLists(screen)
  BY DEF Typed, Listed
<1>1. CASE Help \/ Quit \/ Save \/ UNCHANGED vars
  BY <1>0, <1>1 DEF Help, Quit, Save, vars
<1>2. CASE Down \/ Up
  <2>1. screen.kind \in ListScreens /\ \E n : screen' = [screen EXCEPT !.selected = n]
    BY <1>2 DEF Down, Up, AtAny, Goto
  <2>2. /\ screen'.kind = screen.kind
        /\ screen.kind \in {"OperatorList", "OperatorPickType"}
             => screen'.form = screen.form
    BY <1>0, <2>1, SelectedKept
  <2> QED
    BY <1>0, <2>1, <2>2 DEF ScreenLists, ComponentScreens, ListScreens
<1>3. CASE Escape
  BY <1>0, <1>3, BackLists DEF Escape, Goto
<1>4. CASE Submit \/ ConfirmRemove \/ InsertReceiver \/ RemoveItem
  <2>1. screen'.kind \in {"TopLevel", "ConfirmRemove"}
    BY <1>4
    DEF Submit, ConfirmRemove, InsertReceiver, RemoveItem, Change, Goto, TopLevel
  <2> QED
    BY <2>1 DEF ScreenLists, ComponentScreens
<1>5. CASE SubmitParams
  <2>1. screen.template \in TemplateKeys
    BY <1>0, <1>5 DEF SubmitParams, At, Shape, TemplateShape
  <2>2. screen'.kind = "ReviewTemplateReceiver"
        /\ screen'.receiver = Build(screen.template, to_value(screen.form))
    BY <1>5 DEF SubmitParams, Goto
  <2>3. HasList(Build(screen.template, to_value(screen.form)))
    BY <2>1 DEF BuildsLists
  <2> QED
    BY <2>2, <2>3 DEF ScreenLists, ComponentScreens
<1>6. CASE SwitchTab \/ Add \/ PickType \/ TypeName \/ BrowseTemplates
             \/ PickTemplate \/ NameTemplateReceiver
  BY <1>6, Leads DEF ScreenLists, ComponentScreens
<1> QED
  BY <1>0, <1>1, <1>2, <1>3, <1>4, <1>5, <1>6, FormStepLists, OpenLists,
     OperatorLists DEF Next

-----------------------------------------------------------------------------
(* The selection, and the operator under edit.                             *)

LEMMA LengthIsNat ==
  ASSUME Typed, Listed, screen.kind \in ListScreens
  PROVE  ListLength \in Nat
<1>0. Shape(screen) /\ DocLists(doc) /\ ScreenLists(screen)
  BY DEF Typed, Listed
<1>1. CASE screen.kind = "TopLevel"
  <2>1. screen.tab \in Tabs
    BY <1>0, <1>1 DEF Shape, ItemShape
  <2>2. Cardinality(DOMAIN doc[screen.tab]) \in Nat
    BY <1>0, <2>1, FS_CardinalityType DEF DocLists
  <2> QED
    BY <1>1, <2>2 DEF ListLength
<1>2. CASE screen.kind = "PickType"
  <2>1. screen.tab \in Categories
    BY <1>0, <1>2 DEF Shape, ItemShape
  <2> QED
    BY <1>2, <2>1, Registry, SequenceFacts DEF ListLength, IsTable
<1>3. CASE screen.kind = "OperatorList"
  <2>1. OperatorFields(screen.form) # {} /\ FormLists(screen.form)
    BY <1>0, <1>3 DEF Shape, ComponentShape, ScreenLists, ComponentScreens
  <2> QED
    BY <1>3, <2>1, OperatorsList DEF ListLength
<1>4. CASE screen.kind = "OperatorPickType"
  BY <1>4, Registry, SequenceFacts DEF ListLength
<1>5. CASE screen.kind = "TemplateBrowse"
  BY <1>5, Registry, SequenceFacts DEF ListLength
<1> QED
  BY <1>1, <1>2, <1>3, <1>4, <1>5 DEF ListScreens

\* A key that moves the selection.
LEMMA MovedSelection ==
  ASSUME Typed, Listed, SelectionInRange, Down \/ Up
  PROVE  SelectionInRange'
<1>1. screen.kind \in ListScreens /\ Shape(screen) /\ doc' = doc
  BY DEF Typed, Down, Up, AtAny, Goto
<1>2. PICK n : /\ screen' = [screen EXCEPT !.selected = n]
               /\ \/ n = IF ListLength = 0 THEN 1
                         ELSE IF screen.selected < ListLength
                         THEN screen.selected + 1 ELSE ListLength
                  \/ n = IF screen.selected = 1 THEN 1 ELSE screen.selected - 1
  BY <1>1 DEF Down, Up, Goto
<1>3. /\ screen'.kind = screen.kind /\ screen'.selected = n
      /\ screen.kind \in {"TopLevel", "PickType"} => screen'.tab = screen.tab
      /\ screen.kind \in {"OperatorList", "OperatorPickType"}
           => screen'.form = screen.form
  BY <1>1, <1>2, SelectedKept
<1>4. ListLength' = ListLength
  BY <1>1, <1>3 DEF ListLength, ListScreens
<1>5. ListLength \in Nat
  BY <1>1, LengthIsNat
<1>6. screen.selected = 1 \/ screen.selected \in 1..ListLength
  BY <1>1 DEF SelectionInRange
<1>7. n = 1 \/ n \in 1..ListLength
  BY <1>2, <1>5, <1>6
<1> QED
  BY <1>3, <1>4, <1>7 DEF SelectionInRange

LEMMA EscapedSelection ==
  ASSUME Typed, Listed, EditedOperatorInPlace, Escape
  PROVE  SelectionInRange'
<1>0. Shape(screen) /\ ScreenLists(screen) /\ screen' = Back
      /\ screen.kind # "TopLevel"
  BY DEF Typed, Listed, Escape, Goto
<1>1. CASE screen'.kind \notin ListScreens \/ screen'.selected = 1
  BY <1>1 DEF SelectionInRange
<1>2. CASE screen.kind = "OperatorEdit" /\ screen.index # None
  <2>1. /\ OperatorFields(screen.form) # {} /\ FormLists(screen.form)
        /\ screen.index[1] \in DOMAIN operators(screen.form)
    BY <1>0, <1>2
    DEF Shape, ComponentShape, ScreenLists, ComponentScreens,
        EditedOperatorInPlace
  <2>2. /\ screen'.kind = "OperatorList" /\ screen'.form = screen.form
        /\ screen'.selected = screen.index[1]
    BY <1>0, <1>2 DEF Back, OperatorList, UnwrapOr
  <2>3. screen'.selected \in 1..Len(operators(screen.form))
    BY <2>1, <2>2, OperatorsList
  <2> QED
    BY <2>2, <2>3 DEF SelectionInRange, ListLength
<1>3. CASE screen.kind = "OperatorEdit" /\ screen.index = None
  BY <1>0, <1>1, <1>3 DEF Back, OperatorList, UnwrapOr
<1>4. CASE screen.kind # "OperatorEdit"
  <2>1. Back.kind \notin ListScreens \/ Back.selected = 1
    BY <1>0, <1>4
    DEF Shape, Kinds, ListScreens, FormScreens, Back, TopLevel, OperatorList,
        EditScreen, TemplateParams
  <2> QED
    BY <1>0, <1>1, <2>1
<1> QED
  BY <1>2, <1>3, <1>4

LEMMA SubmittedSelection ==
  ASSUME Typed, Listed, SubmitOperator
  PROVE  SelectionInRange'
<1>0. /\ screen.kind = "OperatorEdit" /\ IsForm(screen.form)
      /\ OperatorFields(screen.form) # {} /\ FormLists(screen.form)
  BY DEF SubmitOperator, At, Typed, Listed, Shape, ComponentShape, OfComponent,
         ScreenLists, ComponentScreens
<1> DEFINE old == operators(screen.form)
<1>1. /\ IsSequence(old) /\ Len(old) \in Nat /\ DOMAIN old = 1..Len(old)
  BY <1>0, OperatorsList
<1>2. PICK op, i :
        \/ /\ i \in DOMAIN old
           /\ screen' = OperatorList(screen,
                set_operators(screen.form, [old EXCEPT ![i] = op]), i)
        \/ screen' = OperatorList(screen,
             set_operators(screen.form, Append(old, op)), Len(old) + 1)
  BY Zenon DEF SubmitOperator, ChangeOperators
<1> HIDE DEF old
<1>3. PICK ops, n : /\ screen' = OperatorList(screen,
                                   set_operators(screen.form, ops), n)
                    /\ n \in 1..Len(ops)
  <2>1. CASE /\ i \in DOMAIN old
             /\ screen' = OperatorList(screen,
                  set_operators(screen.form, [old EXCEPT ![i] = op]), i)
    <3>1. i \in 1..Len([old EXCEPT ![i] = op])
      BY <1>1, <2>1, ReplaceInList
    <3> QED
      BY <2>1, <3>1
  <2>2. CASE screen' = OperatorList(screen,
               set_operators(screen.form, Append(old, op)), Len(old) + 1)
    <3>1. Len(old) + 1 \in 1..Len(Append(old, op))
      BY <1>1, AppendToList
    <3> QED
      BY <2>2, <3>1
  <2> QED
    BY <1>2, <2>1, <2>2
<1>4. operators(set_operators(screen.form, ops)) = ops
  BY <1>0, OperatorsSet
<1>5. /\ screen'.kind = "OperatorList" /\ screen'.selected = n
      /\ screen'.form = set_operators(screen.form, ops)
  BY <1>3 DEF OperatorList
<1>6. ListLength' = Len(ops)
  BY <1>4, <1>5 DEF ListLength
<1> QED
  BY <1>3, <1>5, <1>6 DEF SelectionInRange

LEMMA SelectionStep ==
  ASSUME Typed, Listed, SelectionInRange, EditedOperatorInPlace, [Next]_vars
  PROVE  SelectionInRange'
<1>1. CASE screen'.kind \notin ListScreens \/ screen'.selected = 1
  BY <1>1 DEF SelectionInRange
<1>2. CASE Help \/ Quit \/ Save \/ UNCHANGED vars
  <2>1. UNCHANGED <<doc, screen>>
    BY <1>2 DEF Help, Quit, Save, vars
  <2> QED
    BY <2>1 DEF SelectionInRange, ListLength
<1>3. CASE MoveFocus \/ EditField
  BY <1>1, <1>3, FormShape, FormKeys DEF ListScreens, FormScreens
<1>4. CASE Submit \/ ConfirmRemove \/ InsertReceiver
  BY <1>1, <1>4 DEF Submit, ConfirmRemove, InsertReceiver, Change, TopLevel
<1>5. CASE RemoveItem
  <2>1. screen'.kind = "ConfirmRemove" \/ screen'.selected = 1
    BY <1>5 DEF RemoveItem, Change, Goto, TopLevel
  <2> QED
    BY <1>1, <2>1 DEF ListScreens
<1>6. CASE SwitchTab \/ DrillDown \/ DeleteOperator
  BY <1>1, <1>6
  DEF SwitchTab, DrillDown, DeleteOperator, ChangeOperators, Goto, TopLevel,
      OperatorList
<1>7. CASE Add
  <2>1. screen'.kind = "NameNew" \/ screen'.selected = 1
    BY <1>7, Zenon DEF Add, Goto
  <2> QED
    BY <1>1, <2>1 DEF ListScreens
<1>8. CASE BrowseTemplates
  BY <1>1, <1>8 DEF BrowseTemplates, Goto
<1>9. CASE AddOperator
  <2>1. /\ Shape(screen) /\ screen.kind = "OperatorList"
        /\ screen' = [screen EXCEPT !.kind = "OperatorPickType",
                                     !.selected = 1]
    BY <1>9 DEF Typed, AddOperator, At, Goto
  <2>2. screen = [kind |-> "OperatorList", tab |-> screen.tab,
                  id |-> screen.id, form |-> screen.form,
                  selected |-> screen.selected]
    BY <2>1 DEF Shape, ComponentShape, OperatorList
  <2>3. screen'.selected = 1
    BY <2>1, <2>2
  <2> QED
    BY <1>1, <2>3
<1>10. CASE OpenItem \/ NameItem \/ PickType \/ TypeName \/ PickTemplate
              \/ NameTemplateReceiver \/ SubmitParams \/ PickOperatorType
              \/ OpenOperator
  BY <1>1, <1>10, Leads DEF ListScreens
<1> QED
  BY <1>2, <1>3, <1>4, <1>5, <1>6, <1>7, <1>8, <1>9, <1>10, MovedSelection,
     EscapedSelection, SubmittedSelection DEF Next

LEMMA InPlaceStep ==
  ASSUME Typed, Listed, SelectionInRange, EditedOperatorInPlace, [Next]_vars
  PROVE  EditedOperatorInPlace'
<1>0. Shape(screen)
  BY DEF Typed
<1>1. CASE screen'.kind # "OperatorEdit"
  BY <1>1 DEF EditedOperatorInPlace
<1>2. CASE Help \/ Quit \/ Save \/ UNCHANGED vars
  BY <1>2 DEF Help, Quit, Save, vars, EditedOperatorInPlace
<1>3. CASE Down \/ Up
  BY <1>1, <1>3, SelectShape DEF Down, Up, AtAny, ListScreens
<1>4. CASE Escape
  <2>1. Back.kind # "OperatorEdit"
    BY <1>0, <1>4
    DEF Escape, Shape, Kinds, ListScreens, FormScreens, Back, TopLevel,
        OperatorList, EditScreen, TemplateParams
  <2> QED
    BY <1>1, <1>4, <2>1 DEF Escape, Goto
<1>5. CASE MoveFocus \/ EditField
  <2>1. PICK form : screen' = WithForm(form) /\ form.schema = Form.schema
    BY <1>5, FormKeys
  <2>2. screen.kind \in FormScreens /\ screen'.kind = screen.kind
    BY <1>5, FormShape, FormKeys
  <2>3. CASE screen.kind = "OperatorEdit"
    <3>1. /\ screen'.form = screen.form /\ screen'.index = screen.index
          /\ screen'.op_form.schema = screen.op_form.schema
      BY <1>0, <2>1, <2>2, <2>3, FormKept DEF Form
    <3> QED
      BY <2>2, <2>3, <3>1 DEF EditedOperatorInPlace
  <2> QED
    BY <1>1, <2>2, <2>3
<1>6. CASE Submit \/ ConfirmRemove \/ InsertReceiver \/ RemoveItem
  <2>1. screen'.kind \in {"TopLevel", "ConfirmRemove"}
    BY <1>6
    DEF Submit, ConfirmRemove, InsertReceiver, RemoveItem, Change, Goto, TopLevel
  <2> QED
    BY <1>1, <2>1
<1>7. CASE PickOperatorType
  <2>1. screen'.index = None
    BY <1>7 DEF PickOperatorType, Goto, OperatorEdit
  <2> QED
    BY <2>1 DEF EditedOperatorInPlace
<1>8. CASE OpenOperator
  <2> DEFINE ops == operators(screen.form)
             op == ops[screen.selected]
  <2>1. /\ screen.kind = "OperatorList" /\ screen.selected <= Len(ops)
        /\ OperatorFields(screen.form) # {} /\ FormLists(screen.form)
    BY <1>0, <1>8
    DEF OpenOperator, At, ListLength, Shape, ComponentShape, Listed,
        ScreenLists, ComponentScreens
  <2>2. Len(ops) \in Nat /\ DOMAIN ops = 1..Len(ops)
    BY <2>1, OperatorsList
  <2>3. screen.selected \in DOMAIN ops
    BY <2>1, <2>2 DEF SelectionInRange, ListScreens, ListLength
  <2>4. screen' = OperatorEdit(<<"Operator", OperatorTypeOf(op)>>, op[2],
                               Some(screen.selected))
    BY <1>8 DEF OpenOperator, Goto
  <2>5. /\ screen'.form = screen.form
        /\ screen'.index[1] = screen.selected
        /\ screen'.op_form.schema[2] = OperatorTypeOf(op)
    BY <2>4 DEF OperatorEdit, NewForm, Some
  <2> QED
    BY <2>3, <2>5 DEF EditedOperatorInPlace
<1>9. CASE Leading /\ ~ PickOperatorType /\ ~ OpenOperator
  BY <1>1, <1>9, Leads DEF Leading
<1> QED
  BY <1>2, <1>3, <1>4, <1>5, <1>6, <1>7, <1>8, <1>9 DEF Next, Leading

Inv == Typed /\ Listed /\ SelectionInRange /\ EditedOperatorInPlace

LEMMA InvInit ==
  ASSUME Init
  PROVE  Inv
<1>1. screen = TopLevel("Receivers", 1)
  BY DEF Init
<1>2. SelectionInRange /\ EditedOperatorInPlace /\ ScreenLists(screen)
  BY <1>1
  DEF TopLevel, SelectionInRange, EditedOperatorInPlace, ScreenLists,
      ComponentScreens
<1>3. doc = disk.sections /\ disk \in Files
  BY DEF Init, Loaded
<1>4. DocLists(doc)
  <2>1. \A tab \in Tabs :
          /\ IsFiniteSet(DOMAIN doc[tab])
          /\ \A id \in DOMAIN doc[tab] : HasList(doc[tab][id])
    <3> TAKE tab \in Tabs
    <3>1. IsFiniteSet(DOMAIN doc[tab])
      BY <1>3, FilesAssumption
    <3>2. ASSUME NEW id \in DOMAIN doc[tab]
          PROVE  HasList(doc[tab][id])
      BY <1>3, FilesAssumption DEF HasList, get_path, Missing
    <3> QED
      BY <3>1, <3>2
  <2> QED
    BY <2>1 DEF DocLists, Tabs
<1> QED
  BY <1>2, <1>4, InitTyped DEF Inv, Listed

LEMMA Invariance ==
  ASSUME BuildsLists
  PROVE  Spec => []Inv
<1>1. Init => Inv
  BY InvInit
<1>2. Inv /\ [Next]_vars => Inv'
  BY TypedStep, DocumentLists, ScreenStepLists, SelectionStep, InPlaceStep
  DEF Inv, Listed
<1> QED
  BY <1>1, <1>2, PTL DEF Spec

\* The highlighted row of a list screen is one of the list, or the first of an
\* empty one: also after removals, cancelled forms and operator edits, when the
\* program takes the position from an operator form (`selected`).
THEOREM SelectionCorrect ==
  ASSUME BuildsLists
  PROVE  Spec => []SelectionInRange
<1>1. Inv => SelectionInRange
  BY DEF Inv
<1> QED
  BY <1>1, Invariance, PTL

\* However long an operator is under edit, the index it was opened with names
\* the same operator of the same type: `ops[i] = value` replaces that one.
THEOREM InPlaceCorrect ==
  ASSUME BuildsLists
  PROVE  Spec => []EditedOperatorInPlace
<1>1. Inv => EditedOperatorInPlace
  BY DEF Inv
<1> QED
  BY <1>1, Invariance, PTL

-----------------------------------------------------------------------------
(* Lists put together from pieces: FlattenSeq appends them one by one.     *)

LEMMA CountUp ==
  ASSUME NEW n \in Nat, NEW T, n > 0 => 1 \in T,
         \A i \in 1..n : i \in T /\ i < n => i + 1 \in T
  PROVE  1..n \subseteq T
<1> SUFFICES ASSUME (1..n) \ T # {}
             PROVE  FALSE
  OBVIOUS
<1>1. PICK i \in (1..n) \ T :
        \A j \in (1..n) \ T : ~ <<j, i>> \in OpToRel(<, Nat)
  <2>1. (1..n) \ T \subseteq Nat
    OBVIOUS
  <2> QED
    BY <2>1, NatLessThanWellFounded, WFMin
<1>2. i - 1 \in 1..n /\ i - 1 < i /\ (i - 1) + 1 = i /\ i - 1 < n
  OBVIOUS
<1>3. <<i - 1, i>> \in OpToRel(<, Nat)
  BY <1>2 DEF OpToRel
<1> QED
  BY <1>1, <1>2, <1>3

\* f[i] is the first i pieces of q, one after the other.
Joins(f, q, n) == f = [i \in 1..n |-> IF i = 1 THEN q[i] ELSE f[i - 1] \o q[i]]

LEMMA JoinsExists ==
  ASSUME NEW q, NEW n \in Nat \ {0}
  PROVE  \E f : Joins(f, q, n)
<1> DEFINE T == {m \in 1..n : \E f : Joins(f, q, m)}
<1>1. 1 \in T
  <2> DEFINE f == [i \in 1..1 |-> q[i]]
  <2>1. Joins(f, q, 1)
    BY DEF Joins
  <2> QED
    BY <2>1
<1>2. ASSUME NEW m \in 1..n, m \in T, m < n
      PROVE  m + 1 \in T
  <2>1. PICK f : Joins(f, q, m)
    BY <1>2
  <2> DEFINE g == [i \in 1..(m + 1) |->
                     IF i = m + 1 THEN f[m] \o q[m + 1] ELSE f[i]]
  <2>2. \A i \in 1..m : f[i] = IF i = 1 THEN q[i] ELSE f[i - 1] \o q[i]
    BY <2>1, Zenon DEF Joins
  <2>3. \A i \in 1..(m + 1) :
          g[i] = IF i = 1 THEN q[i] ELSE g[i - 1] \o q[i]
    <3> TAKE i \in 1..(m + 1)
    <3>1. CASE i = m + 1
      <4>1. i # 1 /\ i - 1 = m /\ m \in 1..(m + 1) /\ m # m + 1
        BY <1>2, <3>1
      <4>2. g[i] = f[m] \o q[m + 1] /\ g[m] = f[m]
        BY <3>1, <4>1
      <4> HIDE DEF g
      <4> QED
        BY <3>1, <4>1, <4>2
    <3>2. CASE i # m + 1
      <4>1. i \in 1..m /\ (i # 1 => i - 1 \in 1..m /\ i - 1 # m + 1)
        BY <1>2, <3>2
      <4> QED
        BY <2>2, <3>2, <4>1
    <3> QED
      BY <3>1, <3>2
  <2>4. Joins(g, q, m + 1)
    <3>1. g = [i \in 1..(m + 1) |-> g[i]]
      OBVIOUS
    <3> HIDE DEF g
    <3> QED
      BY <2>3, <3>1, Zenon DEF Joins
  <2> QED
    BY <1>2, <2>4
<1>3. 1..n \subseteq T
  BY <1>1, <1>2, CountUp
<1> QED
  BY <1>3

Flattens(f, q, n) ==
  /\ FlattenSeq(q) = f[n] /\ f[1] = q[1]
  /\ \A i \in 1..n : i # 1 => f[i] = f[i - 1] \o q[i]

LEMMA Flattening ==
  ASSUME NEW q, NEW n \in Nat \ {0}, Len(q) = n
  PROVE  \E f : Flattens(f, q, n)
<1> DEFINE f == CHOOSE f : Joins(f, q, n)
<1>1. Joins(f, q, n)
  BY JoinsExists
<1>2. FlattenSeq(q) = f[n]
  BY Zenon DEF FlattenSeq, Joins
<1> HIDE DEF f
<1>3. \A i \in 1..n : f[i] = IF i = 1 THEN q[i] ELSE f[i - 1] \o q[i]
  BY <1>1, Zenon DEF Joins
<1>4. f[1] = q[1]
  <2>1. 1 \in 1..n
    OBVIOUS
  <2> QED
    BY <1>3, <2>1, Zenon
<1>5. \A i \in 1..n : i # 1 => f[i] = f[i - 1] \o q[i]
  BY <1>3, Zenon
<1>6. Flattens(f, q, n)
  BY <1>2, <1>4, <1>5, Zenon DEF Flattens
<1> QED
  BY <1>6

LEMMA FlattenedIn ==
  ASSUME NEW S, NEW n \in Nat, NEW q \in [1..n -> Seq(S)]
  PROVE  FlattenSeq(q) \in Seq(S)
<1>1. Len(q) = n /\ q \in Seq(Seq(S))
  OBVIOUS
<1>2. CASE n = 0
  BY <1>1, <1>2 DEF FlattenSeq
<1>3. CASE n # 0
  <2>1. PICK f : Flattens(f, q, n)
    BY <1>1, <1>3, Flattening
  <2> DEFINE T == {i \in 1..n : f[i] \in Seq(S)}
  <2>2. 1 \in T
    BY <1>3, <2>1 DEF Flattens
  <2>3. ASSUME NEW i \in 1..n, i \in T, i < n
        PROVE  i + 1 \in T
    <3>1. i + 1 \in 1..n /\ i + 1 # 1 /\ (i + 1) - 1 = i
      BY <2>3
    <3>2. f[i] \in Seq(S) /\ q[i + 1] \in Seq(S)
      BY <2>3, <3>1
    <3>3. f[i + 1] = f[i] \o q[i + 1]
      BY <2>1, <3>1 DEF Flattens
    <3>4. f[i + 1] \in Seq(S)
      BY <3>2, <3>3, ConcatProperties, Zenon
    <3> QED
      BY <3>1, <3>4
  <2>4. 1..n \subseteq T
    BY <2>2, <2>3, CountUp
  <2> QED
    BY <1>3, <2>1, <2>4 DEF Flattens
<1> QED
  BY <1>2, <1>3

\* Pieces of one element each.
LEMMA FlattenedOnes ==
  ASSUME NEW n \in Nat, NEW v, v = [i \in 1..n |-> v[i]]
  PROVE  FlattenSeq([i \in 1..n |-> <<v[i]>>]) = v
<1> DEFINE q == [i \in 1..n |-> <<v[i]>>]
           S == {v[i] : i \in 1..n}
<1>1. Len(q) = n /\ \A i \in 1..n : q[i] = <<v[i]>>
  OBVIOUS
<1> HIDE DEF q
<1>2. CASE n = 0
  BY <1>2 DEF FlattenSeq, q
<1>3. CASE n # 0
  <2>1. PICK f : Flattens(f, q, n)
    BY <1>1, <1>3, Flattening
  <2> DEFINE T == {i \in 1..n : f[i] = [j \in 1..i |-> v[j]]}
  <2>2. 1 \in T
    <3>1. f[1] = <<v[1]>> /\ 1 \in 1..n
      BY <1>1, <1>3, <2>1 DEF Flattens
    <3>2. <<v[1]>> = [j \in 1..1 |-> v[j]]
      OBVIOUS
    <3> QED
      BY <3>1, <3>2
  <2>3. ASSUME NEW i \in 1..n, i \in T, i < n
        PROVE  i + 1 \in T
    <3>1. i + 1 \in 1..n /\ i + 1 # 1 /\ (i + 1) - 1 = i
      BY <2>3
    <3>2. f[i + 1] = [j \in 1..i |-> v[j]] \o <<v[i + 1]>>
      <4>1. f[i] = [j \in 1..i |-> v[j]]
        BY <2>3
      <4>2. q[i + 1] = <<v[i + 1]>>
        BY <1>1, <3>1, Zenon
      <4>3. f[i + 1] = f[(i + 1) - 1] \o q[i + 1]
        BY <2>1, <3>1, Zenon DEF Flattens
      <4> QED
        BY <3>1, <4>1, <4>2, <4>3, Zenon
    <3>3. [j \in 1..i |-> v[j]] \o <<v[i + 1]>> = [j \in 1..(i + 1) |-> v[j]]
      <4> DEFINE s == [j \in 1..i |-> v[j]]
                 t == s \o <<v[i + 1]>>
      <4>0. s \in [1..i -> S] /\ v[i + 1] \in S /\ i \in Nat
        BY <3>1
      <4>1. s \in Seq(S) /\ <<v[i + 1]>> \in Seq(S) /\ Len(s) = i
        <5> HIDE DEF S, s
        <5> QED
          BY <4>0
      <4>2. Len(t) = i + 1 /\ t \in Seq(S)
        BY <4>1
      <4>3. \A j \in 1..(i + 1) : t[j] = v[j]
        BY <4>1
      <4>4. t = [j \in 1..(i + 1) |-> t[j]]
        BY <4>2
      <4> HIDE DEF t
      <4> QED
        BY <4>3, <4>4 DEF t
    <3> QED
      BY <3>1, <3>2, <3>3
  <2>4. 1..n \subseteq T
    BY <2>2, <2>3, CountUp
  <2>5. f[n] = [j \in 1..n |-> v[j]]
    BY <1>3, <2>4
  <2> QED
    BY <2>1, <2>5 DEF q, Flattens
<1> QED
  BY <1>2, <1>3 DEF q

\* What is left of a list without x is a list, and x is not in it.
LEMMA OthersListed ==
  ASSUME NEW list, IsSequence(list), NEW x
  PROVE  /\ IsSequence(Others(list, x))
         /\ \A i \in DOMAIN Others(list, x) :
              Others(list, x)[i] # x /\ Others(list, x)[i] \in ToSet(list)
<1> DEFINE S == ToSet(list) \ {x}
           n == Len(list)
           q == [i \in DOMAIN list |->
                   IF list[i] = x THEN << >> ELSE <<list[i]>>]
<1>1. n \in Nat /\ DOMAIN list = 1..n
  BY SequenceFacts
<1>2. q \in [1..n -> Seq(S)]
  <2>1. \A i \in 1..n : list[i] # x => list[i] \in S
    BY <1>1 DEF ToSet
  <2> HIDE DEF S, n
  <2>2. ASSUME NEW i \in 1..n
        PROVE  (IF list[i] = x THEN << >> ELSE <<list[i]>>) \in Seq(S)
    BY <2>1
  <2> QED
    BY <1>1, <2>2
<1>3. Others(list, x) = FlattenSeq(q)
  BY Zenon DEF Others
<1> HIDE DEF S, n, q
<1>4. Others(list, x) \in Seq(S)
  BY <1>1, <1>2, <1>3, FlattenedIn
<1>5. \A i \in DOMAIN Others(list, x) : Others(list, x)[i] \in S
  BY <1>4
<1> QED
  BY <1>4, <1>5, SeqIsSequence DEF S

LEMMA OthersSame ==
  ASSUME NEW list, IsSequence(list), NEW x,
         \A i \in DOMAIN list : list[i] # x
  PROVE  Others(list, x) = list
<1> DEFINE n == Len(list)
<1>1. n \in Nat /\ DOMAIN list = 1..n /\ list = [i \in 1..n |-> list[i]]
  BY SequenceFacts
<1>2. [i \in DOMAIN list |-> IF list[i] = x THEN << >> ELSE <<list[i]>>]
        = [i \in 1..n |-> <<list[i]>>]
  BY <1>1
<1>3. Others(list, x) = FlattenSeq([i \in 1..n |-> <<list[i]>>])
  BY <1>2, Zenon DEF Others
<1> HIDE DEF n
<1> QED
  BY <1>1, <1>3, FlattenedOnes

\* Every text splits into a list of pieces.
SplitsToLists == \A text : IsSequence(Pieces(text))

LEMMA PiecesListed ==
  ASSUME SplitsToLists, NEW arr, IsSequence(arr)
  PROVE  IsSequence(PiecesOf(arr))
<1> DEFINE n == Len(arr)
           piece(i) == IF IsStr(arr[i]) THEN Pieces(arr[i][2]) ELSE << >>
           q == [i \in DOMAIN arr |-> piece(i)]
           S == UNION {ToSet(piece(i)) : i \in DOMAIN arr}
<1>1. n \in Nat /\ DOMAIN arr = 1..n
  BY SequenceFacts
<1>2. \A i \in DOMAIN arr : IsSequence(piece(i))
  BY EmptyIsSequence DEF SplitsToLists
<1> HIDE DEF piece
<1>3. ASSUME NEW i \in DOMAIN arr
      PROVE  piece(i) \in Seq(S)
  <2>1. piece(i) \in Seq(ToSet(piece(i))) /\ ToSet(piece(i)) \subseteq S
    BY <1>2 DEF IsSequence
  <2> HIDE DEF S
  <2> QED
    BY <2>1
<1>4. q \in [1..n -> Seq(S)]
  BY <1>1, <1>3
<1>5. PiecesOf(arr) = FlattenSeq(q)
  BY Zenon DEF PiecesOf, piece
<1> HIDE DEF n, q, S
<1> QED
  BY <1>1, <1>4, <1>5, FlattenedIn, SeqIsSequence

\* Texts of one piece each.
LEMMA PiecesSame ==
  ASSUME NEW arr, IsSequence(arr),
         \A i \in DOMAIN arr :
           IsStr(arr[i]) /\ Pieces(arr[i][2]) = <<arr[i][2]>>
  PROVE  PiecesOf(arr) = [i \in DOMAIN arr |-> arr[i][2]]
<1> DEFINE n == Len(arr)
           texts == [i \in DOMAIN arr |-> arr[i][2]]
<1>1. n \in Nat /\ DOMAIN arr = 1..n
  BY SequenceFacts
<1>2. /\ texts = [i \in 1..n |-> texts[i]]
      /\ \A i \in 1..n : texts[i] = arr[i][2]
  BY <1>1
<1> HIDE DEF texts, n
<1>3. [i \in DOMAIN arr |-> IF IsStr(arr[i]) THEN Pieces(arr[i][2]) ELSE << >>]
        = [i \in 1..n |-> <<texts[i]>>]
  BY <1>1, <1>2
<1>4. PiecesOf(arr) = FlattenSeq([i \in 1..n |-> <<texts[i]>>])
  BY <1>3, Zenon DEF PiecesOf
<1> QED
  BY <1>1, <1>2, <1>4, FlattenedOnes DEF texts

-----------------------------------------------------------------------------
(* The component under edit: its form stays, whatever screens it is edited *)
(* on, but for the fields that are touched.                                *)

\* What a key may do to the i-th field of a form.
FieldKept(form, new, i) ==
  LET f == FieldsOf[form.schema][i]
  IN  \/ new.fields[i] = form.fields[i]
      \/ /\ f.key \in touched'
         /\ \/ f.kind = "OperatorList"
            \/ new.fields[i] \in Edited(f, form.fields[i])

FormCarried(form, new) ==
  /\ new.schema = form.schema /\ DOMAIN new.fields = DOMAIN form.fields
  /\ touched \subseteq touched'
  /\ \A i \in DOMAIN form.fields : FieldKept(form, new, i)

Carried ==
  /\ screen.kind \in ComponentScreens
  /\ screen'.tab = screen.tab /\ screen'.id = screen.id
  /\ FormCarried(screen.form, screen'.form)

LEMMA SameForm ==
  ASSUME NEW form, NEW new, new.schema = form.schema,
         new.fields = form.fields, touched' = touched
  PROVE  FormCarried(form, new)
BY DEF FormCarried, FieldKept

\* A key on the component's form itself.
LEMMA EditCarries ==
  ASSUME Typed, screen.kind = "Edit", MoveFocus \/ EditField
  PROVE  Carried
<1>1. /\ Shape(screen) /\ screen = EditScreen(screen.tab, screen.id, screen.form)
      /\ Form = screen.form /\ IsForm(screen.form)
  BY DEF Typed, Shape, ComponentShape, OfComponent, Form
<1>2. \A form : WithForm(form) = EditScreen(screen.tab, screen.id, form)
  BY <1>1 DEF EditScreen, WithForm
<1>3. ASSUME NEW form, screen' = WithForm(form), FormCarried(screen.form, form)
      PROVE  Carried
  BY <1>2, <1>3 DEF Carried, EditScreen, ComponentScreens
<1>4. CASE MoveFocus
  <2>1. PICK i \in {After(Form.focused, Len(Form.fields)),
                    Before(Form.focused, Len(Form.fields))} :
          screen' = WithForm([Form EXCEPT !.focused = i]) /\ touched' = touched
    BY <1>4 DEF MoveFocus, Goto
  <2>2. i \in DOMAIN Form.fields
    BY <1>1, Around, SequenceFacts DEF IsForm, FormOK
  <2> DEFINE new == [Form EXCEPT !.focused = i]
  <2>3. new.schema = Form.schema /\ new.fields = Form.fields
    BY <1>1, <2>2, Refocused
  <2>4. screen' = WithForm(new) /\ touched' = touched
    BY <2>1
  <2> HIDE DEF new
  <2>5. FormCarried(screen.form, new)
    BY <1>1, <2>3, <2>4, SameForm
  <2> QED
    BY <1>3, <2>4, <2>5
<1>5. CASE EditField
  <2> DEFINE at == Form.focused
  <2>1. PICK state \in Edited(FieldsOf[Form.schema][at], Form.fields[at]) :
          screen' = WithForm([Form EXCEPT !.fields[at] = state])
    BY <1>5 DEF EditField
  <2>2. touched' = touched \union {FieldsOf[Form.schema][at].key}
    BY <1>5 DEF EditField
  <2> DEFINE new == [Form EXCEPT !.fields[at] = state]
  <2>3. /\ new.schema = Form.schema
        /\ new.fields = [Form.fields EXCEPT ![at] = state]
    BY <1>1, EditedForm
  <2>4. screen' = WithForm(new)
    BY <2>1
  <2> HIDE DEF at, new
  <2>5. ASSUME NEW i \in DOMAIN Form.fields
        PROVE  FieldKept(Form, new, i)
    <3>1. CASE i = at
      BY <2>1, <2>2, <2>3, <3>1 DEF FieldKept
    <3>2. CASE i # at
      BY <2>3, <3>2 DEF FieldKept
    <3> QED
      BY <3>1, <3>2
  <2>6. FormCarried(Form, new)
    BY <2>2, <2>3, <2>5 DEF FormCarried
  <2> QED
    BY <1>1, <1>3, <2>4, <2>6
<1> QED
  BY <1>4, <1>5

\* A key on the form of one of its operators.
LEMMA OperatorFormCarries ==
  ASSUME Typed, screen.kind = "OperatorEdit", MoveFocus \/ EditField
  PROVE  Carried
<1>1. screen = [kind |-> "OperatorEdit", tab |-> screen.tab,
                id |-> screen.id, form |-> screen.form,
                index |-> screen.index, op_form |-> screen.op_form]
  BY DEF Typed, Shape, ComponentShape
<1>2. touched' = touched /\ \E form : screen' = WithForm(form)
  BY DEF MoveFocus, EditField, Goto
<1>3. PICK form : screen' = [kind |-> "OperatorEdit", tab |-> screen.tab,
                             id |-> screen.id, form |-> screen.form,
                             index |-> screen.index, op_form |-> form]
  BY <1>1, <1>2 DEF WithForm
<1>4. screen'.tab = screen.tab /\ screen'.id = screen.id
      /\ screen'.form = screen.form
  BY <1>3
<1> QED
  BY <1>2, <1>4, SameForm DEF Carried, ComponentScreens

LEMMA OperatorsCarry ==
  ASSUME Typed,
         DrillDown \/ AddOperator \/ PickOperatorType \/ OpenOperator
           \/ DeleteOperator \/ SubmitOperator
  PROVE  Carried
<1>0. /\ Shape(screen) /\ screen.kind \in ComponentScreens
      /\ OfComponent(screen) /\ IsForm(screen.form)
  BY DEF Typed, ComponentScreens, DrillDown, AddOperator,
         PickOperatorType, OpenOperator, DeleteOperator, SubmitOperator, At,
         Shape, ComponentShape, OfComponent
<1>1. CASE DrillDown
  <2>1. /\ screen'.tab = screen.tab /\ screen'.id = screen.id
        /\ screen'.form = screen.form /\ touched' = touched
    BY <1>1 DEF DrillDown, Goto, OperatorList
  <2> QED
    BY <1>0, <2>1, SameForm DEF Carried
<1>2. CASE AddOperator
  <2>1. /\ screen.kind = "OperatorList"
        /\ screen = [OperatorList(screen, screen.form, screen.selected)
                       EXCEPT !.kind = screen.kind]
        /\ screen' = [screen EXCEPT !.kind = "OperatorPickType",
                                     !.selected = 1]
        /\ touched' = touched
    BY <1>0, <1>2 DEF AddOperator, At, Goto, Shape, ComponentShape
  <2>2. /\ screen'.tab = screen.tab /\ screen'.id = screen.id
        /\ screen'.form = screen.form
    BY <2>1 DEF OperatorList
  <2> QED
    BY <1>0, <2>1, <2>2, SameForm DEF Carried
<1>3. CASE PickOperatorType \/ OpenOperator
  <2>1. /\ screen'.tab = screen.tab /\ screen'.id = screen.id
        /\ screen'.form = screen.form /\ touched' = touched
    BY <1>3 DEF PickOperatorType, OpenOperator, Goto, OperatorEdit
  <2> QED
    BY <1>0, <2>1, SameForm DEF Carried
<1>4. CASE DeleteOperator \/ SubmitOperator
  <2>1. \E ops, n : ChangeOperators(ops, n)
    BY <1>4, Zenon DEF DeleteOperator, SubmitOperator
  <2>2. PICK ops, n : ChangeOperators(ops, n)
    BY <2>1
  <2> DEFINE new == set_operators(screen.form, ops)
  <2>3. /\ screen'.tab = screen.tab /\ screen'.id = screen.id
        /\ screen'.form = new /\ touched' = touched \union {"operators"}
    BY <2>2 DEF ChangeOperators, OperatorList
  <2>4. new.schema = screen.form.schema
        /\ new.fields = [i \in DOMAIN screen.form.fields |->
                           IF i \in OperatorFields(screen.form)
                           THEN <<"ops", ops>> ELSE screen.form.fields[i]]
    BY <1>0 DEF set_operators, IsForm
  <2> HIDE DEF new
  <2>5. ASSUME NEW i \in DOMAIN screen.form.fields
        PROVE  FieldKept(screen.form, new, i)
    <3>1. CASE i \in OperatorFields(screen.form)
      <4>1. /\ FieldsOf[screen.form.schema][i].kind = "OperatorList"
            /\ FieldsOf[screen.form.schema][i].key = "operators"
        BY <1>0, <3>1, OperatorKey DEF OperatorFields
      <4> QED
        BY <2>3, <4>1 DEF FieldKept
    <3>2. CASE i \notin OperatorFields(screen.form)
      BY <2>4, <3>2 DEF FieldKept
    <3> QED
      BY <3>1, <3>2
  <2>6. FormCarried(screen.form, new)
    BY <2>3, <2>4, <2>5 DEF FormCarried
  <2> QED
    BY <1>0, <2>3, <2>6 DEF Carried
<1> QED
  BY <1>1, <1>2, <1>3, <1>4

LEMMA BackCarries ==
  ASSUME Typed, Escape, screen'.kind \in ComponentScreens
  PROVE  Carried
<1>0. Shape(screen) /\ screen' = Back /\ touched' = touched
      /\ screen.kind # "TopLevel"
  BY DEF Typed, Escape, Goto
<1>1. screen.kind \in {"OperatorList", "OperatorPickType", "OperatorEdit"}
  <2>1. CASE screen.kind \notin {"OperatorList", "OperatorPickType",
                                "OperatorEdit"}
    <3>1. Back.kind \in {"TopLevel", "EditTemplateParams"}
      BY <1>0, <2>1
      DEF Shape, Kinds, ListScreens, FormScreens, Back, TopLevel, TemplateParams
    <3> QED
      BY <1>0, <3>1 DEF ComponentScreens
  <2> QED
    BY <2>1
<1>2. IsForm(screen.form)
  BY <1>0, <1>1 DEF Shape, ComponentShape, OfComponent
<1>3. /\ screen'.tab = screen.tab /\ screen'.id = screen.id
      /\ screen'.form \in {screen.form, advance_focus(screen.form)}
  BY <1>0, <1>1 DEF Back, EditScreen, OperatorList
<1>4. FormCarried(screen.form, screen'.form)
  BY <1>0, <1>2, <1>3, Advanced, SameForm
<1> QED
  BY <1>1, <1>3, <1>4 DEF Carried, ComponentScreens

\* Unless it is opened, a component on screen was on screen before.
LEMMA ComponentStep ==
  ASSUME Typed, [Next]_vars, screen'.kind \in ComponentScreens,
         ~ OpenItem, ~ NameItem
  PROVE  Carried /\ doc' = doc
<1>0. Shape(screen)
  BY DEF Typed
<1>1. CASE Help \/ Quit \/ Save \/ UNCHANGED vars
  <2>1. UNCHANGED <<doc, screen, touched>>
    BY <1>1 DEF Help, Quit, Save, vars
  <2> QED
    BY <2>1, SameForm DEF Carried
<1>2. CASE Down \/ Up
  <2>1. /\ screen.kind \in ListScreens /\ UNCHANGED <<doc, touched>>
        /\ \E n : screen' = [screen EXCEPT !.selected = n]
    BY <1>2 DEF Down, Up, AtAny, Goto
  <2>2. screen'.kind = screen.kind
    BY <1>0, <2>1, SelectedKept
  <2>3. screen.kind \in {"OperatorList", "OperatorPickType"}
    BY <2>1, <2>2 DEF ListScreens, ComponentScreens
  <2>4. screen = [kind |-> screen.kind, tab |-> screen.tab, id |-> screen.id,
                  form |-> screen.form, selected |-> screen.selected]
    BY <1>0, <2>3 DEF Shape, ComponentShape, OperatorList
  <2>5. /\ screen'.tab = screen.tab /\ screen'.id = screen.id
        /\ screen'.form = screen.form
    BY <2>1, <2>4
  <2> QED
    BY <2>1, <2>3, <2>5, SameForm DEF Carried, ComponentScreens
<1>3. CASE Escape
  BY <1>3, BackCarries DEF Escape, Goto
<1>4. CASE MoveFocus \/ EditField
  <2>1. screen.kind \in FormScreens /\ \E form : screen' = WithForm(form)
    BY <1>4, FormKeys
  <2>2. screen'.kind = screen.kind
    BY <1>0, <2>1, FormKept
  <2>3. screen.kind \in {"Edit", "OperatorEdit"}
    BY <2>1, <2>2 DEF FormScreens, ComponentScreens
  <2>4. doc' = doc
    BY <1>4 DEF MoveFocus, EditField, Goto
  <2> QED
    BY <1>4, <2>3, <2>4, EditCarries, OperatorFormCarries
<1>5. CASE Submit \/ ConfirmRemove \/ InsertReceiver \/ RemoveItem
  <2>1. screen'.kind \in {"TopLevel", "ConfirmRemove"}
    BY <1>5
    DEF Submit, ConfirmRemove, InsertReceiver, RemoveItem, Change, Goto, TopLevel
  <2> QED
    BY <2>1 DEF ComponentScreens
<1>6. CASE SwitchTab \/ Add \/ PickType \/ TypeName \/ BrowseTemplates
             \/ PickTemplate \/ NameTemplateReceiver \/ SubmitParams
  BY <1>6, Leads DEF ComponentScreens
<1>7. CASE DrillDown \/ AddOperator \/ PickOperatorType \/ OpenOperator
             \/ DeleteOperator \/ SubmitOperator
  <2>1. doc' = doc
    BY <1>7
    DEF DrillDown, AddOperator, PickOperatorType, OpenOperator, DeleteOperator,
        SubmitOperator, ChangeOperators, Goto
  <2> QED
    BY <1>7, <2>1, OperatorsCarry
<1> QED
  BY <1>1, <1>2, <1>3, <1>4, <1>5, <1>6, <1>7 DEF Next

-----------------------------------------------------------------------------
(* A field that is left alone comes back as it was.                        *)

\* What is on screen of a component that is in the document.
Pristine ==
  screen.kind \in ComponentScreens /\ screen.id \in DOMAIN doc[screen.tab] =>
    \A i \in DOMAIN screen.form.fields :
      LET f == FieldsOf[screen.form.schema][i]
      IN  f.key \notin touched =>
            screen.form.fields[i]
              = field_edit_state_from(f, doc[screen.tab][screen.id])

LEMMA PristineStep ==
  ASSUME Typed, Pristine, [Next]_vars
  PROVE  Pristine'
<1>0. Shape(screen) /\ DocOK(doc)
  BY DEF Typed
<1>1. CASE screen'.kind \notin ComponentScreens
  BY <1>1 DEF Pristine
<1>2. CASE OpenItem
  <2>1. screen.tab \in Tabs
    BY <1>0, <1>2, ToTop DEF OpenItem, MayBegin, At
  <2>2. PICK id \in Ids :
          /\ screen' = EditScreen(screen.tab, id,
               NewForm(SchemaFor(screen.tab, id), doc[screen.tab][id]))
          /\ doc' = doc
    BY <1>2, Zenon DEF OpenItem, OpenForm
  <2> DEFINE schema == SchemaFor(screen.tab, id)
             value == doc[screen.tab][id]
             form == NewForm(schema, value)
  <2>3. /\ screen'.tab = screen.tab /\ screen'.id = id /\ screen'.form = form
    BY <2>2 DEF EditScreen
  <2>4. form.schema = schema /\ form.fields = OpenFields(FieldsOf[schema], value)
    BY DEF NewForm
  <2>5. DOMAIN form.fields = DOMAIN FieldsOf[schema]
        /\ \A i \in DOMAIN FieldsOf[schema] :
             form.fields[i] = field_edit_state_from(FieldsOf[schema][i], value)
    BY <2>4, Zenon DEF OpenFields
  <2> HIDE DEF form, schema
  <2> QED
    BY <2>2, <2>3, <2>4, <2>5 DEF Pristine
<1>3. CASE NameItem
  <2>1. /\ screen'.tab = screen.tab /\ screen'.id = screen.input /\ doc' = doc
        /\ screen.input \notin DOMAIN doc[screen.tab]
    BY <1>3, Zenon DEF NameItem, OpenForm, EditScreen, Free
  <2> QED
    BY <2>1 DEF Pristine
<1>4. CASE screen'.kind \in ComponentScreens /\ ~ OpenItem /\ ~ NameItem
  <2>1. Carried /\ doc' = doc
    BY <1>4, ComponentStep
  <2>2. /\ screen.kind \in ComponentScreens
        /\ screen'.tab = screen.tab /\ screen'.id = screen.id
        /\ screen'.form.schema = screen.form.schema
        /\ DOMAIN screen'.form.fields = DOMAIN screen.form.fields
        /\ touched \subseteq touched'
        /\ \A i \in DOMAIN screen.form.fields :
             \/ screen'.form.fields[i] = screen.form.fields[i]
             \/ FieldsOf[screen.form.schema][i].key \in touched'
    BY <2>1 DEF Carried, FormCarried, FieldKept
  <2> QED
    BY <2>1, <2>2 DEF Pristine
<1> QED
  BY <1>1, <1>2, <1>3, <1>4

\* From a leaf to a widget and back.
LEMMA RoundTrip ==
  ASSUME NEW f, NEW value, f.key \in DOMAIN value,
         Ordinary(f, value[f.key]), f.kind = "Enum" => IsTable(f.options)
  PROVE  Written(f, field_edit_state_from(f, value)) = value[f.key]
<1> DEFINE leaf == value[f.key]
           state == field_edit_state_from(f, value)
<1>0. get_path(value, f.key) = leaf
  BY DEF get_path
<1>1. CASE f.kind = "Enum"
  <2>1. state = EnumState(f, leaf)
    BY <1>0, <1>1 DEF field_edit_state_from
  <2>2. PICK i \in DOMAIN f.options : leaf = Str(f.options[i])
    BY <1>1 DEF Ordinary
  <2>3. IsStr(leaf) /\ leaf[2] = f.options[i]
    BY <2>2 DEF Str, IsStr
  <2>4. f.options[OptionIndex(f.options, leaf[2])] = leaf[2]
    BY <2>3 DEF OptionIndex
  <2>5. state = <<"enum", OptionIndex(f.options, leaf[2])>>
    BY <2>1, <2>3, Zenon DEF EnumState
  <2>6. state[1] = "enum" /\ state[2] = OptionIndex(f.options, leaf[2])
    BY <2>5
  <2> HIDE DEF leaf, state
  <2>7. Written(f, state) = Str(f.options[state[2]])
    BY <2>6, Zenon DEF Written
  <2> QED
    BY <2>2, <2>3, <2>4, <2>6, <2>7 DEF leaf, state
<1>2. CASE f.kind = "Bool"
  <2>1. state = BoolState(f, leaf)
    BY <1>0, <1>2 DEF field_edit_state_from
  <2>2. leaf = <<"bool", leaf[2]>>
    BY <1>2 DEF Ordinary
  <2>3. state = <<"bool", leaf[2]>> /\ state[1] = "bool"
    BY <2>1, <2>2 DEF BoolState
  <2> HIDE DEF leaf, state
  <2>4. Written(f, state) = state
    BY <2>3, Zenon DEF Written
  <2> QED
    BY <2>2, <2>3, <2>4 DEF leaf, state
<1>3. CASE f.kind = "OperatorList"
  <2>1. state = OpsState(f, leaf)
    BY <1>0, <1>3 DEF field_edit_state_from
  <2>2. leaf = <<"arr", leaf[2]>> /\ leaf[2] # << >>
    BY <1>3 DEF Ordinary
  <2>3. state[1] = "ops" /\ state[2] = leaf[2]
    BY <2>1, <2>2 DEF OpsState
  <2> HIDE DEF leaf, state
  <2>4. Written(f, state) = <<"arr", state[2]>>
    BY <2>2, <2>3, Zenon DEF Written
  <2> QED
    BY <2>2, <2>3, <2>4 DEF leaf, state
<1>4. CASE f.kind = "StringList"
  <2> DEFINE arr == leaf[2]
             texts == [i \in DOMAIN arr |-> arr[i][2]]
  <2>1. state = ListState(f, leaf)
    BY <1>0, <1>4 DEF field_edit_state_from
  <2>2. /\ leaf = <<"arr", arr>> /\ IsSequence(arr) /\ arr # << >>
        /\ \A i \in DOMAIN arr :
             arr[i] = Str(arr[i][2]) /\ Pieces(arr[i][2]) = <<arr[i][2]>>
    BY <1>4, Zenon DEF Ordinary, IsTable
  <2>3. PICK blank : /\ \A i \in DOMAIN arr : arr[i][2] # blank
                     /\ \A s : s[1] = "list" =>
                          Written(f, s) =
                            LET items == Others(s[2], blank)
                            IN  IF items = << >> THEN Missing ELSE Strs(items)
    <3>1. \A i \in DOMAIN arr : arr[i][2] # ""
      BY <1>4, Zenon DEF Ordinary
    <3>2. ASSUME NEW s, s[1] = "list"
          PROVE  Written(f, s) =
                   LET items == Others(s[2], "")
                   IN  IF items = << >> THEN Missing ELSE Strs(items)
      BY <3>2, Zenon DEF Written
    <3> QED
      BY <3>1, <3>2, Zenon
  <2>4. \A i \in DOMAIN arr : IsStr(arr[i]) /\ arr[i] = Str(arr[i][2])
    <3>1. \A t : IsStr(Str(t))
      BY DEF IsStr, Str
    <3> QED
      BY <2>2, <3>1, Zenon
  <2>5. PiecesOf(arr) = texts
    BY <2>2, <2>4, PiecesSame
  <2>6. Len(arr) \in Nat /\ DOMAIN arr = 1..Len(arr) /\ 1 \in DOMAIN arr
        /\ arr = [i \in 1..Len(arr) |-> arr[i]]
    BY <2>2, SequenceFacts
  <2>7. IsSequence(texts) /\ DOMAIN texts = DOMAIN arr
        /\ \A i \in DOMAIN arr : texts[i] = arr[i][2]
    <3>1. texts = [i \in 1..Len(arr) |-> texts[i]]
      BY <2>6
    <3> QED
      BY <2>6, <3>1, ListedIsSequence
  <2>8. Others(texts, blank) = texts
    <3> HIDE DEF texts, arr
    <3> QED
      BY <2>3, <2>7, OthersSame
  <2>9. state[1] = "list" /\ state[2] = texts
    <3>1. state = <<"list", PiecesOf(arr)>>
      BY <2>1, <2>2 DEF ListState
    <3> QED
      BY <2>5, <3>1
  <2>10. texts # << >>
    <3> HIDE DEF texts, arr
    <3> QED
      BY <2>6, <2>7
  <2> HIDE DEF state, texts, arr, leaf
  <2>11. Written(f, state) = Strs(texts)
    BY <2>3, <2>8, <2>9, <2>10
  <2>12. [i \in DOMAIN texts |-> Str(texts[i])] = arr
    BY <2>4, <2>6, <2>7
  <2> QED
    BY <2>2, <2>11, <2>12 DEF Strs, state, leaf
<1>5. CASE f.kind \notin {"Enum", "Bool", "OperatorList", "StringList"}
  <2>1. state = TextState(f, leaf)
    BY <1>0, <1>5 DEF field_edit_state_from
  <2>2. leaf = Str(leaf[2])
    BY <1>5, Zenon DEF Ordinary
  <2>3. PICK blank : leaf # Str(blank) /\ \A s : s[1] = "text" =>
          Written(f, s) = IF s[2] = blank THEN Missing ELSE Str(s[2])
    <3>1. leaf # Str("")
      BY <1>5, Zenon DEF Ordinary
    <3>2. \A s : s[1] = "text" =>
            Written(f, s) = IF s[2] = "" THEN Missing ELSE Str(s[2])
      BY Zenon DEF Written
    <3> QED
      BY <3>1, <3>2, Zenon
  <2>4. leaf[1] = "str" /\ leaf # Missing
    BY <2>2 DEF Str, Missing
  <2>5. PICK t : state = <<"text", IF leaf = Missing THEN t ELSE Shown(leaf)>>
    BY <2>1, Zenon DEF TextState
  <2>6. Shown(leaf) = leaf[2]
    BY <2>4 DEF Shown
  <2>7. state[1] = "text" /\ state[2] = leaf[2]
    BY <2>4, <2>5, <2>6
  <2> HIDE DEF state, leaf
  <2> QED
    BY <2>2, <2>3, <2>7 DEF state, leaf
<1> QED
  BY <1>1, <1>2, <1>3, <1>4, <1>5

\* An ordinary leaf is a leaf.
LEMMA OrdinaryIsThere ==
  ASSUME NEW f, NEW leaf, Ordinary(f, leaf)
  PROVE  leaf # Missing
<1>1. \/ \E x : leaf = Str(x)
      \/ \E x : leaf = <<"bool", x>>
      \/ \E x : leaf = <<"arr", x>>
  BY Zenon DEF Ordinary
<1> QED
  BY <1>1 DEF Str, Missing

\* What the two ways to change a document do to it.
LEMMA WithFacts ==
  ASSUME NEW d, DocOK(d), NEW tab \in Tabs, NEW id, NEW value
  PROVE  LET new == With(d, tab, id, value)
         IN  /\ DOMAIN new[tab] = DOMAIN d[tab] \union {id}
             /\ \A i \in DOMAIN new[tab] :
                  new[tab][i] = IF i = id THEN value ELSE d[tab][i]
             /\ \A t \in Tabs \ {tab} : new[t] = d[t]
BY DEF With, DocOK

LEMMA WithoutFacts ==
  ASSUME NEW d, DocOK(d), NEW tab \in Tabs, NEW id
  PROVE  LET new == Without(d, tab, id)
         IN  /\ DOMAIN new[tab] = DOMAIN d[tab] \ {id}
             /\ \A i \in DOMAIN new[tab] : new[tab][i] = d[tab][i]
             /\ \A t \in Tabs \ {tab} : new[t] = d[t]
BY DEF Without, DocOK

\* One field of a component that is submitted.
LEMMA FieldBack ==
  ASSUME Typed, Pristine, Submit, screen.id \in DOMAIN doc[screen.tab],
         NEW fields, FieldsOf[screen.form.schema] = fields,
         NEW old, doc[screen.tab][screen.id] = old,
         NEW i \in DOMAIN fields, NEW f, fields[i] = f,
         f.key \in DOMAIN old, f.key \notin touched, Ordinary(f, old[f.key])
  PROVE  \E new : /\ doc'[screen.tab][screen.id] = new
                  /\ f.key \in DOMAIN new /\ new[f.key] = old[f.key]
<1>1. PICK form, states : screen.form = form /\ form.fields = states
  OBVIOUS
<1>2. /\ screen.kind = "Edit" /\ OfComponent(screen) /\ DocOK(doc)
      /\ doc' = With(doc, screen.tab, screen.id, to_value(form))
  BY <1>1 DEF Typed, Submit, At, Change, Shape, ComponentShape
<1>3. /\ screen.tab \in Tabs /\ form.schema \in Schemas
      /\ form.schema[1] # "Operator" /\ DOMAIN states = DOMAIN fields
  BY <1>1, <1>2 DEF OfComponent, IsForm, FormOK, Tabs, Categories
<1>4. PICK value : to_value(form) = value
  OBVIOUS
<1>5. doc'[screen.tab][screen.id] = value
  BY <1>2, <1>3, <1>4, WithFacts
<1>6. value = WrittenFields(fields, states)
  BY <1>1, <1>3, <1>4, WrittenForm
<1>7. states[i] = field_edit_state_from(f, old)
  BY <1>1, <1>2, <1>3 DEF Pristine, ComponentScreens
<1>8. /\ f.kind = "Enum" => IsTable(f.options)
      /\ \A j \in DOMAIN fields : fields[j].key = f.key => i = j
  BY <1>1, <1>3, Registry
<1>9. Written(f, states[i]) = old[f.key] /\ old[f.key] # Missing
  BY <1>7, <1>8, RoundTrip, OrdinaryIsThere
<1>10. f.key \in DOMAIN value /\ value[f.key] = Written(f, states[i])
  BY <1>6, <1>8, <1>9, WrittenByOne
<1> QED
  BY <1>5, <1>9, <1>10

LEMMA FieldsKept ==
  ASSUME Typed, Pristine, [Next]_vars
  PROVE  KeepsKnownFields
<1> DEFINE fields == FieldsOf[screen.form.schema]
           old == doc[screen.tab][screen.id]
           new == doc'[screen.tab][screen.id]
           Left(f) == f.key \in DOMAIN old \ touched /\ Ordinary(f, old[f.key])
           Kept(f) == f.key \in DOMAIN new /\ new[f.key] = old[f.key]
<1>1. ASSUME Submit, screen.id \in DOMAIN doc[screen.tab],
             NEW i \in DOMAIN fields, Left(fields[i])
      PROVE  Kept(fields[i])
  <2>1. PICK fs, o, f : fields = fs /\ old = o /\ fs[i] = f
    OBVIOUS
  <2>2. f.key \in DOMAIN o /\ f.key \notin touched /\ Ordinary(f, o[f.key])
    BY <1>1, <2>1, Zenon
  <2>3. \E n : new = n /\ f.key \in DOMAIN n /\ n[f.key] = o[f.key]
    BY <1>1, <2>1, <2>2, FieldBack
  <2> QED
    BY <2>1, <2>3, Zenon
<1>2. Submit /\ screen.id \in DOMAIN doc[screen.tab] =>
        \A i \in DOMAIN fields : Left(fields[i]) => Kept(fields[i])
  BY <1>1, Zenon
<1> QED
  BY <1>2, Zenon DEF KeepsKnownFields

\* Whatever is opened, looked at and submitted, by whatever way through the
\* operator screens: a registered field that was not touched and that its
\* widget can show is written back as it was (field_edit_state_from, to_value).
THEOREM FieldsSurvive == Spec => KnownFieldsSurvive
<1>1. Init => Pristine
  BY DEF Init, TopLevel, Pristine, ComponentScreens
<1>2. Typed /\ Pristine /\ [Next]_vars => Pristine'
  BY PristineStep
<1>3. Typed /\ Pristine /\ [Next]_vars => [KeepsKnownFields]_vars
  BY FieldsKept
<1> QED
  BY <1>1, <1>2, <1>3, Typeness, PTL DEF Spec, KnownFieldsSurvive

-----------------------------------------------------------------------------
(* The references of pipelines.                                            *)

\* The arrays of a value are lists.
Arrays(value) ==
  \A key \in DOMAIN value : value[key][1] = "arr" => IsSequence(value[key][2])

\* Only lists are on a pipeline's form.
ListsOnly(form) ==
  \A i \in DOMAIN form.fields :
    form.fields[i][1] = "list" /\ IsSequence(form.fields[i][2])

PipelinesListed(d) ==
  \A p \in DOMAIN d["Pipelines"] : Arrays(d["Pipelines"][p])
PipelineOnScreen ==
  screen.kind \in ComponentScreens /\ screen.tab = "Pipelines" =>
    ListsOnly(screen.form)
References == PipelinesListed(doc) /\ PipelineOnScreen

LEMMA PipelineFields ==
  ASSUME NEW schema \in Schemas, schema[1] = "Pipelines"
  PROVE  \A i \in DOMAIN FieldsOf[schema] : FieldsOf[schema][i].kind = "StringList"
<1>1. FieldsOf[schema] = PIPELINE_FIELDS
  BY DEF FieldsOf
<1> QED
  BY <1>1 DEF PIPELINE_FIELDS, Field

LEMMA NewPipelineForm ==
  ASSUME SplitsToLists, NEW schema \in Schemas, schema[1] = "Pipelines",
         NEW value, Arrays(value)
  PROVE  ListsOnly(NewForm(schema, value))
<1> DEFINE form == NewForm(schema, value)
           fields == FieldsOf[schema]
<1>1. form.fields = OpenFields(fields, value)
  BY DEF NewForm
<1>2. DOMAIN form.fields = DOMAIN fields
      /\ \A i \in DOMAIN fields :
           form.fields[i] = field_edit_state_from(fields[i], value)
  BY <1>1, Zenon DEF OpenFields
<1> HIDE DEF form
<1>3. ASSUME NEW i \in DOMAIN fields
      PROVE  form.fields[i][1] = "list" /\ IsSequence(form.fields[i][2])
  <2> DEFINE leaf == get_path(value, fields[i].key)
  <2>1. form.fields[i] = ListState(fields[i], leaf)
    <3>1. fields[i].kind = "StringList"
      BY PipelineFields
    <3> QED
      BY <1>2, <3>1 DEF field_edit_state_from
  <2>2. form.fields[i]
          = <<"list", IF leaf[1] = "arr" THEN PiecesOf(leaf[2]) ELSE << >>>>
    BY <2>1, Zenon DEF ListState
  <2>3. leaf[1] = "arr" => IsSequence(leaf[2])
    BY DEF Arrays, get_path, Missing
  <2>4. leaf[1] = "arr" => IsSequence(PiecesOf(leaf[2]))
    BY <2>3, PiecesListed
  <2> HIDE DEF leaf
  <2> QED
    BY <2>2, <2>4, EmptyIsSequence
<1> QED
  BY <1>2, <1>3 DEF ListsOnly, form

\* What a list is written as.
LEMMA WrittenList ==
  ASSUME NEW f, NEW state, state[1] = "list", IsSequence(state[2])
  PROVE  LET leaf == Written(f, state)
         IN  leaf[1] = "arr" => IsSequence(leaf[2])
<1>1. PICK blank :
        Written(f, state) = LET items == Others(state[2], blank)
                            IN  IF items = << >> THEN Missing ELSE Strs(items)
  BY Zenon DEF Written
<1> DEFINE items == Others(state[2], blank)
           leaves == [i \in DOMAIN items |-> Str(items[i])]
<1>2. IsSequence(items)
  BY OthersListed
<1>3. IsSequence(leaves)
  <2> HIDE DEF items
  <2>1. Len(items) \in Nat /\ DOMAIN items = 1..Len(items)
    BY <1>2, SequenceFacts
  <2>2. leaves = [i \in 1..Len(items) |-> leaves[i]]
    BY <2>1
  <2> QED
    BY <2>1, <2>2, ListedIsSequence
<1>4. Written(f, state) \in {Missing, <<"arr", leaves>>}
  BY <1>1, Zenon DEF Strs
<1> HIDE DEF leaves
<1> QED
  BY <1>3, <1>4 DEF Missing

LEMMA WrittenPipeline ==
  ASSUME NEW form, IsForm(form), form.schema[1] = "Pipelines", ListsOnly(form)
  PROVE  Arrays(to_value(form))
<1>0. PICK fields, states, new :
        /\ fields = FieldsOf[form.schema] /\ states = form.fields
        /\ new = WrittenFields(fields, states)
  OBVIOUS
<1>1. to_value(form) = new /\ DOMAIN states = DOMAIN fields
  BY <1>0, WrittenForm DEF IsForm, FormOK
<1>2. ASSUME NEW k \in DOMAIN new
      PROVE  new[k][1] = "arr" => IsSequence(new[k][2])
  <2>1. PICK i \in DOMAIN fields : new[k] = Written(fields[i], states[i])
    BY <1>0, <1>2, WrittenBySome
  <2>2. states[i][1] = "list" /\ IsSequence(states[i][2])
    BY <1>0, <1>1, <2>1 DEF ListsOnly
  <2> QED
    BY <2>1, <2>2, WrittenList
<1> QED
  BY <1>1, <1>2 DEF Arrays

\* A component or pipeline on screen: a pipeline opens with its lists, and
\* what is typed is a list.
LEMMA OnScreenStep ==
  ASSUME SplitsToLists, Typed, References, [Next]_vars
  PROVE  PipelineOnScreen'
<1>0. Shape(screen) /\ DocOK(doc) /\ PipelinesListed(doc) /\ PipelineOnScreen
  BY DEF Typed, References
<1>1. CASE screen'.kind \notin ComponentScreens \/ screen'.tab # "Pipelines"
  BY <1>1 DEF PipelineOnScreen
<1>2. CASE OpenItem /\ screen'.tab = "Pipelines"
  <2>1. PICK id \in Ids :
          /\ id \in DOMAIN doc[screen.tab]
          /\ screen' = EditScreen(screen.tab, id,
               NewForm(SchemaFor(screen.tab, id), doc[screen.tab][id]))
    BY <1>2, Zenon DEF OpenItem, OpenForm, Selected
  <2>2. /\ screen.tab = "Pipelines"
        /\ screen'.form = NewForm(SchemaFor(screen.tab, id), doc[screen.tab][id])
    BY <1>2, <2>1 DEF EditScreen
  <2>3. /\ SchemaFor(screen.tab, id) \in Schemas
        /\ SchemaFor(screen.tab, id)[1] = "Pipelines"
    BY <2>2, SchemaOf DEF Tabs
  <2>4. Arrays(doc[screen.tab][id])
    BY <1>0, <2>1, <2>2 DEF PipelinesListed
  <2>5. ListsOnly(screen'.form)
    BY <2>2, <2>3, <2>4, NewPipelineForm
  <2> QED
    BY <2>5 DEF PipelineOnScreen
<1>3. CASE NameItem /\ screen'.tab = "Pipelines"
  <2> DEFINE schema == <<screen.tab, screen.type_name>>
  <2>1. screen' = EditScreen(screen.tab, screen.input,
                             NewItem(screen.tab, screen.type_name))
    BY <1>3, Zenon DEF NameItem, OpenForm
  <2>2. screen.tab = "Pipelines" /\ schema \in Schemas /\ schema[1] = "Pipelines"
    <3>1. <<screen.tab, screen.type_name>> \in Schemas
      BY <1>0, <1>3 DEF NameItem, At, Shape, ItemShape
    <3>2. screen.tab = "Pipelines"
      BY <1>3, <2>1 DEF EditScreen
    <3> QED
      BY <3>1, <3>2
  <2>3. screen'.form = NewForm(schema, << >>)
    BY <2>1, <2>2 DEF EditScreen, NewItem
  <2>4. Arrays(<< >>)
    BY DEF Arrays
  <2> HIDE DEF schema
  <2>5. ListsOnly(screen'.form)
    BY <2>2, <2>3, <2>4, NewPipelineForm
  <2> QED
    BY <2>5 DEF PipelineOnScreen
<1>4. CASE /\ screen'.kind \in ComponentScreens /\ screen'.tab = "Pipelines"
           /\ ~ OpenItem /\ ~ NameItem
  <2> DEFINE form == screen.form
             new == screen'.form
  <2>1. /\ screen.kind \in ComponentScreens /\ screen.tab = "Pipelines"
        /\ FormCarried(form, new)
    BY <1>4, ComponentStep DEF Carried
  <2>2. IsForm(form) /\ form.schema[1] = "Pipelines"
    BY <1>0, <2>1 DEF Shape, ComponentShape, OfComponent, ComponentScreens
  <2>3. form.schema \in Schemas /\ DOMAIN form.fields = DOMAIN FieldsOf[form.schema]
    BY <2>2 DEF IsForm, FormOK
  <2>4. ListsOnly(form)
    BY <1>0, <2>1 DEF PipelineOnScreen
  <2> HIDE DEF form, new
  <2>5. ASSUME NEW i \in DOMAIN form.fields
        PROVE  new.fields[i][1] = "list" /\ IsSequence(new.fields[i][2])
    <3> DEFINE f == FieldsOf[form.schema][i]
    <3>1. form.fields[i][1] = "list" /\ IsSequence(form.fields[i][2])
      BY <2>4 DEF ListsOnly
    <3>2. f.kind # "OperatorList"
      BY <2>2, <2>3, PipelineFields
    <3>3. \/ new.fields[i] = form.fields[i]
          \/ new.fields[i] \in Edited(f, form.fields[i])
      BY <2>1, <3>2 DEF FormCarried, FieldKept
    <3>4. Edited(f, form.fields[i]) = {<<"list", l>> : l \in Lists}
      BY <3>1 DEF Edited
    <3> QED
      BY <3>1, <3>3, <3>4, Registry
  <2>6. ListsOnly(new)
    BY <2>1, <2>5 DEF FormCarried, ListsOnly
  <2> QED
    BY <2>6 DEF PipelineOnScreen, new
<1> QED
  BY <1>1, <1>2, <1>3, <1>4

\* category_key names the two categories that pipelines refer to.
LEMMA CategoryKey ==
  /\ DOMAIN category_key = {"Receivers", "Exporters"}
  /\ DOMAIN category_key \subseteq Categories
BY DEF category_key, Categories

\* A pipeline without its references: its arrays stay lists, and of the one in
\* question nothing is left.
LEMMA StrippedPipeline ==
  ASSUME NEW def, Arrays(def), NEW tab \in DOMAIN category_key, NEW id
  PROVE  Arrays(Stripped(def, tab, id)) /\ ~ Refers(Stripped(def, tab, id), tab, id)
<1> DEFINE key == category_key[tab]
           left == Others(def[key][2], Str(id))
           new == Stripped(def, tab, id)
<1>1. CASE get_path(def, key)[1] # "arr"
  <2>1. new = def
    BY <1>1, Zenon DEF Stripped
  <2>2. ~ Refers(def, tab, id)
    BY <1>1, Zenon DEF Refers
  <2> QED
    BY <2>1, <2>2
<1>2. CASE get_path(def, key)[1] = "arr"
  <2>1. key \in DOMAIN def /\ def[key][1] = "arr"
    BY <1>2 DEF get_path, Missing
  <2>2. IsSequence(def[key][2])
    BY <2>1 DEF Arrays
  <2>3. IsSequence(left) /\ \A i \in DOMAIN left : left[i] # Str(id)
    BY <2>2, OthersListed
  <2>4. new = [def EXCEPT ![key] = <<"arr", left>>]
    BY <1>2, Zenon DEF Stripped
  <2> HIDE DEF left, key
  <2>5. /\ DOMAIN new = DOMAIN def /\ new[key] = <<"arr", left>>
        /\ \A k \in DOMAIN def : k # key => new[k] = def[k]
    BY <2>1, <2>4
  <2> HIDE DEF new
  <2>6. Arrays(new)
    BY <2>3, <2>5 DEF Arrays
  <2>7. get_path(new, key) = <<"arr", left>>
    BY <2>1, <2>5 DEF get_path
  <2>8. ~ Refers(new, tab, id)
    BY <2>3, <2>7 DEF Refers, key
  <2> QED
    BY <2>6, <2>8 DEF new
<1> QED
  BY <1>1, <1>2

LEMMA WhoChanges ==
  ASSUME Typed, [Next]_vars
  PROVE  doc' = doc \/ Submit \/ RemoveItem \/ ConfirmRemove \/ InsertReceiver
<1>1. CASE Help \/ Quit \/ Save \/ Down \/ Up \/ Escape \/ MoveFocus
             \/ EditField \/ UNCHANGED vars
  BY <1>1
  DEF Help, Quit, Save, Down, Up, Escape, MoveFocus, EditField, Goto, vars
<1>2. CASE Leading
  BY <1>2, NotRemoving DEF Still
<1> QED
  BY <1>1, <1>2 DEF Next, Leading

\* A confirmed removal: the component is gone, and from every pipeline the
\* references to it.
LEMMA Confirmed ==
  ASSUME Typed, ConfirmRemove
  PROVE  /\ screen.tab \in Categories
         /\ \A t \in Tabs : t # "Pipelines" /\ t # screen.tab => doc'[t] = doc[t]
         /\ DOMAIN doc'[screen.tab] = DOMAIN doc[screen.tab] \ {screen.id}
         /\ DOMAIN doc'["Pipelines"] = DOMAIN doc["Pipelines"]
         /\ \A p \in DOMAIN doc["Pipelines"] :
              doc'["Pipelines"][p]
                = IF screen.tab \in DOMAIN category_key
                  THEN Stripped(doc["Pipelines"][p], screen.tab, screen.id)
                  ELSE doc["Pipelines"][p]
<1> DEFINE d == strip_from_pipelines(screen.tab, screen.id)
<1>1. /\ DocOK(doc) /\ screen.tab \in Categories
      /\ doc' = Without(d, screen.tab, screen.id)
  BY DEF Typed, ConfirmRemove, At, Change, Shape, ItemShape
<1>2. DocOK(d) /\ screen.tab \in Tabs /\ screen.tab # "Pipelines"
      /\ "Pipelines" \in Tabs
  BY <1>1, StrippedOK DEF Tabs, Categories
<1>3. /\ \A t \in Tabs : t # "Pipelines" => d[t] = doc[t]
      /\ DOMAIN d["Pipelines"] = DOMAIN doc["Pipelines"]
      /\ \A p \in DOMAIN doc["Pipelines"] :
           d["Pipelines"][p]
             = IF screen.tab \in DOMAIN category_key
               THEN Stripped(doc["Pipelines"][p], screen.tab, screen.id)
               ELSE doc["Pipelines"][p]
  <2>1. CASE screen.tab \notin DOMAIN category_key
    <3>1. d = doc
      BY <2>1, Zenon DEF strip_from_pipelines
    <3> QED
      BY <2>1, <3>1
  <2>2. CASE screen.tab \in DOMAIN category_key
    <3> DEFINE Strip(p) == Stripped(doc["Pipelines"][p], screen.tab, screen.id)
    <3>1. d = [doc EXCEPT !["Pipelines"] =
                 [p \in DOMAIN doc["Pipelines"] |-> Strip(p)]]
      BY <2>2 DEF strip_from_pipelines
    <3> HIDE DEF d, Strip
    <3>2. \A t \in Tabs : t # "Pipelines" => d[t] = doc[t]
      BY <1>1, <3>1 DEF DocOK
    <3>3. d["Pipelines"] = [p \in DOMAIN doc["Pipelines"] |-> Strip(p)]
      BY <1>1, <1>2, <3>1 DEF DocOK
    <3> QED
      BY <2>2, <3>2, <3>3 DEF Strip
  <2> QED
    BY <2>1, <2>2
<1> HIDE DEF d
<1>4. /\ DOMAIN doc'[screen.tab] = DOMAIN d[screen.tab] \ {screen.id}
      /\ \A t \in Tabs \ {screen.tab} : doc'[t] = d[t]
  BY <1>1, <1>2, WithoutFacts
<1> QED
  BY <1>1, <1>2, <1>3, <1>4

LEMMA PipelinesStep ==
  ASSUME Typed, References, [Next]_vars
  PROVE  PipelinesListed(doc')
<1>0. Shape(screen) /\ DocOK(doc) /\ PipelinesListed(doc) /\ PipelineOnScreen
  BY DEF Typed, References
<1>1. CASE doc'["Pipelines"] = doc["Pipelines"]
  BY <1>0, <1>1 DEF PipelinesListed
<1>2. CASE Submit
  <2>1. /\ screen.kind = "Edit" /\ OfComponent(screen)
        /\ doc' = With(doc, screen.tab, screen.id, to_value(screen.form))
    BY <1>0, <1>2 DEF Submit, At, Change, Shape, ComponentShape
  <2>2. screen.tab \in Tabs /\ IsForm(screen.form)
        /\ screen.form.schema[1] = screen.tab /\ "Pipelines" \in Tabs
    BY <2>1 DEF OfComponent, Tabs
  <2> DEFINE value == to_value(screen.form)
  <2>3. /\ DOMAIN doc'[screen.tab] = DOMAIN doc[screen.tab] \union {screen.id}
        /\ \A i \in DOMAIN doc'[screen.tab] :
             doc'[screen.tab][i] = IF i = screen.id THEN value
                                   ELSE doc[screen.tab][i]
        /\ \A t \in Tabs \ {screen.tab} : doc'[t] = doc[t]
    BY <1>0, <2>1, <2>2, WithFacts
  <2> HIDE DEF value
  <2>4. CASE screen.tab = "Pipelines"
    <3>1. ListsOnly(screen.form)
      BY <1>0, <2>1, <2>4 DEF PipelineOnScreen, ComponentScreens
    <3>2. Arrays(value)
      BY <2>2, <2>4, <3>1, WrittenPipeline DEF value
    <3> QED
      BY <1>0, <2>3, <2>4, <3>2 DEF PipelinesListed
  <2>5. CASE screen.tab # "Pipelines"
    BY <1>1, <2>2, <2>3, <2>5
  <2> QED
    BY <2>4, <2>5
<1>3. CASE RemoveItem
  <2>1. \/ doc' = doc
        \/ \E id \in Ids : doc' = Without(doc, screen.tab, id)
    BY <1>3, Zenon DEF RemoveItem, Change, Goto
  <2>2. screen.tab \in Tabs /\ "Pipelines" \in Tabs
    BY <1>0, <1>3, ToTop DEF RemoveItem, MayBegin, At, Tabs
  <2>3. ASSUME NEW id \in Ids, doc' = Without(doc, screen.tab, id)
        PROVE  PipelinesListed(doc')
    <3>1. /\ DOMAIN doc'[screen.tab] = DOMAIN doc[screen.tab] \ {id}
          /\ \A i \in DOMAIN doc'[screen.tab] :
               doc'[screen.tab][i] = doc[screen.tab][i]
          /\ \A t \in Tabs \ {screen.tab} : doc'[t] = doc[t]
      BY <1>0, <2>2, <2>3, WithoutFacts
    <3> QED
      BY <1>0, <2>2, <3>1 DEF PipelinesListed
  <2> QED
    BY <1>1, <2>1, <2>3
<1>4. CASE ConfirmRemove
  <2>1. ASSUME NEW p \in DOMAIN doc'["Pipelines"]
        PROVE  Arrays(doc'["Pipelines"][p])
    <3>1. p \in DOMAIN doc["Pipelines"] /\ Arrays(doc["Pipelines"][p])
      BY <1>0, <1>4, Confirmed DEF PipelinesListed
    <3>2. \/ doc'["Pipelines"][p] = doc["Pipelines"][p]
          \/ /\ screen.tab \in DOMAIN category_key
             /\ doc'["Pipelines"][p]
                  = Stripped(doc["Pipelines"][p], screen.tab, screen.id)
      BY <1>4, <3>1, Confirmed
    <3> QED
      BY <3>1, <3>2, StrippedPipeline
  <2> QED
    BY <2>1 DEF PipelinesListed
<1>5. CASE InsertReceiver
  <2>1. doc' = With(doc, "Receivers", screen.id, screen.receiver)
    BY <1>5 DEF InsertReceiver, Change
  <2>2. "Receivers" \in Tabs /\ "Pipelines" \in Tabs \ {"Receivers"}
    BY DEF Tabs, Categories
  <2>3. doc'["Pipelines"] = doc["Pipelines"]
    BY <1>0, <2>1, <2>2, WithFacts
  <2> QED
    BY <1>1, <2>3
<1> QED
  BY <1>1, <1>2, <1>3, <1>4, <1>5, WhoChanges

LEMMA NothingLeft ==
  ASSUME Typed, References, [Next]_vars
  PROVE  LeavesNoReference
<1>0. Shape(screen) /\ DocOK(doc) /\ PipelinesListed(doc)
  BY DEF Typed, References
<1> SUFFICES ASSUME NEW tab \in DOMAIN category_key,
                    NEW id \in DOMAIN doc[tab] \ DOMAIN doc'[tab],
                    NEW p \in DOMAIN doc'["Pipelines"]
             PROVE  ~ Refers(doc'["Pipelines"][p], tab, id)
  BY DEF LeavesNoReference
<1>1. tab \in Tabs /\ tab # "Pipelines" /\ "Pipelines" \in Tabs
  BY CategoryKey DEF Tabs, Categories
<1>2. CASE doc' = doc
  BY <1>2
<1>3. CASE Submit \/ InsertReceiver
  <2>1. \E t \in Tabs : \E i, value : doc' = With(doc, t, i, value)
    <3>1. CASE Submit
      <4>1. screen.tab \in Tabs
        BY <1>0, <3>1 DEF Submit, At, Shape, ComponentShape, OfComponent
      <4> QED
        BY <3>1, <4>1, Zenon DEF Submit, Change
    <3>2. CASE InsertReceiver
      BY <3>2, CategoryTabs, Zenon DEF InsertReceiver, Change
    <3> QED
      BY <1>3, <3>1, <3>2
  <2>2. DOMAIN doc[tab] \subseteq DOMAIN doc'[tab]
    BY <1>0, <1>1, <2>1, WithFacts
  <2> QED
    BY <2>2
<1>4. CASE RemoveItem
  <2>1. \/ doc' = doc
        \/ \E i \in Ids :
             /\ \/ screen.tab = "Pipelines"
                \/ pipelines_referencing(screen.tab, i) = {}
             /\ doc' = Without(doc, screen.tab, i)
    BY <1>4, Zenon DEF RemoveItem, Change, Goto
  <2>2. screen.tab \in Tabs
    BY <1>0, <1>4, ToTop DEF RemoveItem, MayBegin, At
  <2>3. ASSUME NEW i \in Ids,
               \/ screen.tab = "Pipelines"
               \/ pipelines_referencing(screen.tab, i) = {},
               doc' = Without(doc, screen.tab, i)
        PROVE  ~ Refers(doc'["Pipelines"][p], tab, id)
    <3>1. /\ DOMAIN doc'[screen.tab] = DOMAIN doc[screen.tab] \ {i}
          /\ \A t \in Tabs \ {screen.tab} : doc'[t] = doc[t]
      BY <1>0, <2>2, <2>3, WithoutFacts
    <3>2. screen.tab = tab /\ i = id
      BY <1>1, <3>1
    <3>3. doc'["Pipelines"] = doc["Pipelines"]
      BY <1>1, <3>1, <3>2
    <3>4. pipelines_referencing(tab, id) = {}
      BY <1>1, <2>3, <3>2
    <3>5. {q \in DOMAIN doc["Pipelines"] : Refers(doc["Pipelines"][q], tab, id)} = {}
      BY <3>4, Zenon DEF pipelines_referencing
    <3> QED
      BY <3>3, <3>5
  <2> QED
    BY <1>2, <2>1, <2>3
<1>5. CASE ConfirmRemove
  <2>1. tab = screen.tab /\ id = screen.id
    BY <1>1, <1>5, Confirmed
  <2>2. p \in DOMAIN doc["Pipelines"]
        /\ doc'["Pipelines"][p] = Stripped(doc["Pipelines"][p], tab, id)
    BY <1>5, <2>1, Confirmed
  <2>3. Arrays(doc["Pipelines"][p])
    BY <1>0, <2>2 DEF PipelinesListed
  <2> QED
    BY <2>2, <2>3, StrippedPipeline
<1> QED
  BY <1>2, <1>3, <1>4, <1>5, WhoChanges

\* Whichever way a receiver or exporter is removed, no pipeline lists it
\* afterwards: at once only if none referred to it, else after a yes, with
\* every reference (strip_from_pipelines, "so no dangling reference survives").
THEOREM RemovalCorrect ==
  ASSUME SplitsToLists
  PROVE  Spec => RemovalLeavesNoReference
<1>1. Init => References
  <2>1. ASSUME Init
        PROVE  References
    <3>1. doc = disk.sections /\ disk \in Files /\ screen = TopLevel("Receivers", 1)
      BY <2>1 DEF Init, Loaded
    <3>2. PipelineOnScreen
      BY <3>1 DEF TopLevel, PipelineOnScreen, ComponentScreens
    <3>3. "Pipelines" \in Tabs
      BY DEF Tabs
    <3>4. PipelinesListed(doc)
      BY <3>1, <3>3, FilesAssumption DEF PipelinesListed, Arrays
    <3> QED
      BY <3>2, <3>4 DEF References
  <2> QED
    BY <2>1
<1>2. Typed /\ References /\ [Next]_vars => References'
  <2>1. ASSUME Typed, References, [Next]_vars
        PROVE  References'
    BY <2>1, OnScreenStep, PipelinesStep DEF References
  <2> QED
    BY <2>1
<1>3. Typed /\ References /\ [Next]_vars => [LeavesNoReference]_vars
  BY NothingLeft
<1> QED
  BY <1>1, <1>2, <1>3, Typeness, PTL DEF Spec, RemovalLeavesNoReference

-----------------------------------------------------------------------------
(* The parameters of a template, from its form to the review and back.     *)

\* A list of texts that are one piece each.
Whole(list) ==
  IsSequence(list) /\ \A i \in DOMAIN list : Pieces(list[i]) = <<list[i]>>

\* A piece of a text is not split again: no comma is left in it, and it is
\* trimmed.
SplitsOnce == \A text : Whole(Pieces(text))

\* A list field holds the pieces of the text that was typed.
TypedWhole == \A list \in Lists : Whole(list)

\* The two parts of a widget's state, and the lists in it.
WholeState(state) ==
  /\ state = <<state[1], state[2]>>
  /\ state[1] = "list" => Whole(state[2])
  /\ state[1] = "ops" => IsSequence(state[2])
WholeForm(form) == \A i \in DOMAIN form.fields : WholeState(form.fields[i])

LEMMA PiecesWhole ==
  ASSUME SplitsOnce, NEW arr, IsSequence(arr)
  PROVE  Whole(PiecesOf(arr))
<1> DEFINE n == Len(arr)
           piece(i) == IF IsStr(arr[i]) THEN Pieces(arr[i][2]) ELSE << >>
           q == [i \in DOMAIN arr |-> piece(i)]
           S == UNION {ToSet(piece(i)) : i \in DOMAIN arr}
<1>1. n \in Nat /\ DOMAIN arr = 1..n
  BY SequenceFacts
<1>2. \A i \in DOMAIN arr : Whole(piece(i))
  BY EmptyIsSequence DEF SplitsOnce, Whole
<1> HIDE DEF piece
<1>3. ASSUME NEW i \in DOMAIN arr
      PROVE  piece(i) \in Seq(S)
  <2>1. piece(i) \in Seq(ToSet(piece(i))) /\ ToSet(piece(i)) \subseteq S
    BY <1>2 DEF Whole, IsSequence
  <2> HIDE DEF S
  <2> QED
    BY <2>1
<1>4. q \in [1..n -> Seq(S)]
  BY <1>1, <1>3
<1>5. PiecesOf(arr) = FlattenSeq(q)
  BY Zenon DEF PiecesOf, piece
<1>6. \A t \in S : Pieces(t) = <<t>>
  BY <1>2, Zenon DEF Whole, ToSet
<1> HIDE DEF n, q, S
<1>7. PiecesOf(arr) \in Seq(S)
  BY <1>1, <1>4, <1>5, FlattenedIn
<1>8. IsSequence(PiecesOf(arr))
  BY <1>7, SeqIsSequence
<1>9. \A i \in DOMAIN PiecesOf(arr) : PiecesOf(arr)[i] \in S
  BY <1>7
<1> QED
  BY <1>6, <1>8, <1>9, Zenon DEF Whole

\* A form opened on a value whose arrays are lists.
LEMMA NewFormWhole ==
  ASSUME SplitsOnce, NEW schema \in Schemas, NEW value, Arrays(value)
  PROVE  WholeForm(NewForm(schema, value))
<1>1. PICK fields, states :
        fields = FieldsOf[schema] /\ states = NewForm(schema, value).fields
  OBVIOUS
<1>2. states = OpenFields(fields, value)
  BY <1>1 DEF NewForm
<1>3. DOMAIN states = DOMAIN fields
      /\ \A i \in DOMAIN fields :
           states[i] = field_edit_state_from(fields[i], value)
  BY <1>2, Zenon DEF OpenFields
<1>4. ASSUME NEW f
      PROVE  WholeState(field_edit_state_from(f, value))
  <2>1. PICK leaf : get_path(value, f.key) = leaf
    OBVIOUS
  <2>2. leaf[1] = "arr" => IsSequence(leaf[2])
    BY <2>1 DEF Arrays, get_path, Missing
  <2>3. PICK state : field_edit_state_from(f, value) = state
    OBVIOUS
  <2>4. CASE f.kind = "Enum"
    <3>1. PICK x : state = <<"enum", x>>
      BY <2>3, <2>4, Zenon DEF field_edit_state_from, EnumState
    <3> QED
      BY <2>3, <3>1 DEF WholeState
  <2>5. CASE f.kind = "Bool"
    <3>1. PICK x : state = <<"bool", x>>
      BY <2>3, <2>5, Zenon DEF field_edit_state_from, BoolState
    <3> QED
      BY <2>3, <3>1 DEF WholeState
  <2>6. CASE f.kind = "StringList"
    <3>1. state = <<"list", IF leaf[1] = "arr" THEN PiecesOf(leaf[2])
                            ELSE << >>>>
      BY <2>1, <2>3, <2>6, Zenon DEF field_edit_state_from, ListState
    <3>2. leaf[1] = "arr" => Whole(PiecesOf(leaf[2]))
      BY <2>2, PiecesWhole
    <3>3. Whole(<< >>)
      BY EmptyIsSequence DEF Whole
    <3>4. PICK x : state = <<"list", x>> /\ Whole(x)
      BY <3>1, <3>2, <3>3, Zenon
    <3> QED
      BY <2>3, <3>4 DEF WholeState
  <2>7. CASE f.kind = "OperatorList"
    <3>1. state = <<"ops", IF leaf[1] = "arr" THEN leaf[2] ELSE << >>>>
      BY <2>1, <2>3, <2>7, Zenon DEF field_edit_state_from, OpsState
    <3>2. PICK x : state = <<"ops", x>> /\ IsSequence(x)
      BY <2>2, <3>1, EmptyIsSequence, Zenon
    <3> QED
      BY <2>3, <3>2 DEF WholeState
  <2>8. CASE f.kind \notin {"Enum", "Bool", "StringList", "OperatorList"}
    <3>1. PICK x : state = <<"text", x>>
      BY <2>3, <2>8, Zenon DEF field_edit_state_from, TextState
    <3> QED
      BY <2>3, <3>1 DEF WholeState
  <2> QED
    BY <2>4, <2>5, <2>6, <2>7, <2>8
<1> QED
  BY <1>1, <1>3, <1>4 DEF WholeForm

\* What keys make of a whole widget.
LEMMA EditedWhole ==
  ASSUME TypedWhole, NEW f, NEW state, Fits(f, state), WholeState(state),
         NEW new \in Edited(f, state)
  PROVE  WholeState(new)
<1>1. CASE state[1] = "text"
  <2>1. PICK x : new = <<"text", x>>
    BY <1>1, Zenon DEF Edited
  <2> QED
    BY <2>1 DEF WholeState
<1>2. CASE state[1] = "list"
  <2>1. PICK x \in Lists : new = <<"list", x>>
    BY <1>2 DEF Edited
  <2> QED
    BY <2>1 DEF WholeState, TypedWhole
<1>3. CASE state[1] = "bool"
  <2>1. PICK x : new = <<"bool", x>>
    BY <1>3, Zenon DEF Edited
  <2> QED
    BY <2>1 DEF WholeState
<1>4. CASE state[1] = "enum"
  <2>1. PICK x : new = <<"enum", x>>
    BY <1>4 DEF Edited
  <2> QED
    BY <2>1 DEF WholeState
<1>5. CASE state[1] = "ops"
  BY <1>5 DEF Edited
<1>6. state[1] \in {"text", "list", "bool", "enum", "ops"}
  BY DEF Fits, WidgetOf
<1> QED
  BY <1>1, <1>2, <1>3, <1>4, <1>5, <1>6

\* What a whole widget writes, if it is not skipped, it can show again.
LEMMA WrittenOrdinary ==
  ASSUME NEW f, NEW state, Fits(f, state), WholeState(state),
         NEW leaf, Written(f, state) = leaf, leaf # Missing
  PROVE  Ordinary(f, leaf)
<1>1. CASE f.kind = "Enum"
  <2>1. state[1] = "enum" /\ state[2] \in DOMAIN f.options
    BY <1>1 DEF Fits, WidgetOf
  <2>2. leaf = Str(f.options[state[2]])
    BY <2>1, Zenon DEF Written
  <2> QED
    BY <1>1, <2>1, <2>2, Zenon DEF Ordinary
<1>2. CASE f.kind = "Bool"
  <2>1. state[1] = "bool" /\ state = <<state[1], state[2]>>
    BY <1>2 DEF Fits, WidgetOf, WholeState
  <2>2. leaf = state
    BY <2>1, Zenon DEF Written
  <2>3. leaf = <<"bool", leaf[2]>>
    BY <2>1, <2>2
  <2> QED
    BY <1>2, <2>3, Zenon DEF Ordinary
<1>3. CASE f.kind = "OperatorList"
  <2>1. state[1] = "ops"
    BY <1>3 DEF Fits, WidgetOf
  <2>2. leaf = IF state[2] = << >> THEN Missing ELSE <<"arr", state[2]>>
    BY <2>1, Zenon DEF Written
  <2>3. leaf = <<"arr", state[2]>> /\ state[2] # << >>
    BY <2>2
  <2>4. leaf = <<"arr", leaf[2]>> /\ leaf[2] # << >>
    BY <2>3
  <2> QED
    BY <1>3, <2>4, Zenon DEF Ordinary
<1>4. CASE f.kind = "StringList"
  <2>1. state[1] = "list" /\ Whole(state[2])
    BY <1>4 DEF Fits, WidgetOf, WholeState
  <2>2. PICK list, items : state[2] = list /\ Others(list, "") = items
    BY Zenon
  <2>3. leaf = IF items = << >> THEN Missing ELSE Strs(items)
    BY <2>1, <2>2, Zenon DEF Written
  <2>4. IsSequence(items) /\ \A i \in DOMAIN items : items[i] \in ToSet(list)
    BY <2>1, <2>2, OthersListed, Zenon DEF Whole
  <2>5. \A i \in DOMAIN items : items[i] # ""
    BY <2>1, <2>2, OthersListed, Zenon DEF Whole
  <2>6. \A i \in DOMAIN items : Pieces(items[i]) = <<items[i]>>
    <3>1. \A j \in DOMAIN list : Pieces(list[j]) = <<list[j]>>
      BY <2>1, <2>2, Zenon DEF Whole
    <3>2. \A x \in ToSet(list) : \E j \in DOMAIN list : x = list[j]
      BY Zenon DEF ToSet
    <3>3. \A x \in ToSet(list) : Pieces(x) = <<x>>
      BY <3>1, <3>2, Zenon
    <3> QED
      BY <2>4, <3>3, Zenon
  <2>7. PICK arr : arr = [i \in DOMAIN items |-> Str(items[i])]
    OBVIOUS
  <2>8. leaf = <<"arr", arr>> /\ items # << >>
    BY <2>3, <2>7, Zenon DEF Strs
  <2>9. /\ DOMAIN arr = DOMAIN items
        /\ \A i \in DOMAIN arr : arr[i] = Str(arr[i][2]) /\ arr[i][2] = items[i]
    BY <2>7 DEF Str
  <2>10. IsTable(arr)
    <3>1. Len(items) \in Nat /\ DOMAIN items = 1..Len(items) /\ 1 \in DOMAIN items
      BY <2>4, <2>8, SequenceFacts
    <3>2. arr = [i \in 1..Len(items) |-> arr[i]]
      BY <2>7, <3>1
    <3>3. IsSequence(arr)
      BY <3>1, <3>2, ListedIsSequence
    <3>4. arr # << >>
      BY <2>9, <3>1
    <3> QED
      BY <3>3, <3>4 DEF IsTable
  <2>11. leaf[2] = arr
    BY <2>8
  <2>12. \A i \in DOMAIN arr :
           LET text == arr[i][2]
           IN  /\ arr[i] = Str(text) /\ text # ""
               /\ Pieces(text) = <<text>>
    <3> SUFFICES ASSUME NEW i \in DOMAIN arr
                 PROVE  /\ arr[i] = Str(arr[i][2]) /\ arr[i][2] # ""
                        /\ Pieces(arr[i][2]) = <<arr[i][2]>>
      BY Zenon
    <3>1. arr[i] = Str(arr[i][2]) /\ arr[i][2] = items[i] /\ i \in DOMAIN items
      BY <2>9
    <3> QED
      BY <2>5, <2>6, <3>1, Zenon
  <2> QED
    BY <1>4, <2>8, <2>10, <2>11, <2>12, Zenon DEF Ordinary
<1>5. CASE f.kind \notin {"Enum", "Bool", "OperatorList", "StringList"}
  <2>1. state[1] = "text"
    BY <1>5 DEF Fits, WidgetOf
  <2>2. leaf = IF state[2] = "" THEN Missing ELSE Str(state[2])
    BY <2>1, Zenon DEF Written
  <2>3. PICK t : leaf = Str(t) /\ t = state[2]
    BY <2>2, Zenon
  <2>4. t # ""
    BY <2>2, <2>3, Zenon
  <2>5. leaf = Str(leaf[2]) /\ \A u : Str(t) = Str(u) => t = u
    BY <2>3 DEF Str
  <2>6. leaf # Str("")
    BY <2>3, <2>4, <2>5, Zenon
  <2> QED
    BY <1>5, <2>5, <2>6, Zenon DEF Ordinary
<1> QED
  BY <1>1, <1>2, <1>3, <1>4, <1>5

\* What a whole widget writes is no array, or a list.
LEMMA WrittenArray ==
  ASSUME NEW f, NEW state, Fits(f, state), WholeState(state),
         NEW leaf, Written(f, state) = leaf, leaf[1] = "arr"
  PROVE  IsSequence(leaf[2])
<1>1. CASE state[1] = "list"
  BY <1>1, WrittenList DEF WholeState, Whole
<1>2. CASE state[1] = "ops"
  <2>1. leaf = IF state[2] = << >> THEN Missing ELSE <<"arr", state[2]>>
    BY <1>2, Zenon DEF Written
  <2> QED
    BY <1>2, <2>1 DEF WholeState, Missing
<1>3. CASE state[1] = "text"
  <2>1. PICK x : leaf = Missing \/ leaf = Str(x)
    BY <1>3, Zenon DEF Written
  <2> QED
    BY <2>1 DEF Missing, Str
<1>4. CASE state[1] = "bool"
  <2>1. leaf = state
    BY <1>4, Zenon DEF Written
  <2> QED
    BY <1>4, <2>1
<1>5. CASE state[1] = "enum"
  <2>1. leaf = Str(f.options[state[2]])
    BY <1>5, Zenon DEF Written
  <2> QED
    BY <2>1 DEF Str
<1>6. state[1] \in {"text", "list", "bool", "enum", "ops"}
  BY DEF Fits, WidgetOf
<1> QED
  BY <1>1, <1>2, <1>3, <1>4, <1>5, <1>6

\* The value of a whole form holds lists.
LEMMA ValueArrays ==
  ASSUME NEW form, IsForm(form), WholeForm(form), form.schema[1] # "Operator"
  PROVE  Arrays(to_value(form))
<1>1. PICK fields, states, new :
        /\ fields = FieldsOf[form.schema] /\ states = form.fields
        /\ new = WrittenFields(fields, states)
  OBVIOUS
<1>2. to_value(form) = new /\ DOMAIN states = DOMAIN fields
  BY <1>1, WrittenForm DEF IsForm, FormOK
<1>3. ASSUME NEW k \in DOMAIN new, new[k][1] = "arr"
      PROVE  IsSequence(new[k][2])
  <2>1. PICK i \in DOMAIN fields : new[k] = Written(fields[i], states[i])
    BY <1>1, <1>3, WrittenBySome
  <2>2. Fits(fields[i], states[i]) /\ WholeState(states[i])
    BY <1>1, <1>2, <2>1 DEF IsForm, FormOK, WholeForm
  <2> QED
    BY <1>3, <2>1, <2>2, WrittenArray
<1> QED
  BY <1>2, <1>3 DEF Arrays

\* The value of a form, looked up by the key of a field.
LEMMA WrittenPath ==
  ASSUME NEW form, IsForm(form), form.schema[1] # "Operator",
         NEW fields, FieldsOf[form.schema] = fields, NEW i \in DOMAIN fields
  PROVE  get_path(to_value(form), fields[i].key)
           = Written(fields[i], form.fields[i])
<1>1. PICK states, new, k, leaf :
        /\ states = form.fields /\ new = WrittenFields(fields, states)
        /\ k = fields[i].key /\ leaf = Written(fields[i], states[i])
  OBVIOUS
<1>2. to_value(form) = new
  BY <1>1, WrittenForm
<1>3. \A j \in DOMAIN fields : fields[j].key = k => i = j
  BY <1>1, Registry DEF IsForm, FormOK
<1>4. CASE leaf # Missing
  <2>1. k \in DOMAIN new /\ new[k] = leaf
    BY <1>1, <1>3, <1>4, WrittenByOne
  <2> QED
    BY <1>1, <1>2, <2>1 DEF get_path
<1>5. CASE leaf = Missing
  <2>1. CASE k \in DOMAIN new
    <3>1. PICK j \in DOMAIN fields :
            fields[j].key = k /\ new[k] = Written(fields[j], states[j])
      BY <1>1, <2>1, WrittenBySome
    <3>2. j = i
      BY <1>3, <3>1
    <3> QED
      BY <1>1, <1>2, <2>1, <3>1, <3>2 DEF get_path
  <2>2. CASE k \notin DOMAIN new
    BY <1>1, <1>2, <1>5, <2>2 DEF get_path
  <2> QED
    BY <2>1, <2>2
<1> QED
  BY <1>4, <1>5

\* Any widget but a text field that was skipped is skipped again; a text field
\* opens with its default.
TextField(f) == f.kind \notin {"Enum", "Bool", "OperatorList", "StringList"}
SameLeaf(f, leaf, new) ==
  \/ new = leaf
  \/ /\ TextField(f) /\ leaf = Missing
     /\ f.default # None /\ new = Str(f.default[1])

LEMMA OthersOfNone ==
  ASSUME NEW x
  PROVE  Others(<< >>, x) = << >>
BY EmptyIsSequence, OthersSame

LEMMA SkippedAgain ==
  ASSUME NEW f, NEW state, Fits(f, state), WholeState(state),
         Written(f, state) = Missing,
         NEW value, get_path(value, f.key) = Missing
  PROVE  SameLeaf(f, Missing, Written(f, field_edit_state_from(f, value)))
<1>0. PICK again : again = field_edit_state_from(f, value)
  OBVIOUS
<1>1. CASE f.kind = "Enum"
  <2>1. state[1] = "enum"
    BY <1>1 DEF Fits, WidgetOf
  <2>2. Written(f, state) = Str(f.options[state[2]])
    BY <2>1, Zenon DEF Written
  <2> QED
    BY <2>2 DEF Str, Missing
<1>2. CASE f.kind = "Bool"
  <2>1. state[1] = "bool"
    BY <1>2 DEF Fits, WidgetOf
  <2>2. Written(f, state) = state
    BY <2>1, Zenon DEF Written
  <2> QED
    BY <2>1, <2>2 DEF Missing
<1>3. CASE f.kind = "OperatorList"
  <2>1. again = OpsState(f, Missing)
    BY <1>0, <1>3, Zenon DEF field_edit_state_from
  <2>2. again[1] = "ops" /\ again[2] = << >>
    BY <2>1 DEF OpsState, Missing
  <2>3. Written(f, again) = Missing
    BY <2>2, Zenon DEF Written
  <2> QED
    BY <1>0, <2>3 DEF SameLeaf
<1>4. CASE f.kind = "StringList"
  <2>1. again = ListState(f, Missing)
    BY <1>0, <1>4, Zenon DEF field_edit_state_from
  <2>2. again[1] = "list" /\ again[2] = << >>
    BY <2>1 DEF ListState, Missing
  <2>3. Written(f, again) = Missing
    BY <2>2, OthersOfNone, Zenon DEF Written
  <2> QED
    BY <1>0, <2>3 DEF SameLeaf
<1>5. CASE TextField(f)
  <2>1. again = TextState(f, Missing)
    BY <1>0, <1>5, Zenon DEF field_edit_state_from, TextField
  <2>2. PICK t : again = <<"text", t>> /\ t = UnwrapOr(f.default, "")
    BY <2>1, Zenon DEF TextState
  <2>3. again[1] = "text" /\ again[2] = t
    BY <2>2, Zenon
  <2>4. Written(f, again) = IF t = "" THEN Missing ELSE Str(t)
    BY <2>3, Zenon DEF Written
  <2>5. f.default = None => Written(f, again) = Missing
    BY <2>2, <2>4, Zenon DEF UnwrapOr
  <2>6. f.default # None => t = f.default[1]
    BY <2>2, Zenon DEF UnwrapOr
  <2>7. Written(f, again) = Missing \/ Written(f, again) = Str(t)
    BY <2>4, Zenon
  <2> QED
    BY <1>0, <1>5, <2>5, <2>6, <2>7, Zenon DEF SameLeaf
<1> QED
  BY <1>1, <1>2, <1>3, <1>4, <1>5 DEF TextField

\* What a form writes after its value was opened again.
LEMMA OpenedAgain ==
  ASSUME NEW form, IsForm(form), WholeForm(form), form.schema[1] # "Operator",
         NEW value, to_value(form) = value,
         NEW i \in DOMAIN FieldsOf[form.schema], NEW f,
         FieldsOf[form.schema][i] = f
  PROVE  SameLeaf(f, get_path(value, f.key),
                  get_path(to_value(NewForm(form.schema, value)), f.key))
<1>1. PICK schema, fields, leaf :
        /\ form.schema = schema /\ FieldsOf[schema] = fields
        /\ get_path(value, f.key) = leaf
  OBVIOUS
<1>2. /\ schema \in Schemas /\ schema[1] # "Operator"
      /\ i \in DOMAIN fields /\ fields[i] = f
  BY <1>1 DEF IsForm, FormOK
<1>3. PICK new : NewForm(schema, value) = new
  OBVIOUS
<1>4. IsForm(new) /\ new.schema = schema
  BY <1>2, <1>3, NewFormOK
<1>5. new.fields[i] = field_edit_state_from(f, value)
  <2>1. new.fields = OpenFields(fields, value)
    BY <1>1, <1>3 DEF NewForm
  <2>2. OpenFields(fields, value)[i] = field_edit_state_from(fields[i], value)
    BY <1>2, Zenon DEF OpenFields
  <2> QED
    BY <1>2, <2>1, <2>2
<1>6. get_path(to_value(new), f.key) = Written(f, field_edit_state_from(f, value))
  BY <1>1, <1>2, <1>4, <1>5, WrittenPath
<1>7. leaf = Written(f, form.fields[i])
  BY <1>1, <1>2, WrittenPath
<1>8. Fits(f, form.fields[i]) /\ WholeState(form.fields[i])
  BY <1>1, <1>2 DEF IsForm, FormOK, WholeForm
<1>9. CASE leaf = Missing
  BY <1>1, <1>3, <1>6, <1>7, <1>8, <1>9, SkippedAgain
<1>10. CASE leaf # Missing
  <2>1. Ordinary(f, leaf)
    BY <1>7, <1>8, <1>10, WrittenOrdinary
  <2>2. f.key \in DOMAIN value /\ value[f.key] = leaf
    BY <1>1, <1>10 DEF get_path
  <2>3. f.kind = "Enum" => IsTable(f.options)
    BY <1>1, <1>2, Registry
  <2>4. Written(f, field_edit_state_from(f, value)) = leaf
    BY <2>1, <2>2, <2>3, RoundTrip
  <2> QED
    BY <1>1, <1>3, <1>6, <2>4, Zenon DEF SameLeaf
<1> QED
  BY <1>9, <1>10

-----------------------------------------------------------------------------
(* From the review back to the parameters.                                 *)

\* A build function makes the same of a parameter that is missing and of one
\* at its default, and looks at no more than the template's parameters.
BuildsAlike ==
  \A key \in TemplateKeys : \A p, q :
    (\A i \in DOMAIN TemplateOf(key).params :
       LET f == TemplateOf(key).params[i]
       IN  SameLeaf(f, get_path(p, f.key), get_path(q, f.key)))
    => Build(key, p) = Build(key, q)

\* A form as the template's parameters are typed in.
ParamsForm(key, form) ==
  IsForm(form) /\ WholeForm(form) /\ form.schema = <<"Template", key>>

\* What is reviewed was built from such a form's value.
Reviewed ==
  /\ screen.kind = "EditTemplateParams" =>
       ParamsForm(screen.template, screen.form)
  /\ screen.kind = "ReviewTemplateReceiver" =>
       /\ screen.receiver = Build(screen.template, screen.params)
       /\ \E form : /\ ParamsForm(screen.template, form)
                    /\ screen.params = to_value(form)

\* The step that moves the focus or edits a field keeps the form whole.
LEMMA FormStaysWhole ==
  ASSUME TypedWhole, Typed, screen.kind = "EditTemplateParams",
         WholeForm(screen.form), MoveFocus \/ EditField
  PROVE  \E form : screen' = WithForm(form) /\ IsForm(form)
                     /\ form.schema = screen.form.schema /\ WholeForm(form)
<1>1. PICK old : screen.form = old
  OBVIOUS
<1>2. Form = old /\ IsForm(old) /\ WholeForm(old)
  BY <1>1, FormOnScreen DEF Typed, Form, FormScreens
<1>3. CASE MoveFocus
  <2>1. PICK i \in {After(old.focused, Len(old.fields)),
                    Before(old.focused, Len(old.fields))} :
          screen' = WithForm([old EXCEPT !.focused = i])
    BY <1>2, <1>3 DEF MoveFocus, Goto
  <2>2. i \in DOMAIN old.fields
    BY <1>2, Around, SequenceFacts DEF IsForm, FormOK
  <2>3. PICK new : new = [old EXCEPT !.focused = i]
    OBVIOUS
  <2>4. IsForm(new) /\ new.schema = old.schema /\ new.fields = old.fields
    BY <1>2, <2>2, <2>3, Refocused
  <2>5. WholeForm(new)
    BY <1>2, <2>4 DEF WholeForm
  <2> QED
    BY <1>1, <2>1, <2>3, <2>4, <2>5
<1>4. CASE EditField
  <2>1. PICK at : old.focused = at
    OBVIOUS
  <2>2. PICK state \in Edited(FieldsOf[old.schema][at], old.fields[at]) :
          screen' = WithForm([old EXCEPT !.fields[at] = state])
    BY <1>2, <1>4, <2>1 DEF EditField
  <2>3. PICK new : new = [old EXCEPT !.fields[at] = state]
    OBVIOUS
  <2>4. /\ IsForm(new) /\ new.schema = old.schema
        /\ new.fields = [old.fields EXCEPT ![at] = state]
    BY <1>2, <2>1, <2>3, EditedForm
  <2>5. at \in DOMAIN old.fields
        /\ Fits(FieldsOf[old.schema][at], old.fields[at])
    BY <1>2, <2>1 DEF IsForm, FormOK
  <2>6. WholeState(old.fields[at])
    BY <1>2, <2>5 DEF WholeForm
  <2>7. WholeState(state)
    BY <2>2, <2>5, <2>6, EditedWhole
  <2>8. WholeForm(new)
    BY <1>2, <2>4, <2>7 DEF WholeForm
  <2> QED
    BY <1>1, <2>2, <2>3, <2>4, <2>8
<1> QED
  BY <1>3, <1>4

\* The form of a template's parameters, opened on a value.
LEMMA ParamsOpen ==
  ASSUME SplitsOnce, NEW key \in TemplateKeys, NEW value, Arrays(value)
  PROVE  ParamsForm(key, NewForm(<<"Template", key>>, value))
BY SchemaFacts, NewFormOK, NewFormWhole DEF ParamsForm

LEMMA ReviewedStep ==
  ASSUME SplitsOnce, TypedWhole, Typed, Reviewed, [Next]_vars
  PROVE  Reviewed'
<1>0. Shape(screen)
  BY DEF Typed
<1>1. CASE screen'.kind \notin TemplateScreens
  BY <1>1 DEF Reviewed, TemplateScreens
<1>2. CASE UNCHANGED screen
  BY <1>2 DEF Reviewed
<1>3. CASE Help \/ Quit \/ Save \/ UNCHANGED vars
  BY <1>2, <1>3 DEF Help, Quit, Save, vars
<1>4. CASE Down \/ Up
  <2>1. screen'.kind = screen.kind /\ screen.kind \in ListScreens
    BY <1>4, SelectShape DEF Down, Up, AtAny
  <2> QED
    BY <1>1, <2>1 DEF ListScreens, TemplateScreens
<1>5. CASE Escape
  <2>1. screen' = Back
    BY <1>5 DEF Escape, Goto
  <2>2. CASE screen.kind = "ReviewTemplateReceiver"
    <3>1. screen' = TemplateParams(screen.template, screen.id, screen.params)
      BY <2>1, <2>2 DEF Back
    <3>2. screen.template \in TemplateKeys
      BY <1>0, <2>2 DEF Shape, TemplateShape
    <3>3. PICK form : ParamsForm(screen.template, form)
                      /\ screen.params = to_value(form)
      BY <2>2 DEF Reviewed
    <3>4. Arrays(screen.params)
      BY <3>3, ValueArrays DEF ParamsForm
    <3>5. ParamsForm(screen.template,
                     NewForm(<<"Template", screen.template>>, screen.params))
      BY <3>2, <3>4, ParamsOpen
    <3> QED
      BY <3>1, <3>5 DEF TemplateParams, Reviewed
  <2>3. CASE screen.kind # "ReviewTemplateReceiver"
    <3>1. Back.kind \notin TemplateScreens
      BY <1>0, <1>5, <2>3
      DEF Shape, Kinds, ListScreens, FormScreens, Back, TopLevel, EditScreen,
          OperatorList, TemplateScreens, Escape
    <3> QED
      BY <1>1, <2>1, <3>1
  <2> QED
    BY <2>2, <2>3
<1>6. CASE MoveFocus \/ EditField
  <2>1. screen.kind \in FormScreens /\ \E form : screen' = WithForm(form)
    BY <1>6, FormKeys
  <2>2. screen'.kind = screen.kind
    BY <1>0, <2>1, FormKept
  <2>3. CASE screen.kind = "EditTemplateParams"
    <3>1. screen = [kind |-> "EditTemplateParams",
                    template |-> screen.template, id |-> screen.id,
                    form |-> screen.form]
      BY <1>0, <2>3 DEF Shape, TemplateShape
    <3>2. ParamsForm(screen.template, screen.form)
      BY <2>3 DEF Reviewed
    <3>3. PICK form : /\ screen' = WithForm(form) /\ IsForm(form)
                      /\ form.schema = screen.form.schema /\ WholeForm(form)
      BY <1>6, <2>3, <3>2, FormStaysWhole DEF ParamsForm
    <3>4. screen'.template = screen.template /\ screen'.form = form
      BY <2>3, <3>1, <3>3 DEF WithForm
    <3>5. ParamsForm(screen'.template, screen'.form)
      BY <3>2, <3>3, <3>4 DEF ParamsForm
    <3> QED
      BY <2>2, <2>3, <3>5 DEF Reviewed
  <2>4. CASE screen.kind # "EditTemplateParams"
    BY <1>1, <2>1, <2>2, <2>4 DEF FormScreens, TemplateScreens
  <2> QED
    BY <2>3, <2>4
<1>7. CASE Submit \/ ConfirmRemove \/ InsertReceiver
  BY <1>1, <1>7 DEF Submit, ConfirmRemove, InsertReceiver, Change, TopLevel, TemplateScreens
<1>8. CASE RemoveItem
  <2>1. screen'.kind \in {"TopLevel", "ConfirmRemove"}
    BY <1>8 DEF RemoveItem, Change, Goto, TopLevel
  <2> QED
    BY <1>1, <2>1 DEF TemplateScreens
<1>9. CASE NameTemplateReceiver
  <2>1. screen' = TemplateParams(screen.template, screen.input, << >>)
        /\ screen.kind = "NameTemplateReceiver"
    BY <1>9, Zenon DEF NameTemplateReceiver, At, OpenForm
  <2>2. screen.template \in TemplateKeys
    BY <1>0, <2>1 DEF Shape, TemplateShape
  <2>3. Arrays(<< >>)
    BY DEF Arrays
  <2>4. ParamsForm(screen.template, NewForm(<<"Template", screen.template>>, << >>))
    BY <2>2, <2>3, ParamsOpen
  <2> QED
    BY <2>1, <2>4 DEF TemplateParams, Reviewed
<1>10. CASE SubmitParams
  <2>1. PICK params : to_value(screen.form) = params
    OBVIOUS
  <2>2. /\ screen.kind = "EditTemplateParams"
        /\ screen' = [kind |-> "ReviewTemplateReceiver", id |-> screen.id,
                      template |-> screen.template, params |-> params,
                      receiver |-> Build(screen.template, params)]
    BY <1>10, <2>1 DEF SubmitParams, At, Goto
  <2>3. ParamsForm(screen.template, screen.form)
    BY <2>2 DEF Reviewed
  <2> QED
    BY <2>1, <2>2, <2>3 DEF Reviewed
<1>11. CASE Leading /\ ~ NameTemplateReceiver /\ ~ SubmitParams
  BY <1>1, <1>11, Leads DEF Leading, TemplateScreens
<1> QED
  BY <1>3, <1>4, <1>5, <1>6, <1>7, <1>8, <1>9, <1>10, <1>11 DEF Next, Leading

LEMMA GoesBack ==
  ASSUME BuildsAlike, Typed, Reviewed
  PROVE  ReviewCanGoBack
<1> SUFFICES ASSUME screen.kind = "ReviewTemplateReceiver"
             PROVE  LET form == TemplateParams(screen.template, screen.id,
                                               screen.params).form
                    IN  Build(screen.template, to_value(form)) = screen.receiver
  BY DEF ReviewCanGoBack
<1>1. PICK key, value : key = screen.template /\ value = screen.params
  OBVIOUS
<1>2. PICK form : ParamsForm(key, form) /\ value = to_value(form)
  BY <1>1 DEF Reviewed
<1>3. PICK schema, again :
        schema = <<"Template", key>> /\ again = to_value(NewForm(schema, value))
  OBVIOUS
<1>4. key \in TemplateKeys
  BY <1>1 DEF Typed, Shape, TemplateShape
<1>5. schema \in Schemas /\ FieldsOf[schema] = TemplateOf(key).params
  BY <1>3, <1>4, SchemaFacts DEF FieldsOf
<1>6. schema[1] # "Operator" /\ form.schema = schema
  BY <1>2, <1>3 DEF ParamsForm
<1>7. ASSUME NEW i \in DOMAIN TemplateOf(key).params
      PROVE  LET f == TemplateOf(key).params[i]
             IN  SameLeaf(f, get_path(value, f.key), get_path(again, f.key))
  BY <1>2, <1>3, <1>5, <1>6, OpenedAgain DEF ParamsForm
<1>8. Build(key, value) = Build(key, again)
  BY <1>4, <1>7 DEF BuildsAlike
<1>9. TemplateParams(key, screen.id, value).form = NewForm(schema, value)
  BY <1>3 DEF TemplateParams
<1> QED
  BY <1>1, <1>3, <1>8, <1>9 DEF Reviewed

\* From the review Esc leads to a form that builds the same receiver, for any
\* registry whose build functions fall back to what the form shows (param_str
\* and the defaults of templates.rs).
THEOREM ReviewCorrect ==
  ASSUME BuildsAlike, SplitsOnce, TypedWhole
  PROVE  Spec => []ReviewCanGoBack
<1>1. Init => Reviewed
  BY DEF Init, TopLevel, Reviewed
<1>2. Typed /\ Reviewed /\ [Next]_vars => Reviewed'
  BY ReviewedStep
<1>3. Typed /\ Reviewed => ReviewCanGoBack
  BY GoesBack
<1> QED
  BY <1>1, <1>2, <1>3, Typeness, PTL DEF Spec

-----------------------------------------------------------------------------
(* The tables of schema_registry.rs and templates.rs themselves.           *)

\* The constants are the tables that the source registers.
TheTables ==
  /\ TypesFor = types_for /\ OperatorTypes = OPERATOR_TYPES
  /\ Templates = SOURCE_TEMPLATES
  /\ \A key, params : Build(key, params) = build(key, params)

\* The type with a name is the only one of that name.
LEMMA ReceiverTables ==
  ASSUME TheTables
  PROVE  /\ \A t \in {"syslog", "file_log", "windows_event_log"} :
              Named(TypesFor["Receivers"], t) /\ <<"Receivers", t>> \in Schemas
         /\ FieldsOf[<<"Receivers", "syslog">>] = SYSLOG_FIELDS
         /\ FieldsOf[<<"Receivers", "file_log">>] = FILE_LOG_FIELDS
         /\ FieldsOf[<<"Receivers", "windows_event_log">>]
              = WINDOWS_EVENT_LOG_FIELDS
<1>1. TypesFor["Receivers"] = RECEIVER_TYPES
  BY DEF TheTables, types_for
<1>2. \A t \in {"syslog", "file_log", "windows_event_log"} :
        \E i \in DOMAIN RECEIVER_TYPES : RECEIVER_TYPES[i].type_name = t
  BY DEF RECEIVER_TYPES, Type
<1>3. /\ FieldsNamed(RECEIVER_TYPES, "syslog") = SYSLOG_FIELDS
      /\ FieldsNamed(RECEIVER_TYPES, "file_log") = FILE_LOG_FIELDS
      /\ FieldsNamed(RECEIVER_TYPES, "windows_event_log")
           = WINDOWS_EVENT_LOG_FIELDS
  BY DEF FieldsNamed, RECEIVER_TYPES, Type
<1>4. ASSUME NEW t \in {"syslog", "file_log", "windows_event_log"}
      PROVE  /\ Named(TypesFor["Receivers"], t) /\ <<"Receivers", t>> \in Schemas
             /\ FieldsOf[<<"Receivers", t>>] = FieldsNamed(RECEIVER_TYPES, t)
  <2>1. Named(TypesFor["Receivers"], t)
    BY <1>1, <1>2 DEF Named
  <2>2. <<"Receivers", t>> \in Schemas
    <3>1. t \in TypeNames(TypesFor["Receivers"])
      BY <2>1 DEF Named, TypeNames
    <3> QED
      BY <3>1, SchemaFacts DEF Categories
  <2>3. FieldsOf[<<"Receivers", t>>] = FieldsNamed(TypesFor["Receivers"], t)
    BY <2>2 DEF FieldsOf
  <2> QED
    BY <1>1, <2>1, <2>2, <2>3
<1> QED
  BY <1>3, <1>4

\* The operator types that templates use.
ChainTypes ==
  {"regex_parser", "json_parser", "key_value_parser", "severity_parser",
   "add", "move"}

LEMMA OperatorTables ==
  ASSUME TheTables
  PROVE  /\ \A t \in ChainTypes :
              Named(OperatorTypes, t) /\ <<"Operator", t>> \in Schemas
         /\ FieldsOf[<<"Operator", "regex_parser">>] = REGEX_PARSER_FIELDS
         /\ FieldsOf[<<"Operator", "json_parser">>] = JSON_PARSER_FIELDS
         /\ FieldsOf[<<"Operator", "key_value_parser">>]
              = KEY_VALUE_PARSER_FIELDS
         /\ FieldsOf[<<"Operator", "severity_parser">>]
              = SEVERITY_PARSER_FIELDS
         /\ FieldsOf[<<"Operator", "add">>] = ADD_FIELDS
         /\ FieldsOf[<<"Operator", "move">>] = FROM_TO_FIELDS
<1>1. OperatorTypes = OPERATOR_TYPES
  BY DEF TheTables
<1>2. \A t \in ChainTypes :
        \E i \in DOMAIN OPERATOR_TYPES : OPERATOR_TYPES[i].type_name = t
  BY DEF OPERATOR_TYPES, Type, ChainTypes
<1>3. /\ FieldsNamed(OPERATOR_TYPES, "regex_parser") = REGEX_PARSER_FIELDS
      /\ FieldsNamed(OPERATOR_TYPES, "json_parser") = JSON_PARSER_FIELDS
      /\ FieldsNamed(OPERATOR_TYPES, "key_value_parser")
           = KEY_VALUE_PARSER_FIELDS
  BY DEF FieldsNamed, OPERATOR_TYPES, Type
<1>4. /\ FieldsNamed(OPERATOR_TYPES, "severity_parser")
           = SEVERITY_PARSER_FIELDS
      /\ FieldsNamed(OPERATOR_TYPES, "add") = ADD_FIELDS
      /\ FieldsNamed(OPERATOR_TYPES, "move") = FROM_TO_FIELDS
  BY DEF FieldsNamed, OPERATOR_TYPES, Type
<1>5. ASSUME NEW t \in ChainTypes
      PROVE  /\ Named(OperatorTypes, t) /\ <<"Operator", t>> \in Schemas
             /\ FieldsOf[<<"Operator", t>>] = FieldsNamed(OPERATOR_TYPES, t)
  <2>1. Named(OperatorTypes, t)
    BY <1>1, <1>2 DEF Named
  <2>2. <<"Operator", t>> \in Schemas
    <3>1. t \in TypeNames(OperatorTypes)
      BY <2>1 DEF Named, TypeNames
    <3> QED
      BY <3>1, SchemaFacts
  <2>3. FieldsOf[<<"Operator", t>>] = FieldsNamed(OperatorTypes, t)
    BY <2>2 DEF FieldsOf
  <2> QED
    BY <1>1, <2>1, <2>2, <2>3
<1> QED
  BY <1>3, <1>4, <1>5 DEF ChainTypes

\* A value reopens if each of its keys is that of a field that can show it.
KeyShown(schema, fields, value, k) ==
  \/ schema[1] = "Operator" /\ k = "type" /\ value[k] = Str(schema[2])
  \/ /\ schema[1] # "Operator" \/ k # "type"
     /\ \E i \in DOMAIN fields :
          fields[i].key = k /\ Ordinary(fields[i], value[k])

LEMMA ReopensKeys ==
  ASSUME NEW schema \in Schemas, NEW fields, FieldsOf[schema] = fields,
         NEW value, \A k \in DOMAIN value : KeyShown(schema, fields, value, k)
  PROVE  Reopens(schema, value)
<1>1. PICK form, again : NewForm(schema, value) = form /\ to_value(form) = again
  OBVIOUS
<1>2. /\ form.schema = schema
      /\ form.fields = OpenFields(fields, value)
  BY <1>1 DEF NewForm
<1>3. PICK written : written = WrittenFields(fields, form.fields)
  OBVIOUS
<1>4. again = IF schema[1] # "Operator" THEN written
              ELSE [k \in DOMAIN written \union {"type"} |->
                      IF k = "type" THEN Str(schema[2]) ELSE written[k]]
  BY <1>1, <1>2, <1>3, Zenon DEF to_value
<1>5. ASSUME NEW i \in DOMAIN fields, fields[i].key \in DOMAIN value,
             Ordinary(fields[i], value[fields[i].key])
      PROVE  /\ fields[i].key \in DOMAIN written
             /\ written[fields[i].key] = value[fields[i].key]
  <2>1. PICK f : fields[i] = f
    OBVIOUS
  <2>2. /\ f.kind = "Enum" => IsTable(f.options)
        /\ \A j \in DOMAIN fields : fields[j].key = f.key => i = j
    BY <2>1, Registry
  <2>3. form.fields[i] = field_edit_state_from(f, value)
    BY <1>2, <2>1, Zenon DEF OpenFields
  <2>4. Written(f, form.fields[i]) = value[f.key] /\ value[f.key] # Missing
    BY <1>5, <2>1, <2>2, <2>3, RoundTrip, OrdinaryIsThere
  <2>5. f.key \in DOMAIN written /\ written[f.key] = Written(f, form.fields[i])
    BY <1>3, <2>1, <2>2, <2>4, WrittenByOne
  <2> QED
    BY <2>1, <2>4, <2>5
<1>6. ASSUME NEW k \in DOMAIN value
      PROVE  k \in DOMAIN again /\ again[k] = value[k]
  <2>1. CASE schema[1] = "Operator" /\ k = "type" /\ value[k] = Str(schema[2])
    BY <1>4, <2>1
  <2>2. CASE /\ schema[1] # "Operator" \/ k # "type"
             /\ \E i \in DOMAIN fields :
                  fields[i].key = k /\ Ordinary(fields[i], value[k])
    <3>1. k \in DOMAIN written /\ written[k] = value[k]
      BY <1>5, <1>6, <2>2
    <3> QED
      BY <1>4, <2>2, <3>1
  <2> QED
    BY <1>6, <2>1, <2>2 DEF KeyShown
<1> QED
  BY <1>1, <1>6, Zenon DEF Reopens

\* Texts that a text field, an enum or a list can show.
NonBlank(s) == s # ""

LEMMA OrdinaryText ==
  ASSUME NEW f, TextField(f), NEW s, NonBlank(s)
  PROVE  Ordinary(f, Str(s))
<1>1. Str(s) = Str(Str(s)[2]) /\ \A u : Str(s) = Str(u) => s = u
  BY DEF Str
<1>2. Str(s) # Str("")
  BY <1>1, Zenon DEF NonBlank
<1>3. f.kind \notin {"Enum", "Bool", "OperatorList", "StringList"}
  BY DEF TextField
<1> QED
  BY <1>1, <1>2, <1>3, Zenon DEF Ordinary

LEMMA OrdinaryEnum ==
  ASSUME NEW f, f.kind = "Enum", NEW i \in DOMAIN f.options
  PROVE  Ordinary(f, Str(f.options[i]))
BY Zenon DEF Ordinary

LEMMA OrdinaryOperators ==
  ASSUME NEW f, f.kind = "OperatorList", NEW ops, ops # << >>
  PROVE  Ordinary(f, <<"arr", ops>>)
<1>1. PICK leaf : leaf = <<"arr", ops>>
  OBVIOUS
<1>2. leaf = <<"arr", leaf[2]>> /\ leaf[2] # << >>
  BY <1>1
<1>3. Ordinary(f, leaf)
  BY <1>2, Zenon DEF Ordinary
<1> QED
  BY <1>1, <1>3

-----------------------------------------------------------------------------
(* The operators of the templates' chains.                                 *)

\* The form of the operator's own type shows all of it.
OpFits(op) ==
  /\ Named(OperatorTypes, OperatorTypeOf(op))
  /\ Reopens(<<"Operator", OperatorTypeOf(op)>>, op[2])

LEMMA OpOfType ==
  ASSUME TheTables, NEW t \in ChainTypes, NEW value, "type" \in DOMAIN value,
         value["type"] = Str(t),
         \A k \in DOMAIN value :
           KeyShown(<<"Operator", t>>, FieldsOf[<<"Operator", t>>], value, k)
  PROVE  OpFits(<<"obj", value>>)
<1>1. PICK op : op = <<"obj", value>>
  OBVIOUS
<1>2. op[1] = "obj" /\ op[2] = value
  BY <1>1
<1>3. OperatorTypeOf(op) = t
  <2>1. get_path(value, "type") = Str(t) /\ IsStr(Str(t)) /\ Str(t)[2] = t
    BY DEF get_path, IsStr, Str
  <2> QED
    BY <1>2, <2>1, Zenon DEF OperatorTypeOf
<1>4. Named(OperatorTypes, t) /\ <<"Operator", t>> \in Schemas
  BY OperatorTables
<1>5. Reopens(<<"Operator", t>>, value)
  BY <1>4, ReopensKeys
<1> QED
  BY <1>1, <1>2, <1>3, <1>4, <1>5 DEF OpFits

\* A key of an operator that is one of its text fields.
LEMMA TextShown ==
  ASSUME NEW t, NEW fields, NEW value, NEW k, k # "type",
         NEW i \in DOMAIN fields, fields[i].key = k, TextField(fields[i]),
         NEW s, value[k] = Str(s), NonBlank(s)
  PROVE  KeyShown(<<"Operator", t>>, fields, value, k)
BY OrdinaryText DEF KeyShown

LEMMA TypeShown ==
  ASSUME NEW t, NEW fields, NEW value, value["type"] = Str(t)
  PROVE  KeyShown(<<"Operator", t>>, fields, value, "type")
BY DEF KeyShown

\* "on_error", in the fields of every parser.
LEMMA QuietShown ==
  ASSUME NEW t, NEW fields, NEW value, value["on_error"] = Quiet,
         NEW i \in DOMAIN fields, fields[i] = ON_ERROR
  PROVE  KeyShown(<<"Operator", t>>, fields, value, "on_error")
<1>1. /\ ON_ERROR.kind = "Enum" /\ ON_ERROR.key = "on_error"
      /\ 2 \in DOMAIN ON_ERROR.options /\ ON_ERROR.options[2] = "send_quiet"
  BY DEF ON_ERROR, EnumField, Field
<1>2. Ordinary(ON_ERROR, Str(ON_ERROR.options[2]))
  BY <1>1, OrdinaryEnum
<1> QED
  BY <1>1, <1>2 DEF KeyShown, Quiet

LEMMA AddFits ==
  ASSUME TheTables, NEW field, NEW new, NonBlank(field), NonBlank(new)
  PROVE  OpFits(add_op(field, new))
<1>1. PICK value, fields :
        /\ value = [type |-> Str("add"), field |-> Str(field),
                    value |-> Str(new)]
        /\ fields = ADD_FIELDS
  OBVIOUS
<1>2. /\ DOMAIN value = {"type", "field", "value"}
      /\ value["type"] = Str("add") /\ value["field"] = Str(field)
      /\ value["value"] = Str(new)
  BY <1>1
<1>3. /\ 1 \in DOMAIN fields /\ fields[1].key = "field" /\ TextField(fields[1])
      /\ 2 \in DOMAIN fields /\ fields[2].key = "value" /\ TextField(fields[2])
  BY <1>1 DEF ADD_FIELDS, Field, TextField
<1>4. FieldsOf[<<"Operator", "add">>] = fields /\ "add" \in ChainTypes
  BY <1>1, OperatorTables DEF ChainTypes
<1>5. \A k \in DOMAIN value : KeyShown(<<"Operator", "add">>, fields, value, k)
  BY <1>2, <1>3, TextShown, TypeShown
<1> QED
  BY <1>1, <1>2, <1>4, <1>5, OpOfType DEF add_op

LEMMA MoveFits ==
  ASSUME TheTables, NEW from, NEW to, NonBlank(from), NonBlank(to)
  PROVE  OpFits(move_op(from, to))
<1>1. PICK value, fields :
        /\ value = [type |-> Str("move"), from |-> Str(from), to |-> Str(to)]
        /\ fields = FROM_TO_FIELDS
  OBVIOUS
<1>2. /\ DOMAIN value = {"type", "from", "to"}
      /\ value["type"] = Str("move") /\ value["from"] = Str(from)
      /\ value["to"] = Str(to)
  BY <1>1
<1>3. /\ 1 \in DOMAIN fields /\ fields[1].key = "from" /\ TextField(fields[1])
      /\ 2 \in DOMAIN fields /\ fields[2].key = "to" /\ TextField(fields[2])
  BY <1>1 DEF FROM_TO_FIELDS, Field, TextField
<1>4. FieldsOf[<<"Operator", "move">>] = fields /\ "move" \in ChainTypes
  BY <1>1, OperatorTables DEF ChainTypes
<1>5. \A k \in DOMAIN value : KeyShown(<<"Operator", "move">>, fields, value, k)
  BY <1>2, <1>3, TextShown, TypeShown
<1> QED
  BY <1>1, <1>2, <1>4, <1>5, OpOfType DEF move_op

LEMMA RegexFits ==
  ASSUME TheTables, NEW pattern, NonBlank(pattern)
  PROVE  OpFits(Regex(pattern))
<1>1. PICK value :
          value = [type |-> Str("regex_parser"), parse_from |-> Str("body"),
                    parse_to |-> Str("attributes"), regex |-> Str(pattern),
                    on_error |-> Quiet]
  OBVIOUS
<1>2. PICK fields : fields = REGEX_PARSER_FIELDS
  OBVIOUS
<1>3. PICK default :
        fields = << Field("regex", "Str", TRUE, default),
                    ParseFrom(FALSE, "body"), PARSE_TO, ON_ERROR >>
  BY <1>2, Zenon DEF REGEX_PARSER_FIELDS
<1>4. /\ DOMAIN value = {"type", "parse_from", "parse_to", "regex", "on_error"}
      /\ value["type"] = Str("regex_parser")
      /\ value["parse_from"] = Str("body")
      /\ value["parse_to"] = Str("attributes")
      /\ value["regex"] = Str(pattern) /\ value["on_error"] = Quiet
  BY <1>1
<1>5. /\ 1 \in DOMAIN fields /\ fields[1].key = "regex" /\ TextField(fields[1])
      /\ 2 \in DOMAIN fields /\ fields[2].key = "parse_from"
      /\ TextField(fields[2])
      /\ 3 \in DOMAIN fields /\ fields[3].key = "parse_to"
      /\ TextField(fields[3])
      /\ 4 \in DOMAIN fields /\ fields[4] = ON_ERROR
  BY <1>3 DEF ParseFrom, PARSE_TO, Field, TextField
<1>6. /\ FieldsOf[<<"Operator", "regex_parser">>] = fields
      /\ "regex_parser" \in ChainTypes
  BY <1>2, OperatorTables DEF ChainTypes
<1>7. NonBlank("body") /\ NonBlank("attributes")
  BY Zenon DEF NonBlank
<1>8. \A k \in DOMAIN value :
        KeyShown(<<"Operator", "regex_parser">>, fields, value, k)
  BY <1>4, <1>5, <1>7, TextShown, TypeShown, QuietShown
<1> QED
  BY <1>1, <1>4, <1>6, <1>8, OpOfType DEF Regex

LEMMA KeyValueFits ==
  ASSUME TheTables, NEW from, NonBlank(from)
  PROVE  OpFits(KeyValue(from))
<1>1. PICK value, fields :
        /\ value = [type |-> Str("key_value_parser"), parse_from |-> Str(from),
                    parse_to |-> Str("attributes"), on_error |-> Quiet]
        /\ fields = KEY_VALUE_PARSER_FIELDS
  OBVIOUS
<1>2. /\ DOMAIN value = {"type", "parse_from", "parse_to", "on_error"}
      /\ value["type"] = Str("key_value_parser")
      /\ value["parse_from"] = Str(from)
      /\ value["parse_to"] = Str("attributes") /\ value["on_error"] = Quiet
  BY <1>1
<1>3. /\ 1 \in DOMAIN fields /\ fields[1].key = "parse_from"
      /\ TextField(fields[1])
      /\ 2 \in DOMAIN fields /\ fields[2].key = "parse_to"
      /\ TextField(fields[2])
      /\ 5 \in DOMAIN fields /\ fields[5] = ON_ERROR
  BY <1>1 DEF KEY_VALUE_PARSER_FIELDS, ParseFrom, PARSE_TO, Field, TextField
<1>4. /\ FieldsOf[<<"Operator", "key_value_parser">>] = fields
      /\ "key_value_parser" \in ChainTypes
  BY <1>1, OperatorTables DEF ChainTypes
<1>5. NonBlank("attributes")
  BY Zenon DEF NonBlank
<1>6. \A k \in DOMAIN value :
        KeyShown(<<"Operator", "key_value_parser">>, fields, value, k)
  BY <1>2, <1>3, <1>5, TextShown, TypeShown, QuietShown
<1> QED
  BY <1>1, <1>2, <1>4, <1>6, OpOfType DEF KeyValue

LEMMA JsonFits ==
  ASSUME TheTables
  PROVE  OpFits(JsonParser)
<1>1. PICK value, fields :
        /\ value = [type |-> Str("json_parser"), parse_from |-> Str("body"),
                    parse_to |-> Str("attributes"), on_error |-> Quiet]
        /\ fields = JSON_PARSER_FIELDS
  OBVIOUS
<1>2. /\ DOMAIN value = {"type", "parse_from", "parse_to", "on_error"}
      /\ value["type"] = Str("json_parser")
      /\ value["parse_from"] = Str("body")
      /\ value["parse_to"] = Str("attributes") /\ value["on_error"] = Quiet
  BY <1>1
<1>3. /\ 1 \in DOMAIN fields /\ fields[1].key = "parse_from"
      /\ TextField(fields[1])
      /\ 2 \in DOMAIN fields /\ fields[2].key = "parse_to"
      /\ TextField(fields[2])
      /\ 3 \in DOMAIN fields /\ fields[3] = ON_ERROR
  BY <1>1 DEF JSON_PARSER_FIELDS, ParseFrom, PARSE_TO, Field, TextField
<1>4. /\ FieldsOf[<<"Operator", "json_parser">>] = fields
      /\ "json_parser" \in ChainTypes
  BY <1>1, OperatorTables DEF ChainTypes
<1>5. NonBlank("body") /\ NonBlank("attributes")
  BY Zenon DEF NonBlank
<1>6. \A k \in DOMAIN value :
        KeyShown(<<"Operator", "json_parser">>, fields, value, k)
  BY <1>2, <1>3, <1>5, TextShown, TypeShown, QuietShown
<1> QED
  BY <1>1, <1>2, <1>4, <1>6, OpOfType DEF JsonParser

LEMMA SeverityFits ==
  ASSUME TheTables
  PROVE  OpFits(Severity)
<1>1. PICK value, fields :
        /\ value = [type |-> Str("severity_parser"),
                    parse_from |-> Str("attributes.severity"),
                    preset |-> Str("default"), on_error |-> Quiet]
        /\ fields = SEVERITY_PARSER_FIELDS
  OBVIOUS
<1>2. /\ DOMAIN value = {"type", "parse_from", "preset", "on_error"}
      /\ value["type"] = Str("severity_parser")
      /\ value["parse_from"] = Str("attributes.severity")
      /\ value["preset"] = Str("default") /\ value["on_error"] = Quiet
  BY <1>1
<1>3. /\ 1 \in DOMAIN fields /\ fields[1].key = "parse_from"
      /\ TextField(fields[1])
      /\ 2 \in DOMAIN fields /\ fields[2].key = "preset"
      /\ TextField(fields[2])
      /\ 3 \in DOMAIN fields /\ fields[3] = ON_ERROR
  BY <1>1 DEF SEVERITY_PARSER_FIELDS, ParseFrom, Field, TextField
<1>4. /\ FieldsOf[<<"Operator", "severity_parser">>] = fields
      /\ "severity_parser" \in ChainTypes
  BY <1>1, OperatorTables DEF ChainTypes
<1>5. NonBlank("attributes.severity") /\ NonBlank("default")
  BY Zenon DEF NonBlank
<1>6. \A k \in DOMAIN value :
        KeyShown(<<"Operator", "severity_parser">>, fields, value, k)
  BY <1>2, <1>3, <1>5, TextShown, TypeShown, QuietShown
<1> QED
  BY <1>1, <1>2, <1>4, <1>6, OpOfType DEF Severity

-----------------------------------------------------------------------------
(* The templates.                                                          *)

\* The template with this key.
IsEntry(key, type, params) ==
  /\ TemplateOf(key).params = params /\ TemplateOf(key).receiver_type = type

TheTemplates ==
  /\ IsEntry("cisco_asa", "syslog", CISCO_ASA_PARAMS)
  /\ IsEntry("cisco_catalyst", "syslog", CISCO_CATALYST_PARAMS)
  /\ IsEntry("cisco_meraki", "syslog", CISCO_MERAKI_PARAMS)
  /\ IsEntry("ubiquiti", "syslog", UBIQUITI_PARAMS)
  /\ IsEntry("haproxy", "syslog", HAPROXY_PARAMS)
  /\ IsEntry("cef", "syslog", CEF_PARAMS)
  /\ IsEntry("generic_syslog", "syslog", GENERIC_SYSLOG_PARAMS)
  /\ IsEntry("file_log", "file_log", FILE_LOG_PARAMS)
  /\ IsEntry("json_logs", "file_log", JSON_LOGS_PARAMS)
  /\ IsEntry("w3c_logs", "file_log", W3C_LOGS_PARAMS)
  /\ IsEntry("nginx", "file_log", NGINX_PARAMS)
  /\ IsEntry("windows_dhcp", "file_log", WINDOWS_DHCP_PARAMS)
  /\ IsEntry("active_directory", "windows_event_log", ACTIVE_DIRECTORY_PARAMS)
  /\ IsEntry("mysql", "file_log", MYSQL_PARAMS)
  /\ IsEntry("postgresql", "file_log", POSTGRESQL_PARAMS)
  /\ IsEntry("sql_server", "file_log", SQL_SERVER_PARAMS)
  /\ IsEntry("kafka", "file_log", KAFKA_PARAMS)
  /\ IsEntry("hadoop", "file_log", HADOOP_PARAMS)

LEMMA TemplatesListed ==
  ASSUME TheTables
  PROVE  TheTemplates /\ TemplateKeys =
           {"cisco_asa", "cisco_catalyst", "cisco_meraki", "ubiquiti",
            "haproxy", "cef", "generic_syslog", "file_log", "json_logs",
            "w3c_logs", "nginx", "windows_dhcp", "active_directory", "mysql",
            "postgresql", "sql_server", "kafka", "hadoop"}
<1>1. Templates = SOURCE_TEMPLATES
  BY DEF TheTables
<1>2. PICK table : table = SOURCE_TEMPLATES
  OBVIOUS
<1>3. DOMAIN table = 1..18
  BY <1>2 DEF SOURCE_TEMPLATES
<1>4. /\ table[1].key = "cisco_asa" /\ table[2].key = "cisco_catalyst"
      /\ table[3].key = "cisco_meraki" /\ table[4].key = "ubiquiti"
      /\ table[5].key = "haproxy" /\ table[6].key = "cef"
      /\ table[7].key = "generic_syslog" /\ table[8].key = "file_log"
      /\ table[9].key = "json_logs" /\ table[10].key = "w3c_logs"
      /\ table[11].key = "nginx" /\ table[12].key = "windows_dhcp"
      /\ table[13].key = "active_directory" /\ table[14].key = "mysql"
      /\ table[15].key = "postgresql" /\ table[16].key = "sql_server"
      /\ table[17].key = "kafka" /\ table[18].key = "hadoop"
  BY <1>2 DEF SOURCE_TEMPLATES, Template
<1>5. /\ table[1].params = CISCO_ASA_PARAMS
      /\ table[2].params = CISCO_CATALYST_PARAMS
      /\ table[3].params = CISCO_MERAKI_PARAMS
      /\ table[4].params = UBIQUITI_PARAMS /\ table[5].params = HAPROXY_PARAMS
      /\ table[6].params = CEF_PARAMS
      /\ table[7].params = GENERIC_SYSLOG_PARAMS
      /\ table[8].params = FILE_LOG_PARAMS
      /\ table[9].params = JSON_LOGS_PARAMS
      /\ table[10].params = W3C_LOGS_PARAMS /\ table[11].params = NGINX_PARAMS
      /\ table[12].params = WINDOWS_DHCP_PARAMS
      /\ table[13].params = ACTIVE_DIRECTORY_PARAMS
      /\ table[14].params = MYSQL_PARAMS
      /\ table[15].params = POSTGRESQL_PARAMS
      /\ table[16].params = SQL_SERVER_PARAMS
      /\ table[17].params = KAFKA_PARAMS /\ table[18].params = HADOOP_PARAMS
  BY <1>2 DEF SOURCE_TEMPLATES, Template
<1>6. /\ \A i \in 1..7 : table[i].receiver_type = "syslog"
      /\ \A i \in 8..18 \ {13} : table[i].receiver_type = "file_log"
      /\ table[13].receiver_type = "windows_event_log"
  BY <1>2 DEF SOURCE_TEMPLATES, Template
<1>7. \A i, j \in 1..18 : table[i].key = table[j].key => i = j
  BY <1>4
<1>8. ASSUME NEW i \in 1..18
      PROVE  IsEntry(table[i].key, table[i].receiver_type, table[i].params)
  <2>1. Templates = table
    BY <1>1, <1>2
  <2>2. (CHOOSE j \in DOMAIN table : table[j].key = table[i].key) = i
    BY <1>3, <1>7
  <2> QED
    BY <2>1, <2>2, Zenon DEF IsEntry, TemplateOf
<1>9. TheTemplates
  BY <1>4, <1>5, <1>6, <1>8 DEF TheTemplates
<1> QED
  BY <1>1, <1>2, <1>3, <1>4, <1>9 DEF TemplateKeys

\* What is read of a parameter, if its text is not blank.
LEMMA ParamText ==
  ASSUME NEW f, TextField(f), NEW params, NEW fallback, NonBlank(fallback),
         LET leaf == get_path(params, f.key)
         IN  leaf = Missing \/ Ordinary(f, leaf)
  PROVE  NonBlank(param_str(params, f.key, fallback))
<1>1. PICK leaf : leaf = get_path(params, f.key)
  OBVIOUS
<1>2. CASE leaf = Missing
  <2>1. ~ IsStr(leaf)
    BY <1>2 DEF IsStr, Missing
  <2> QED
    BY <1>1, <2>1, Zenon DEF param_str
<1>3. CASE leaf # Missing
  <2>1. Ordinary(f, leaf) /\ leaf # Missing
    BY <1>1, <1>3
  <2>2. leaf = Str(leaf[2]) /\ leaf # Str("")
    BY <2>1, Zenon DEF Ordinary, TextField
  <2>3. leaf[2] # ""
    BY <2>2, Zenon
  <2>4. IsStr(leaf)
    <3>1. PICK text : leaf = Str(text)
      BY <2>2, Zenon
    <3> QED
      BY <3>1 DEF Str, IsStr
  <2>5. f.key \in DOMAIN params /\ params[f.key] = leaf
    BY <1>1, <1>3 DEF get_path
  <2> QED
    BY <1>1, <2>3, <2>4, <2>5, Zenon DEF param_str, NonBlank
<1> QED
  BY <1>2, <1>3

\* The text of a parameter that is missing is the fallback.
LEMMA ParamAlike ==
  ASSUME NEW f, TextField(f), NEW fallback,
         f.default = None \/ f.default = Some(fallback),
         NEW p, NEW q, SameLeaf(f, get_path(p, f.key), get_path(q, f.key))
  PROVE  param_str(p, f.key, fallback) = param_str(q, f.key, fallback)
<1>1. PICK leaf, new : leaf = get_path(p, f.key) /\ new = get_path(q, f.key)
  OBVIOUS
<1>2. ASSUME NEW params, NEW at, at = get_path(params, f.key)
      PROVE  param_str(params, f.key, fallback)
               = IF IsStr(at) THEN at[2] ELSE fallback
  BY <1>2 DEF param_str, get_path, IsStr, Missing
<1>3. CASE new = leaf
  BY <1>1, <1>2, <1>3, Zenon
<1>4. CASE new # leaf
  <2>1. leaf = Missing /\ f.default # None /\ new = Str(f.default[1])
    BY <1>1, <1>4 DEF SameLeaf
  <2>2. ~ IsStr(leaf)
    BY <2>1 DEF IsStr, Missing
  <2>3. IsStr(new) /\ new[2] = fallback
    BY <2>1 DEF IsStr, Str, Some
  <2> QED
    BY <1>1, <1>2, <2>2, <2>3, Zenon
<1> QED
  BY <1>3, <1>4

LEMMA Builders ==
  ASSUME TheTables, NEW p
  PROVE  /\ Build("cisco_asa", p) = build_cisco_asa(p)
         /\ Build("cisco_catalyst", p) = build_cisco_catalyst(p)
         /\ Build("cisco_meraki", p) = build_cisco_meraki(p)
         /\ Build("ubiquiti", p) = build_ubiquiti(p)
         /\ Build("haproxy", p) = build_haproxy(p)
         /\ Build("cef", p) = build_cef(p)
         /\ Build("generic_syslog", p) = build_generic_syslog(p)
         /\ Build("file_log", p) = build_file_log(p)
         /\ Build("json_logs", p) = build_json_logs(p)
         /\ Build("w3c_logs", p) = build_w3c_logs(p)
         /\ Build("nginx", p) = build_nginx(p)
         /\ Build("windows_dhcp", p) = build_windows_dhcp(p)
         /\ Build("active_directory", p) = build_active_directory(p)
         /\ Build("mysql", p) = build_mysql(p)
         /\ Build("postgresql", p) = build_postgresql(p)
         /\ Build("sql_server", p) = build_sql_server(p)
         /\ Build("kafka", p) = build_kafka(p)
         /\ Build("hadoop", p) = build_hadoop(p)
BY DEF TheTables, build

-----------------------------------------------------------------------------
(* The receivers.                                                          *)

\* Every key of a receiver is that of a field that can show it.
AllShown(type, value) ==
  \A k \in DOMAIN value :
    KeyShown(<<"Receivers", type>>, FieldsOf[<<"Receivers", type>>], value, k)

AllFit(ops) == ops # << >> /\ \A i \in DOMAIN ops : OpFits(ops[i])

\* A receiver that its form and those of its operators show all of.
Shows(type, receiver) ==
  /\ Named(TypesFor["Receivers"], type)
  /\ Reopens(<<"Receivers", type>>, receiver)
  /\ AllFit(receiver["operators"][2])

\* One more key, of a field that can show the leaf.
LEMMA SetShown ==
  ASSUME NEW type, NEW value, AllShown(type, value), NEW path, NEW leaf,
         \E i \in DOMAIN FieldsOf[<<"Receivers", type>>] :
           LET f == FieldsOf[<<"Receivers", type>>][i]
           IN  f.key = path /\ Ordinary(f, leaf)
  PROVE  /\ AllShown(type, set_path(value, path, leaf))
         /\ set_path(value, path, leaf)[path] = leaf
<1>1. PICK schema, fields : /\ schema = <<"Receivers", type>>
                            /\ fields = FieldsOf[schema]
  OBVIOUS
<1>2. schema[1] # "Operator"
  BY <1>1
<1>3. PICK new : new = set_path(value, path, leaf)
  OBVIOUS
<1>4. /\ DOMAIN new = DOMAIN value \union {path} /\ new[path] = leaf
      /\ \A k \in DOMAIN value : k # path => new[k] = value[k]
  BY <1>3 DEF set_path
<1>5. ASSUME NEW k \in DOMAIN new
      PROVE  KeyShown(schema, fields, new, k)
  <2>1. CASE k = path
    BY <1>1, <1>2, <1>4, <2>1, Zenon DEF KeyShown
  <2>2. CASE k # path
    <3>1. k \in DOMAIN value /\ new[k] = value[k]
      BY <1>4, <1>5, <2>2
    <3>2. KeyShown(schema, fields, value, k)
      BY <1>1, <3>1 DEF AllShown
    <3> QED
      BY <3>1, <3>2, Zenon DEF KeyShown
  <2> QED
    BY <2>1, <2>2
<1> QED
  BY <1>1, <1>3, <1>4, <1>5 DEF AllShown

\* The last key a build function sets is "operators".
LEMMA ShownWhole ==
  ASSUME TheTables, NEW type \in {"syslog", "file_log", "windows_event_log"},
         NEW value, AllShown(type, value),
         NEW ops, AllFit(ops), value["operators"] = <<"arr", ops>>
  PROVE  Shows(type, value)
<1>1. Named(TypesFor["Receivers"], type) /\ <<"Receivers", type>> \in Schemas
  BY ReceiverTables
<1>2. Reopens(<<"Receivers", type>>, value)
  BY <1>1, ReopensKeys DEF AllShown
<1> QED
  BY <1>1, <1>2 DEF Shows

\* Each receiver type has a field for the chain.
LEMMA ChainShown ==
  ASSUME TheTables, NEW type \in {"syslog", "file_log", "windows_event_log"},
         NEW ops, ops # << >>
  PROVE  \E i \in DOMAIN FieldsOf[<<"Receivers", type>>] :
           LET f == FieldsOf[<<"Receivers", type>>][i]
           IN  f.key = "operators" /\ Ordinary(f, <<"arr", ops>>)
<1>1. OPERATORS.key = "operators" /\ OPERATORS.kind = "OperatorList"
  BY DEF OPERATORS, Field
<1>2. Ordinary(OPERATORS, <<"arr", ops>>)
  BY <1>1, OrdinaryOperators
<1>3. \E i \in DOMAIN FieldsOf[<<"Receivers", type>>] :
        FieldsOf[<<"Receivers", type>>][i] = OPERATORS
  <2>1. \E i \in DOMAIN SYSLOG_FIELDS : SYSLOG_FIELDS[i] = OPERATORS
    BY DEF SYSLOG_FIELDS
  <2>2. \E i \in DOMAIN FILE_LOG_FIELDS : FILE_LOG_FIELDS[i] = OPERATORS
    BY DEF FILE_LOG_FIELDS
  <2>3. \E i \in DOMAIN WINDOWS_EVENT_LOG_FIELDS :
          WINDOWS_EVENT_LOG_FIELDS[i] = OPERATORS
    BY DEF WINDOWS_EVENT_LOG_FIELDS
  <2> QED
    BY <2>1, <2>2, <2>3, ReceiverTables
<1> QED
  BY <1>1, <1>2, <1>3

\* A form's parameters: each is left out, or what its widget can show.
FromForm(fields, params) ==
  \A i \in DOMAIN fields :
    LET leaf == get_path(params, fields[i].key)
    IN  leaf = Missing \/ Ordinary(fields[i], leaf)

\* Parameters that differ at most by defaults.
AlikeIn(fields, p, q) ==
  \A i \in DOMAIN fields :
    SameLeaf(fields[i], get_path(p, fields[i].key), get_path(q, fields[i].key))

\* A template that builds the same receiver of parameters that are alike, and
\* one that its form shows.
Fine(key) ==
  /\ \A p, q : AlikeIn(TemplateOf(key).params, p, q)
                 => Build(key, p) = Build(key, q)
  /\ \A p : FromForm(TemplateOf(key).params, p)
              => Shows(TemplateOf(key).receiver_type, Build(key, p))

LEMMA SyslogFields ==
  ASSUME TheTables
  PROVE  LET fields == FieldsOf[<<"Receivers", "syslog">>]
         IN  /\ 1 \in DOMAIN fields /\ fields[1].key = "protocol"
             /\ fields[1].kind = "Enum"
             /\ fields[1].options = <<"rfc3164", "rfc5424", "none">>
             /\ 2 \in DOMAIN fields /\ fields[2].key = "udp.listen_address"
             /\ TextField(fields[2])
             /\ 3 \in DOMAIN fields /\ fields[3].key = "tcp.listen_address"
             /\ TextField(fields[3])
             /\ 4 \in DOMAIN fields /\ fields[4].key = "enable_octet_counting"
             /\ fields[4].kind = "Bool"
<1>1. PICK default :
        SYSLOG_FIELDS =
          << EnumField("protocol", <<"rfc3164", "rfc5424", "none">>, TRUE,
                       Some("rfc3164")),
             Field("udp.listen_address", "Str", TRUE, default),
             Field("tcp.listen_address", "Str", FALSE, None),
             Field("enable_octet_counting", "Bool", FALSE, Some("false")),
             OPERATORS >>
  BY Zenon DEF SYSLOG_FIELDS
<1>2. PICK fields : fields = FieldsOf[<<"Receivers", "syslog">>]
  OBVIOUS
<1>3. fields = SYSLOG_FIELDS
  BY <1>2, ReceiverTables
<1> QED
  BY <1>1, <1>2, <1>3 DEF EnumField, Field, TextField

\* The protocol and the address.
LEMMA TransportShown ==
  ASSUME TheTables, NEW protocol \in {"rfc3164", "rfc5424", "none"},
         NEW params, NEW address,
         NonBlank(param_str(params, "listen_address", address))
  PROVE  AllShown("syslog",
           set_transport([protocol |-> Str(protocol)], params, address))
<1>1. PICK fields : fields = FieldsOf[<<"Receivers", "syslog">>]
  OBVIOUS
<1>2. PICK text : text = param_str(params, "listen_address", address)
  OBVIOUS
<1>3. PICK first : first = [protocol |-> Str(protocol)]
  OBVIOUS
<1>4. AllShown("syslog", first)
  <2>1. DOMAIN first = {"protocol"} /\ first["protocol"] = Str(protocol)
    BY <1>3
  <2>2. /\ 1 \in DOMAIN fields /\ fields[1].key = "protocol"
        /\ fields[1].kind = "Enum"
        /\ fields[1].options = <<"rfc3164", "rfc5424", "none">>
    BY <1>1, SyslogFields
  <2>3. \E i \in DOMAIN fields[1].options : fields[1].options[i] = protocol
    BY <2>2
  <2>4. Ordinary(fields[1], Str(protocol))
    BY <2>2, <2>3, OrdinaryEnum
  <2> QED
    BY <1>1, <2>1, <2>2, <2>4 DEF AllShown, KeyShown
<1>5. PICK udp, tcp, counted :
        /\ udp = set_path(first, "udp.listen_address", Str(text))
        /\ tcp = set_path(first, "tcp.listen_address", Str(text))
        /\ counted = set_path(tcp, "enable_octet_counting", <<"bool", TRUE>>)
  OBVIOUS
<1>6. AllShown("syslog", udp) /\ AllShown("syslog", tcp)
  <2>1. /\ 2 \in DOMAIN fields /\ fields[2].key = "udp.listen_address"
        /\ 3 \in DOMAIN fields /\ fields[3].key = "tcp.listen_address"
        /\ Ordinary(fields[2], Str(text)) /\ Ordinary(fields[3], Str(text))
    BY <1>1, <1>2, SyslogFields, OrdinaryText
  <2> QED
    BY <1>1, <1>4, <1>5, <2>1, SetShown
<1>7. AllShown("syslog", counted)
  <2>1. PICK leaf : leaf = <<"bool", TRUE>>
    OBVIOUS
  <2>2. leaf = <<"bool", leaf[2]>>
    BY <2>1
  <2>3. /\ 4 \in DOMAIN fields /\ fields[4].key = "enable_octet_counting"
        /\ fields[4].kind = "Bool"
    BY <1>1, SyslogFields
  <2>4. Ordinary(fields[4], leaf)
    BY <2>2, <2>3, Zenon DEF Ordinary
  <2> QED
    BY <1>1, <1>5, <1>6, <2>1, <2>3, <2>4, SetShown
<1> QED
  BY <1>2, <1>3, <1>5, <1>6, <1>7, Zenon DEF set_transport

LEMMA SyslogParamFields ==
  ASSUME NEW address
  PROVE  LET fields == SyslogParams(address)
         IN  /\ 1 \in DOMAIN fields /\ fields[1].key = "transport"
             /\ fields[1].kind = "Enum"
             /\ 2 \in DOMAIN fields /\ fields[2].key = "listen_address"
             /\ TextField(fields[2]) /\ fields[2].default = Some(address)
BY DEF SyslogParams, EnumField, Field, TextField, None

LEMMA SyslogFine ==
  ASSUME TheTables, NEW key, NEW address, NonBlank(address),
         IsEntry(key, "syslog", SyslogParams(address)),
         NEW protocol \in {"rfc3164", "rfc5424", "none"},
         NEW ops, AllFit(ops),
         \A p : Build(key, p) = Syslog(p, protocol, address, ops)
  PROVE  Fine(key)
<1>1. PICK fields : fields = SyslogParams(address)
  OBVIOUS
<1>2. TemplateOf(key).params = fields /\ TemplateOf(key).receiver_type = "syslog"
  BY <1>1 DEF IsEntry
<1>3. /\ 1 \in DOMAIN fields /\ fields[1].key = "transport"
      /\ fields[1].kind = "Enum"
      /\ 2 \in DOMAIN fields /\ fields[2].key = "listen_address"
      /\ TextField(fields[2]) /\ fields[2].default = Some(address)
  BY <1>1, SyslogParamFields
<1>4. ASSUME NEW p, NEW q, AlikeIn(fields, p, q)
      PROVE  Build(key, p) = Build(key, q)
  <2>1. get_path(p, "transport") = get_path(q, "transport")
    BY <1>3, <1>4 DEF AlikeIn, SameLeaf, TextField
  <2>2. param_str(p, "transport", "udp") = param_str(q, "transport", "udp")
    BY <2>1 DEF param_str, get_path, IsStr, Missing
  <2>3. param_str(p, "listen_address", address)
          = param_str(q, "listen_address", address)
    BY <1>3, <1>4, ParamAlike DEF AlikeIn
  <2>4. Syslog(p, protocol, address, ops) = Syslog(q, protocol, address, ops)
    BY <2>2, <2>3, Zenon DEF Syslog, set_transport
  <2> QED
    BY <2>4
<1>5. ASSUME NEW p, FromForm(fields, p)
      PROVE  Shows("syslog", Build(key, p))
  <2>1. NonBlank(param_str(p, "listen_address", address))
    BY <1>3, <1>5, ParamText DEF FromForm
  <2>2. PICK start : start = set_transport([protocol |-> Str(protocol)], p, address)
    OBVIOUS
  <2>3. AllShown("syslog", start)
    BY <2>1, <2>2, TransportShown
  <2>4. PICK receiver : receiver = set_path(start, "operators", <<"arr", ops>>)
    OBVIOUS
  <2>5. AllShown("syslog", receiver) /\ receiver["operators"] = <<"arr", ops>>
    BY <2>3, <2>4, SetShown, ChainShown DEF AllFit
  <2>6. Shows("syslog", receiver)
    BY <2>5, ShownWhole
  <2> QED
    BY <2>2, <2>4, <2>6, Zenon DEF Syslog
<1> QED
  BY <1>2, <1>4, <1>5 DEF Fine

\* A list of one text that is neither blank nor split.
OnePiece(text) == NonBlank(text) /\ Pieces(text) = <<text>>

LEMMA OrdinaryOne ==
  ASSUME NEW f, f.kind = "StringList", NEW text, OnePiece(text)
  PROVE  Ordinary(f, Strs(<<text>>))
<1>1. PICK leaf : leaf = Strs(<<text>>)
  OBVIOUS
<1>2. PICK list : list = leaf[2]
  OBVIOUS
<1>3. leaf = <<"arr", list>> /\ list = <<Str(text)>>
  BY <1>1, <1>2 DEF Strs
<1>4. list # << >> /\ \A i \in DOMAIN list : list[i] = Str(text)
  BY <1>3
<1>5. IsTable(list)
  <2>1. ToSet(list) = {Str(text)}
    BY <1>3 DEF ToSet
  <2>2. list \in Seq({Str(text)})
    BY <1>3
  <2> QED
    BY <1>4, <2>1, <2>2 DEF IsTable, IsSequence
<1>6. Str(text)[2] = text
  BY DEF Str
<1>7. \A i \in DOMAIN list :
        /\ list[i] = Str(list[i][2]) /\ list[i][2] # ""
        /\ Pieces(list[i][2]) = <<list[i][2]>>
  BY <1>4, <1>6, Zenon DEF OnePiece, NonBlank
<1> QED
  BY <1>1, <1>2, <1>3, <1>5, <1>7, Zenon DEF Ordinary

LEMMA TailedFields ==
  ASSUME TheTables
  PROVE  LET fields == FieldsOf[<<"Receivers", "file_log">>]
         IN  /\ 1 \in DOMAIN fields /\ fields[1].key = "include"
             /\ fields[1].kind = "StringList"
             /\ 3 \in DOMAIN fields /\ fields[3].key = "start_at"
             /\ fields[3].kind = "Enum"
             /\ fields[3].options = <<"beginning", "end">>
<1>1. PICK fields : fields = FieldsOf[<<"Receivers", "file_log">>]
  OBVIOUS
<1>2. fields = FILE_LOG_FIELDS
  BY <1>1, ReceiverTables
<1> QED
  BY <1>1, <1>2 DEF FILE_LOG_FIELDS, EnumField, Field

\* A parameter list that starts with the files to include.
Includes(fields) ==
  /\ 1 \in DOMAIN fields /\ fields[1].key = "include"
  /\ fields[1].kind = "StringList"

LEMMA TailedShown ==
  ASSUME TheTables, NEW fields, Includes(fields), NEW p, FromForm(fields, p),
         NEW path, OnePiece(path), NEW ops, AllFit(ops)
  PROVE  Shows("file_log", TailedFile(p, path, ops))
<1>1. PICK at, leaf : /\ at = get_path(p, "include")
                      /\ leaf = IF at = Missing THEN Strs(<<path>>) ELSE at
  OBVIOUS
<1>2. at # Missing => p["include"] = at
  BY <1>1 DEF get_path
<1>3. PICK value :
        value = [include |-> leaf, start_at |-> Str("end"),
                 operators |-> <<"arr", ops>>]
  OBVIOUS
<1>4. value = TailedFile(p, path, ops)
  BY <1>1, <1>2, <1>3, Zenon DEF TailedFile
<1>5. /\ DOMAIN value = {"include", "start_at", "operators"}
      /\ value["include"] = leaf /\ value["start_at"] = Str("end")
      /\ value["operators"] = <<"arr", ops>>
  BY <1>3
<1>6. PICK table : table = FieldsOf[<<"Receivers", "file_log">>]
  OBVIOUS
<1>7. /\ 1 \in DOMAIN table /\ table[1].key = "include"
      /\ table[1].kind = "StringList"
      /\ 3 \in DOMAIN table /\ table[3].key = "start_at"
      /\ table[3].kind = "Enum" /\ table[3].options = <<"beginning", "end">>
  BY <1>6, TailedFields
<1>8. Ordinary(table[1], leaf)
  <2>1. CASE at = Missing
    BY <1>1, <1>7, <2>1, OrdinaryOne
  <2>2. CASE at # Missing
    <3>1. Ordinary(fields[1], at) /\ fields[1].kind = "StringList"
      BY <1>1, <2>2 DEF Includes, FromForm
    <3>2. Ordinary(table[1], at)
      BY <1>7, <3>1, Zenon DEF Ordinary
    <3> QED
      BY <1>1, <2>2, <3>2
  <2> QED
    BY <2>1, <2>2
<1>9. Ordinary(table[3], Str("end"))
  <2>1. 2 \in DOMAIN table[3].options /\ table[3].options[2] = "end"
    BY <1>7
  <2> QED
    BY <1>7, <2>1, OrdinaryEnum
<1>10. \E i \in DOMAIN table :
         table[i].key = "operators" /\ Ordinary(table[i], <<"arr", ops>>)
  BY <1>6, ChainShown DEF AllFit
<1>11. AllShown("file_log", value)
  BY <1>5, <1>6, <1>7, <1>8, <1>9, <1>10 DEF AllShown, KeyShown
<1> QED
  BY <1>4, <1>5, <1>11, ShownWhole

LEMMA TailedAlike ==
  ASSUME NEW fields, Includes(fields), NEW p, NEW q, AlikeIn(fields, p, q),
         NEW path, NEW ops
  PROVE  TailedFile(p, path, ops) = TailedFile(q, path, ops)
<1>1. PICK at : at = get_path(p, "include")
  OBVIOUS
<1>2. at = get_path(q, "include")
  BY <1>1 DEF Includes, AlikeIn, SameLeaf, TextField
<1>3. at # Missing => p["include"] = at /\ q["include"] = at
  BY <1>1, <1>2 DEF get_path
<1> QED
  BY <1>1, <1>2, <1>3, Zenon DEF TailedFile

LEMMA ParsedFine ==
  ASSUME TheTables, NEW key, NEW default,
         IsEntry(key, "file_log", <<IncludeParam(default)>>),
         NEW path, OnePiece(path), NEW pattern, NonBlank(pattern),
         NEW sourcetype, NonBlank(sourcetype),
         \A p : Build(key, p) = TailParsed(p, path, pattern, sourcetype)
  PROVE  Fine(key)
<1>1. PICK fields, ops : /\ fields = <<IncludeParam(default)>>
                         /\ ops = << Regex(pattern), Sourcetype(sourcetype) >>
  OBVIOUS
<1>2. Includes(fields)
  BY <1>1 DEF Includes, IncludeParam, Field
<1>3. AllFit(ops)
  <2>1. NonBlank("attributes.sourcetype")
    BY Zenon DEF NonBlank
  <2>2. OpFits(Regex(pattern)) /\ OpFits(Sourcetype(sourcetype))
    BY <2>1, RegexFits, AddFits DEF Sourcetype
  <2> QED
    BY <1>1, <2>2 DEF AllFit
<1>4. \A p : Build(key, p) = TailedFile(p, path, ops)
  BY <1>1, Zenon DEF TailParsed
<1> QED
  BY <1>1, <1>2, <1>3, <1>4, TailedShown, TailedAlike DEF Fine, IsEntry

\* A tailed file whose "sourcetype" is a parameter.
LEMMA TypedFine ==
  ASSUME TheTables, NEW key, NEW fields, IsEntry(key, "file_log", fields),
         Includes(fields), 2 \in DOMAIN fields,
         fields[2].key = "sourcetype", TextField(fields[2]),
         NEW fallback, NonBlank(fallback),
         fields[2].default = None \/ fields[2].default = Some(fallback),
         NEW path, OnePiece(path),
         \A p, q : \A text :
           /\ text = param_str(p, "sourcetype", fallback)
           /\ text = param_str(q, "sourcetype", fallback)
           => \E ops : /\ Build(key, p) = TailedFile(p, path, ops)
                       /\ Build(key, q) = TailedFile(q, path, ops)
                       /\ NonBlank(text) => AllFit(ops)
  PROVE  Fine(key)
<1>1. ASSUME NEW p, NEW q, AlikeIn(fields, p, q)
      PROVE  Build(key, p) = Build(key, q)
  <2>1. param_str(p, "sourcetype", fallback) = param_str(q, "sourcetype", fallback)
    BY <1>1, ParamAlike DEF AlikeIn
  <2>2. PICK ops : /\ Build(key, p) = TailedFile(p, path, ops)
                   /\ Build(key, q) = TailedFile(q, path, ops)
    BY <2>1, Zenon
  <2> QED
    BY <1>1, <2>2, TailedAlike
<1>2. ASSUME NEW p, FromForm(fields, p)
      PROVE  Shows("file_log", Build(key, p))
  <2>1. NonBlank(param_str(p, "sourcetype", fallback))
    BY <1>2, ParamText DEF FromForm
  <2>2. PICK ops : Build(key, p) = TailedFile(p, path, ops) /\ AllFit(ops)
    BY <2>1, Zenon
  <2> QED
    BY <1>2, <2>2, TailedShown
<1> QED
  BY <1>1, <1>2 DEF Fine, IsEntry

LEMMA FileLogFine ==
  ASSUME TheTables, OnePiece("/var/log/*.log")
  PROVE  Fine("file_log")
<1>1. PICK fields : fields = FILE_LOG_PARAMS
  OBVIOUS
<1>2. IsEntry("file_log", "file_log", fields)
  BY <1>1, TemplatesListed DEF TheTemplates
<1>3. /\ Includes(fields) /\ 2 \in DOMAIN fields
      /\ fields[2].key = "sourcetype" /\ TextField(fields[2])
      /\ fields[2].default = None
  BY <1>1 DEF FILE_LOG_PARAMS, IncludeParam, Field, Includes, TextField
<1>4. NonBlank("generic") /\ NonBlank("attributes.sourcetype")
  BY Zenon DEF NonBlank
<1>5. ASSUME NEW p, NEW q, NEW text,
             text = param_str(p, "sourcetype", "generic"),
             text = param_str(q, "sourcetype", "generic")
      PROVE  \E ops : /\ Build("file_log", p) = TailedFile(p, "/var/log/*.log", ops)
                      /\ Build("file_log", q) = TailedFile(q, "/var/log/*.log", ops)
                      /\ NonBlank(text) => AllFit(ops)
  <2>1. PICK ops : ops = << Sourcetype(text) >>
    OBVIOUS
  <2>2. /\ Build("file_log", p) = TailedFile(p, "/var/log/*.log", ops)
        /\ Build("file_log", q) = TailedFile(q, "/var/log/*.log", ops)
    BY <1>5, <2>1, Builders, Zenon DEF build_file_log
  <2>3. NonBlank(text) => AllFit(ops)
    BY <1>4, <2>1, AddFits DEF AllFit, Sourcetype
  <2> QED
    BY <2>2, <2>3
<1> QED
  BY <1>2, <1>3, <1>4, <1>5, TypedFine, SMTT(30)

LEMMA JsonLogsFine ==
  ASSUME TheTables, OnePiece("/var/log/*.jsonl")
  PROVE  Fine("json_logs")
<1>1. PICK fields : fields = JSON_LOGS_PARAMS
  OBVIOUS
<1>2. IsEntry("json_logs", "file_log", fields)
  BY <1>1, TemplatesListed DEF TheTemplates
<1>3. /\ Includes(fields) /\ 2 \in DOMAIN fields
      /\ fields[2].key = "sourcetype" /\ TextField(fields[2])
      /\ fields[2].default = Some("json")
  BY <1>1 DEF JSON_LOGS_PARAMS, IncludeParam, Field, Includes, TextField
<1>4. NonBlank("json") /\ NonBlank("attributes.sourcetype")
  BY Zenon DEF NonBlank
<1>5. ASSUME NEW p, NEW q, NEW text,
             text = param_str(p, "sourcetype", "json"),
             text = param_str(q, "sourcetype", "json")
      PROVE  \E ops : /\ Build("json_logs", p) = TailedFile(p, "/var/log/*.jsonl", ops)
                      /\ Build("json_logs", q) = TailedFile(q, "/var/log/*.jsonl", ops)
                      /\ NonBlank(text) => AllFit(ops)
  <2>1. PICK ops : ops = << JsonParser, Sourcetype(text) >>
    OBVIOUS
  <2>2. /\ Build("json_logs", p) = TailedFile(p, "/var/log/*.jsonl", ops)
        /\ Build("json_logs", q) = TailedFile(q, "/var/log/*.jsonl", ops)
    BY <1>5, <2>1, Builders, Zenon DEF build_json_logs
  <2>3. NonBlank(text) => AllFit(ops)
    BY <1>4, <2>1, AddFits, JsonFits DEF AllFit, Sourcetype
  <2> QED
    BY <2>2, <2>3
<1> QED
  BY <1>2, <1>3, <1>4, <1>5, TypedFine

LEMMA ActiveDirectoryFine ==
  ASSUME TheTables
  PROVE  Fine("active_directory")
<1>1. PICK fields : fields = ACTIVE_DIRECTORY_PARAMS
  OBVIOUS
<1>2. IsEntry("active_directory", "windows_event_log", fields)
  BY <1>1, TemplatesListed DEF TheTemplates
<1>3. /\ 1 \in DOMAIN fields /\ fields[1].key = "channel"
      /\ TextField(fields[1]) /\ fields[1].default = Some("Security")
  BY <1>1 DEF ACTIVE_DIRECTORY_PARAMS, Field, TextField
<1>4. /\ NonBlank("Security") /\ NonBlank("*")
      /\ NonBlank("attributes.sourcetype") /\ NonBlank("windows_security")
      /\ NonBlank("attributes.datasource") /\ NonBlank("active_directory")
  BY Zenon DEF NonBlank
<1>5. PICK ops : ops = << Sourcetype("windows_security"),
                          Datasource("active_directory") >>
  OBVIOUS
<1>6. AllFit(ops)
  BY <1>4, <1>5, AddFits DEF AllFit, Sourcetype, Datasource
<1>7. ASSUME NEW p
      PROVE  Build("active_directory", p)
               = [channel |-> Str(param_str(p, "channel", "Security")),
                  query |-> Str("*"), operators |-> <<"arr", ops>>]
  BY <1>5, Builders, Zenon DEF build_active_directory
<1>8. ASSUME NEW p, NEW q, AlikeIn(fields, p, q)
      PROVE  Build("active_directory", p) = Build("active_directory", q)
  <2>1. param_str(p, "channel", "Security") = param_str(q, "channel", "Security")
    BY <1>3, <1>8, ParamAlike DEF AlikeIn
  <2> QED
    BY <1>7, <2>1, Zenon
<1>9. ASSUME NEW p, FromForm(fields, p)
      PROVE  Shows("windows_event_log", Build("active_directory", p))
  <2>1. PICK text, value :
          /\ text = param_str(p, "channel", "Security")
          /\ value = Build("active_directory", p)
    OBVIOUS
  <2>2. NonBlank(text)
    BY <1>3, <1>4, <1>9, <2>1, ParamText DEF FromForm
  <2>3. /\ DOMAIN value = {"channel", "query", "operators"}
        /\ value["channel"] = Str(text) /\ value["query"] = Str("*")
        /\ value["operators"] = <<"arr", ops>>
    BY <1>7, <2>1
  <2>4. PICK table : table = FieldsOf[<<"Receivers", "windows_event_log">>]
    OBVIOUS
  <2>5. table = WINDOWS_EVENT_LOG_FIELDS
    BY <2>4, ReceiverTables
  <2>6. /\ 1 \in DOMAIN table /\ table[1].key = "channel"
        /\ TextField(table[1])
        /\ 2 \in DOMAIN table /\ table[2].key = "query"
        /\ TextField(table[2])
    BY <2>5 DEF WINDOWS_EVENT_LOG_FIELDS, Field, TextField
  <2>7. Ordinary(table[1], Str(text)) /\ Ordinary(table[2], Str("*"))
    BY <1>4, <2>2, <2>6, OrdinaryText
  <2>8. \E i \in DOMAIN table :
          table[i].key = "operators" /\ Ordinary(table[i], <<"arr", ops>>)
    BY <1>6, <2>4, ChainShown DEF AllFit
  <2>9. AllShown("windows_event_log", value)
    BY <2>3, <2>4, <2>6, <2>7, <2>8 DEF AllShown, KeyShown
  <2> QED
    BY <1>6, <2>1, <2>3, <2>9, ShownWhole
<1> QED
  BY <1>2, <1>8, <1>9 DEF Fine, IsEntry

-----------------------------------------------------------------------------
(* Every template, one by one.                                             *)

\* Every operator of a chain of texts fits.
LEMMA ChainsFit ==
  ASSUME TheTables
  PROVE  /\ \A s : NonBlank(s) => /\ OpFits(Datasource(s))
                                  /\ OpFits(Sourcetype(s))
                                  /\ OpFits(Regex(s)) /\ OpFits(KeyValue(s))
         /\ OpFits(Severity) /\ OpFits(MessageToBody)
<1>1. /\ NonBlank("attributes.datasource") /\ NonBlank("attributes.sourcetype")
      /\ NonBlank("attributes.message") /\ NonBlank("body")
  BY Zenon DEF NonBlank
<1> QED
  BY <1>1, AddFits, MoveFits, RegexFits, KeyValueFits, SeverityFits
  DEF Datasource, Sourcetype, MessageToBody

LEMMA CiscoFine ==
  ASSUME TheTables
  PROVE  Fine("cisco_asa") /\ Fine("cisco_catalyst") /\ Fine("cisco_meraki")
<1>1. /\ NonBlank("0.0.0.0:514") /\ NonBlank("0.0.0.0:515")
      /\ NonBlank("0.0.0.0:516")
  BY Zenon DEF NonBlank
<1>2. /\ NonBlank("re:cisco_asa") /\ NonBlank("re:cisco_catalyst")
      /\ NonBlank("re:cisco_meraki") /\ NonBlank("attributes.message")
      /\ NonBlank("cisco_asa") /\ NonBlank("cisco_ios")
      /\ NonBlank("cisco_meraki") /\ NonBlank("cisco_asa_ts_parser")
      /\ NonBlank("cisco_catalyst_ts_parser")
      /\ NonBlank("cisco_meraki_ts_parser")
  BY Zenon DEF NonBlank
<1>3. Fine("cisco_asa")
  <2>1. PICK ops :
          ops = << Regex("re:cisco_asa"), Severity, Datasource("cisco_asa"),
                   Sourcetype("cisco_asa_ts_parser"), MessageToBody >>
    OBVIOUS
  <2>2. AllFit(ops)
    BY <1>2, <2>1, ChainsFit DEF AllFit
  <2>3. \A p : Build("cisco_asa", p)
                 = Syslog(p, "rfc3164", "0.0.0.0:514", ops)
    BY <2>1, Builders, Zenon DEF build_cisco_asa
  <2>4. IsEntry("cisco_asa", "syslog", SyslogParams("0.0.0.0:514"))
    BY TemplatesListed, Zenon DEF TheTemplates, CISCO_ASA_PARAMS
  <2> QED
    BY <1>1, <2>2, <2>3, <2>4, SyslogFine
<1>4. Fine("cisco_catalyst")
  <2>1. PICK ops :
          ops = << Regex("re:cisco_catalyst"), Severity,
                   Datasource("cisco_ios"),
                   Sourcetype("cisco_catalyst_ts_parser"), MessageToBody >>
    OBVIOUS
  <2>2. AllFit(ops)
    BY <1>2, <2>1, ChainsFit DEF AllFit
  <2>3. \A p : Build("cisco_catalyst", p)
                 = Syslog(p, "rfc3164", "0.0.0.0:515", ops)
    BY <2>1, Builders, Zenon DEF build_cisco_catalyst
  <2>4. IsEntry("cisco_catalyst", "syslog", SyslogParams("0.0.0.0:515"))
    BY TemplatesListed, Zenon DEF TheTemplates, CISCO_CATALYST_PARAMS
  <2> QED
    BY <1>1, <2>2, <2>3, <2>4, SyslogFine
<1>5. Fine("cisco_meraki")
  <2>1. PICK ops :
          ops = << Regex("re:cisco_meraki"), KeyValue("attributes.message"),
                   Datasource("cisco_meraki"),
                   Sourcetype("cisco_meraki_ts_parser"), MessageToBody >>
    OBVIOUS
  <2>2. AllFit(ops)
    BY <1>2, <2>1, ChainsFit DEF AllFit
  <2>3. \A p : Build("cisco_meraki", p)
                 = Syslog(p, "none", "0.0.0.0:516", ops)
    BY <2>1, Builders, Zenon DEF build_cisco_meraki
  <2>4. IsEntry("cisco_meraki", "syslog", SyslogParams("0.0.0.0:516"))
    BY TemplatesListed, Zenon DEF TheTemplates, CISCO_MERAKI_PARAMS
  <2> QED
    BY <1>1, <2>2, <2>3, <2>4, SyslogFine
<1> QED
  BY <1>3, <1>4, <1>5

LEMMA SyslogsFine ==
  ASSUME TheTables
  PROVE  Fine("ubiquiti") /\ Fine("haproxy") /\ Fine("cef") /\ Fine("generic_syslog")
<1>1. /\ NonBlank("0.0.0.0:517")
      /\ NonBlank("0.0.0.0:518")
      /\ NonBlank("0.0.0.0:519")
      /\ NonBlank("0.0.0.0:1514")
  BY Zenon DEF NonBlank
<1>2. /\ NonBlank("ubiquiti")
      /\ NonBlank("ubiquiti_ts_parser")
      /\ NonBlank("re:haproxy")
      /\ NonBlank("haproxy")
      /\ NonBlank("haproxy_ts_parser")
      /\ NonBlank("re:cef")
      /\ NonBlank("attributes.extension")
      /\ NonBlank("cef")
      /\ NonBlank("cef_ts_parser")
      /\ NonBlank("generic_syslog")
      /\ NonBlank("generic_rsyslog")
  BY Zenon DEF NonBlank
<1>3. Fine("ubiquiti")
  <2>1. PICK ops :
          ops = << Datasource("ubiquiti"), Sourcetype("ubiquiti_ts_parser") >>
    OBVIOUS
  <2>2. AllFit(ops)
    BY <1>2, <2>1, ChainsFit DEF AllFit
  <2>3. \A p : Build("ubiquiti", p)
                 = Syslog(p, "rfc3164", "0.0.0.0:517", ops)
    BY <2>1, Builders, Zenon DEF build_ubiquiti
  <2>4. IsEntry("ubiquiti", "syslog", SyslogParams("0.0.0.0:517"))
    BY TemplatesListed, Zenon DEF TheTemplates, UBIQUITI_PARAMS
  <2> QED
    BY <1>1, <2>2, <2>3, <2>4, SyslogFine
<1>4. Fine("haproxy")
  <2>1. PICK ops :
          ops = << Regex("re:haproxy"), Datasource("haproxy"),
                   Sourcetype("haproxy_ts_parser") >>
    OBVIOUS
  <2>2. AllFit(ops)
    BY <1>2, <2>1, ChainsFit DEF AllFit
  <2>3. \A p : Build("haproxy", p)
                 = Syslog(p, "rfc3164", "0.0.0.0:518", ops)
    BY <2>1, Builders, Zenon DEF build_haproxy
  <2>4. IsEntry("haproxy", "syslog", SyslogParams("0.0.0.0:518"))
    BY TemplatesListed, Zenon DEF TheTemplates, HAPROXY_PARAMS
  <2> QED
    BY <1>1, <2>2, <2>3, <2>4, SyslogFine
<1>5. Fine("cef")
  <2>1. PICK ops :
          ops = << Regex("re:cef"), KeyValue("attributes.extension"),
                   Datasource("cef"), Sourcetype("cef_ts_parser") >>
    OBVIOUS
  <2>2. AllFit(ops)
    BY <1>2, <2>1, ChainsFit DEF AllFit
  <2>3. \A p : Build("cef", p)
                 = Syslog(p, "none", "0.0.0.0:519", ops)
    BY <2>1, Builders, Zenon DEF build_cef
  <2>4. IsEntry("cef", "syslog", SyslogParams("0.0.0.0:519"))
    BY TemplatesListed, Zenon DEF TheTemplates, CEF_PARAMS
  <2> QED
    BY <1>1, <2>2, <2>3, <2>4, SyslogFine
<1>6. Fine("generic_syslog")
  <2>1. PICK ops :
          ops = << Datasource("generic_syslog"),
                   Sourcetype("generic_rsyslog"), MessageToBody >>
    OBVIOUS
  <2>2. AllFit(ops)
    BY <1>2, <2>1, ChainsFit DEF AllFit
  <2>3. \A p : Build("generic_syslog", p)
                 = Syslog(p, "rfc5424", "0.0.0.0:1514", ops)
    BY <2>1, Builders, Zenon DEF build_generic_syslog
  <2>4. IsEntry("generic_syslog", "syslog", SyslogParams("0.0.0.0:1514"))
    BY TemplatesListed, Zenon DEF TheTemplates, GENERIC_SYSLOG_PARAMS
  <2> QED
    BY <1>1, <2>2, <2>3, <2>4, SyslogFine
<1> QED
  BY <1>3, <1>4, <1>5, <1>6

\* No pattern that a template tails has a comma in it or blanks around it.
TailedPaths ==
  { "/var/log/*.log", "/var/log/*.jsonl",
    "W3SVC1/*.log",
    "/var/log/nginx/access.log",
    "DhcpSrvLog-*.log",
    "/var/log/mysql/error.log",
    "postgresql-*.log",
    "/var/opt/mssql/log/errorlog",
    "/var/log/kafka/server.log",
    "/var/log/hadoop/*.log" }
PathsWhole == \A path \in TailedPaths : Pieces(path) = <<path>>

LEMMA PathsFit ==
  ASSUME PathsWhole
  PROVE  \A path \in TailedPaths : OnePiece(path)
<1>1. \A path \in TailedPaths : path # ""
  BY Zenon DEF TailedPaths
<1> QED
  BY <1>1, Zenon DEF PathsWhole, OnePiece, NonBlank

LEMMA TailsFine ==
  ASSUME TheTables, PathsWhole
  PROVE  /\ Fine("w3c_logs")
         /\ Fine("nginx")
         /\ Fine("windows_dhcp")
         /\ Fine("mysql")
         /\ Fine("postgresql")
         /\ Fine("sql_server")
         /\ Fine("kafka")
         /\ Fine("hadoop")
<1>1. Fine("w3c_logs")
  <2>1. PICK path, pattern, sourcetype :
          /\ path = "W3SVC1/*.log"
          /\ pattern = "re:w3c" /\ sourcetype = "iis_w3c"
    OBVIOUS
  <2>2. OnePiece(path) /\ NonBlank(pattern) /\ NonBlank(sourcetype)
    BY <2>1, PathsFit, Zenon DEF NonBlank, TailedPaths
  <2>3. \A p : Build("w3c_logs", p)
                 = TailParsed(p, path, pattern, sourcetype)
    BY <2>1, Builders, Zenon DEF build_w3c_logs
  <2>4. IsEntry("w3c_logs", "file_log", <<IncludeParam(Some(path))>>)
    BY <2>1, TemplatesListed, Zenon DEF TheTemplates, W3C_LOGS_PARAMS
  <2> QED
    BY <2>2, <2>3, <2>4, ParsedFine
<1>2. Fine("nginx")
  <2>1. PICK path, pattern, sourcetype :
          /\ path = "/var/log/nginx/access.log"
          /\ pattern = "re:nginx" /\ sourcetype = "nginx_access"
    OBVIOUS
  <2>2. OnePiece(path) /\ NonBlank(pattern) /\ NonBlank(sourcetype)
    BY <2>1, PathsFit, Zenon DEF NonBlank, TailedPaths
  <2>3. \A p : Build("nginx", p)
                 = TailParsed(p, path, pattern, sourcetype)
    BY <2>1, Builders, Zenon DEF build_nginx
  <2>4. IsEntry("nginx", "file_log", <<IncludeParam(Some(path))>>)
    BY <2>1, TemplatesListed, Zenon DEF TheTemplates, NGINX_PARAMS
  <2> QED
    BY <2>2, <2>3, <2>4, ParsedFine
<1>3. Fine("windows_dhcp")
  <2>1. PICK path, pattern, sourcetype :
          /\ path = "DhcpSrvLog-*.log"
          /\ pattern = "re:dhcp" /\ sourcetype = "windows_dhcp"
    OBVIOUS
  <2>2. OnePiece(path) /\ NonBlank(pattern) /\ NonBlank(sourcetype)
    BY <2>1, PathsFit, Zenon DEF NonBlank, TailedPaths
  <2>3. \A p : Build("windows_dhcp", p)
                 = TailParsed(p, path, pattern, sourcetype)
    BY <2>1, Builders, Zenon DEF build_windows_dhcp
  <2>4. IsEntry("windows_dhcp", "file_log", <<IncludeParam(Some(path))>>)
    BY <2>1, TemplatesListed, Zenon DEF TheTemplates, WINDOWS_DHCP_PARAMS
  <2> QED
    BY <2>2, <2>3, <2>4, ParsedFine
<1>4. Fine("mysql")
  <2>1. PICK path, pattern, sourcetype :
          /\ path = "/var/log/mysql/error.log"
          /\ pattern = "re:mysql" /\ sourcetype = "mysql_error"
    OBVIOUS
  <2>2. OnePiece(path) /\ NonBlank(pattern) /\ NonBlank(sourcetype)
    BY <2>1, PathsFit, Zenon DEF NonBlank, TailedPaths
  <2>3. \A p : Build("mysql", p)
                 = TailParsed(p, path, pattern, sourcetype)
    BY <2>1, Builders, Zenon DEF build_mysql
  <2>4. IsEntry("mysql", "file_log", <<IncludeParam(Some(path))>>)
    BY <2>1, TemplatesListed, Zenon DEF TheTemplates, MYSQL_PARAMS
  <2> QED
    BY <2>2, <2>3, <2>4, ParsedFine
<1>5. Fine("postgresql")
  <2>1. PICK path, pattern, sourcetype :
          /\ path = "postgresql-*.log"
          /\ pattern = "re:postgresql" /\ sourcetype = "postgresql"
    OBVIOUS
  <2>2. OnePiece(path) /\ NonBlank(pattern) /\ NonBlank(sourcetype)
    BY <2>1, PathsFit, Zenon DEF NonBlank, TailedPaths
  <2>3. \A p : Build("postgresql", p)
                 = TailParsed(p, path, pattern, sourcetype)
    BY <2>1, Builders, Zenon DEF build_postgresql
  <2>4. IsEntry("postgresql", "file_log", <<IncludeParam(Some(path))>>)
    BY <2>1, TemplatesListed, Zenon DEF TheTemplates, POSTGRESQL_PARAMS
  <2> QED
    BY <2>2, <2>3, <2>4, ParsedFine
<1>6. Fine("sql_server")
  <2>1. PICK path, pattern, sourcetype :
          /\ path = "/var/opt/mssql/log/errorlog"
          /\ pattern = "re:mssql" /\ sourcetype = "sql_server"
    OBVIOUS
  <2>2. OnePiece(path) /\ NonBlank(pattern) /\ NonBlank(sourcetype)
    BY <2>1, PathsFit, Zenon DEF NonBlank, TailedPaths
  <2>3. \A p : Build("sql_server", p)
                 = TailParsed(p, path, pattern, sourcetype)
    BY <2>1, Builders, Zenon DEF build_sql_server
  <2>4. IsEntry("sql_server", "file_log", <<IncludeParam(Some(path))>>)
    BY <2>1, TemplatesListed, Zenon DEF TheTemplates, SQL_SERVER_PARAMS
  <2> QED
    BY <2>2, <2>3, <2>4, ParsedFine
<1>7. Fine("kafka")
  <2>1. PICK path, pattern, sourcetype :
          /\ path = "/var/log/kafka/server.log"
          /\ pattern = "re:kafka" /\ sourcetype = "kafka"
    OBVIOUS
  <2>2. OnePiece(path) /\ NonBlank(pattern) /\ NonBlank(sourcetype)
    BY <2>1, PathsFit, Zenon DEF NonBlank, TailedPaths
  <2>3. \A p : Build("kafka", p)
                 = TailParsed(p, path, pattern, sourcetype)
    BY <2>1, Builders, Zenon DEF build_kafka
  <2>4. IsEntry("kafka", "file_log", <<IncludeParam(Some(path))>>)
    BY <2>1, TemplatesListed, Zenon DEF TheTemplates, KAFKA_PARAMS
  <2> QED
    BY <2>2, <2>3, <2>4, ParsedFine
<1>8. Fine("hadoop")
  <2>1. PICK path, pattern, sourcetype :
          /\ path = "/var/log/hadoop/*.log"
          /\ pattern = "re:hadoop" /\ sourcetype = "hadoop"
    OBVIOUS
  <2>2. OnePiece(path) /\ NonBlank(pattern) /\ NonBlank(sourcetype)
    BY <2>1, PathsFit, Zenon DEF NonBlank, TailedPaths
  <2>3. \A p : Build("hadoop", p)
                 = TailParsed(p, path, pattern, sourcetype)
    BY <2>1, Builders, Zenon DEF build_hadoop
  <2>4. IsEntry("hadoop", "file_log", <<IncludeParam(Some(path))>>)
    BY <2>1, TemplatesListed, Zenon DEF TheTemplates, HADOOP_PARAMS
  <2> QED
    BY <2>2, <2>3, <2>4, ParsedFine
<1> QED
  BY <1>1, <1>2, <1>3, <1>4, <1>5, <1>6, <1>7, <1>8

LEMMA AllFine ==
  ASSUME TheTables, PathsWhole
  PROVE  \A key \in TemplateKeys : Fine(key)
<1>1. OnePiece("/var/log/*.log") /\ OnePiece("/var/log/*.jsonl")
  BY PathsFit DEF TailedPaths
<1> QED
  BY <1>1, TemplatesListed, CiscoFine, SyslogsFine, FileLogFine, JsonLogsFine,
     ActiveDirectoryFine, TailsFine

\* The registered build functions fall back to what the form shows.
LEMMA TheBuildsAlike ==
  ASSUME TheTables, PathsWhole
  PROVE  BuildsAlike
BY AllFine DEF BuildsAlike, Fine, AlikeIn

\* What a form's value has at the parameters.
LEMMA FromParamsForm ==
  ASSUME NEW key \in TemplateKeys, NEW form, ParamsForm(key, form)
  PROVE  FromForm(TemplateOf(key).params, to_value(form))
<1>1. PICK schema, fields, value :
        /\ schema = <<"Template", key>> /\ fields = TemplateOf(key).params
        /\ value = to_value(form)
  OBVIOUS
<1>2. schema \in Schemas /\ FieldsOf[schema] = fields
  BY <1>1, SchemaFacts DEF FieldsOf
<1>3. /\ IsForm(form) /\ WholeForm(form) /\ form.schema = schema
      /\ form.schema[1] # "Operator"
  BY <1>1 DEF ParamsForm
<1>4. ASSUME NEW i \in DOMAIN fields, NEW leaf,
             get_path(value, fields[i].key) = leaf, leaf # Missing
      PROVE  Ordinary(fields[i], leaf)
  <2>1. PICK f, state : f = fields[i] /\ state = form.fields[i]
    OBVIOUS
  <2>2. Written(f, state) = leaf
    BY <1>1, <1>2, <1>3, <1>4, <2>1, WrittenPath
  <2>3. Fits(f, state) /\ WholeState(state)
    BY <1>2, <1>3, <2>1 DEF IsForm, FormOK, WholeForm
  <2> QED
    BY <1>4, <2>1, <2>2, <2>3, WrittenOrdinary
<1> QED
  BY <1>1, <1>4 DEF FromForm

LEMMA ReceiverReopens ==
  ASSUME TheTables, PathsWhole, Typed, Reviewed
  PROVE  TemplateReceiverReopens
<1> SUFFICES ASSUME screen.kind = "ReviewTemplateReceiver"
             PROVE  Shows(TemplateOf(screen.template).receiver_type,
                          screen.receiver)
  BY DEF TemplateReceiverReopens, Shows, AllFit, OpFits
<1>1. PICK form : /\ ParamsForm(screen.template, form)
                  /\ screen.params = to_value(form)
  BY DEF Reviewed
<1>2. screen.template \in TemplateKeys
  BY DEF Typed, Shape, TemplateShape
<1>3. FromForm(TemplateOf(screen.template).params, screen.params)
  BY <1>1, <1>2, FromParamsForm
<1>4. screen.receiver = Build(screen.template, screen.params)
  BY DEF Reviewed
<1> QED
  BY <1>2, <1>3, <1>4, AllFine DEF Fine

\* From the review Esc leads to a form that builds the same receiver, for the
\* templates of templates.rs.
THEOREM TemplatesGoBack ==
  ASSUME TheTables, PathsWhole, SplitsOnce, TypedWhole
  PROVE  Spec => []ReviewCanGoBack
BY TheBuildsAlike, ReviewCorrect

\* "indistinguishable from a receiver built by hand once inserted"
\* (templates.rs): the forms of the registry show every field of the receiver
\* that is reviewed, and every operator of its chain.
THEOREM TemplatesReopen ==
  ASSUME TheTables, PathsWhole, SplitsOnce, TypedWhole
  PROVE  Spec => []TemplateReceiverReopens
<1>1. Init => Reviewed
  BY DEF Init, TopLevel, Reviewed
<1>2. Typed /\ Reviewed /\ [Next]_vars => Reviewed'
  BY ReviewedStep
<1>3. Typed /\ Reviewed => TemplateReceiverReopens
  BY ReceiverReopens
<1> QED
  BY <1>1, <1>2, <1>3, Typeness, PTL DEF Spec
=============================================================================
