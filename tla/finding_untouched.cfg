SPECIFICATION Spec
CONSTANTS
  component_type <- MCcomponent_type
  Ids <- MCIds
  Rank <- MCRank
  Pieces <- MCPieces
  JsonText = "json"
  Build <- MCBuild
  Valid <- MCValid
  TypesFor <- MCTypesFor
  OperatorTypes <- OPERATOR_TYPES
  Templates <- MCTemplates
  Files <- FormsFiles
  Names = {"new"}
  Texts = {"", "x"}
  Lists <- FormsLists
  MaxChanges = 1
  MaxEdits = 1
  MaxOps = 1
CHECK_DEADLOCK FALSE
PROPERTY OnlyEditedFieldsChange
