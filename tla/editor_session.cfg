SPECIFICATION Spec
CONSTANTS
  component_type <- MCcomponent_type
  Ids <- MCIds
  Rank <- MCRank
  Pieces <- MCPieces
  JsonText = "json"
  Build <- MCBuild
  Valid <- MCValid
  TypesFor <- SmallTypesFor
  OperatorTypes <- SmallOperatorTypes
  Templates <- SmallTemplates
  Files <- SessionFiles
  Names <- SessionNames
  Texts = {"x"}
  Lists <- SessionLists
  MaxChanges = 2
  MaxEdits = 1
  MaxOps = 2
CHECK_DEADLOCK FALSE
INVARIANTS TypeOK SelectionInRange DirtyTracksDisk TemplateNeverOverwrites EditedOperatorInPlace
PROPERTY RemovalLeavesNoReference
