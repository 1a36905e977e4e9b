SPECIFICATION Spec
CONSTANTS
  Limit <- MCLimit
  Documents <- MCDocuments
INVARIANTS
  ReferencesResolve
  LayoutDoesNotMatter
  RuntimeReady
CHECK_DEADLOCK FALSE
