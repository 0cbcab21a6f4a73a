SPECIFICATION SearchSpec
CONSTANTS
  Titles <- MCTitles
  Bodies <- MCBodies
  Keywords <- MCKeywords
INVARIANTS
  SearchTypeOK
  FindsPrefixes
CHECK_DEADLOCK FALSE
