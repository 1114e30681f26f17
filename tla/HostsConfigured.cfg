SPECIFICATION Spec
CONSTANTS
  HostIds <- MCHostIds
  Groups <- MCGroups
  Globs <- MCGlobs
  Matched <- MCMatched
  Rank <- MCRank
  Unset = Unset
  Requests = {r1, r2}
  Inventories <- MCInventories
  Archives <- MCArchives
CHECK_DEADLOCK FALSE
INVARIANT RelationsClosed
INVARIANT OnlyTargeted
INVARIANT AnswerIsOwn
INVARIANT RecipesReached
