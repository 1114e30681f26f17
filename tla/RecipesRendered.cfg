\* Two recipes at a time, of eight.
SPECIFICATION FairScopes
CONSTANTS
  Renderers = {p1, p2}
  p1 = p1
  p2 = p2
  MaxRenders = 4
  Programs <- MCPrograms
  Tasks <- MCTasks
INVARIANTS
  NestedResolved
  ReturnsWhatWasSeen
PROPERTY
  RecipesEnd
CHECK_DEADLOCK FALSE
