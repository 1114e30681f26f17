SPECIFICATION Spec
CONSTANTS
  Paths <- MCPaths
  Assets <- MCAssets
  Rendered <- MCRendered
  Zipped <- MCZipped
  Recipes <- MCRecipes
  Trees <- MCTrees
  Faults = {"refused", "cut", "full", "crash"}
  MaxFaults = 3
  MaxRuns = 4
INVARIANTS
  RepairedBySuccess
  RetryWorks
CHECK_DEADLOCK FALSE
