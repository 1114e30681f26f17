SPECIFICATION Spec
CONSTANTS
  x1 = x1
  x2 = x2
  k1 = k1
  k2 = k2
  b1 = b1
  Reloads = {r1, r2}
  Releases <- MCReleases
  Recipes <- MCRecipes
  RecipesOf <- MCRecipesOf
  MaxInFlight = 2
  Faults = {"network", "report", "logfile", "recipe", "disk", "crash"}
  InitKey = InitKey
  NoRelease = NoRelease
  Torn = Torn
  NoItem = NoItem
SYMMETRY MCSymmetry
INVARIANT RecordedMeansRan
INVARIANT ItemInOnePlace
INVARIANT NothingLeftBehind
INVARIANT LogsFollowOutcome
INVARIANT ReportedOutcome
