SPECIFICATION FairSpec
CONSTANTS
  x1 = x1
  x2 = x2
  k1 = k1
  k2 = k2
  b1 = b1
  Reloads = {r1, r2}
  Releases <- MCReleases
  Recipes <- MCRecipes
  RecipesOf <- MCRecipesOf
  MaxInFlight = 2
  Faults = {"recipe", "network"}
  InitKey = InitKey
  NoRelease = NoRelease
  Torn = Torn
  NoItem = NoItem
INVARIANT StatusSettles
PROPERTY ReloadsEnd
PROPERTY PollConverges
