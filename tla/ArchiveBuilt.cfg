\* Two roots, every way to make, send and run their archive.
SPECIFICATION FairSpec
CONSTANTS
  Place <- MCPlace
  Held <- MCHeld
  Url <- MCUrl
  Projects <- MCProjects
  Packed <- MCPacked
  MaxDepth = 4
INVARIANTS
  FoundAsValidated
  RunsAsFound
  VarsByTrust
  AssetsAreOwn
PROPERTY
  EndsUnlessCyclic
CHECK_DEADLOCK FALSE
