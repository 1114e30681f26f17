SPECIFICATION FairSpec
CONSTANTS
  Tasks <- MCTasks
  Lists <- MCLists
  Top <- MCTop
  NoList <- MCNoList
  Steps <- MCSteps
  Home <- MCHome
  Owner <- MCOwner
  Role <- MCRole
  Kind <- MCKind
  Rounds <- MCRounds
  Above <- MCAbove
  Scope <- MCScope
  Checked <- MCChecked
  Listeners <- MCListeners
CHECK_DEADLOCK FALSE
INVARIANT ErrorsHandled
INVARIANT VarsOfSuccess
INVARIANT ExitHalts
INVARIANT HooksScoped
