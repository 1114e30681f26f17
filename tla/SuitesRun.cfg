\* Suites and runs in containers that die, with commands that fail or are killed.
SPECIFICATION Spec
CONSTANTS
  Programs <- MCPrograms
  MaxFaults = 2
  MaxTries = 2
INVARIANTS
  ContainersGone
  ReportsTrue
PROPERTIES
  ReportSpec
CHECK_DEADLOCK FALSE
